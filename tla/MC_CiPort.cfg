\* The I2C receiver really stops when a frame gets no answer: no deadlock check.
SPECIFICATION FairSpec
CONSTANTS
  Byte <- MCByte
  Heads = {7}
  RxBufMax = 7
  SysQueueLen = 2
  Confs <- MCConfs
INVARIANTS
  CiTypeOK
  Watched
  ReadyIsOwned
PROPERTIES
  FrameWellFormed
  FrameStable
  Listens
  Resyncs
CHECK_DEADLOCK FALSE
