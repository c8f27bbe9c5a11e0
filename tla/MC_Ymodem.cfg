\* Both ends stop when the transfer is over: no deadlock check.
SPECIFICATION FairSpec
CONSTANTS
  MAX_ERRORS = 2
  RETRY_TIMES_MAX = 3
  Confs <- MCConfs
INVARIANTS
  WritesInOrder
  Delivered
PROPERTIES
  Terminates
  Succeeds
CHECK_DEADLOCK FALSE
