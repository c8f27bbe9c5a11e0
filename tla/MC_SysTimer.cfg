SPECIFICATION FairTimerSpec
CONSTANTS
  t1 = t1
  t2 = t2
  Msgs = {t1, t2}
  NoMsg = NoMsg
  IdMax = 1
  FirstId = 0
  Home <- MCHome
  Delays = {2, 3}
  W = 8
  Byte = 4
  Noos = FALSE
  IsrTimers = {t1}
  IsrInExpiry = FALSE
  MaxCalls = 1
  WindowTicks = 1
PROPERTIES
  KeepsTime
