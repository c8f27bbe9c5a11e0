SPECIFICATION Spec
CONSTANTS
  Task <- MCTask
  Idle = "idle"
  Mutex <- MCMutex
  None = None
  TickMod = 4
  InitialTick = 2
  MaxTime = 7
  MaxNotes = 1
  QueueLength = 1
  MAX_PRIORITIES = 4
  Confs <- MCConfs
INVARIANTS
  ListsAgree
  HighestRuns
  NoLostWakeup
  Inherited
  NeverLate
PROPERTIES
  NeverEarly
CHECK_DEADLOCK FALSE
