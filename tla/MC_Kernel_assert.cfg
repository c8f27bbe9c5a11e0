SPECIFICATION Spec
CONSTANTS
  Task <- MCTask
  Idle = "idle"
  Mutex <- MCMutex
  None = None
  TickMod = 4
  InitialTick = 2
  MaxTime = 10
  MaxNotes = 1
  QueueLength = 1
  MAX_PRIORITIES = 4
  Confs <- Late
INVARIANTS
  NoTimeLeftNoInheritance
CHECK_DEADLOCK FALSE
