\* Main and an interrupt find the same free slot.
SPECIFICATION PoolSpec
CONSTANTS
  ci = ci
  Msgs <- MCMsgs
  NoMsg = NoMsg
  IdMax = 4
  FirstId = 2
  Home <- MCHome
  PoolSize = 2
  ModMax = 2
  MaxSends = 2
  Senders = {"main", "isr"}
PROPERTIES
  ReusedAfterInvalid
