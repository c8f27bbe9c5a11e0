\* Main and an interrupt send to two modules, at every step of the loop and of
\* each other.  Two slots, four sends: the pool runs full.
SPECIFICATION PoolSpec
CONSTANTS
  ci = ci
  Msgs <- MCMsgs
  NoMsg = NoMsg
  IdMax = 4
  FirstId = 2
  Home <- MCHome
  PoolSize = 2
  ModMax = 2
  MaxSends = 4
  Senders = {"main", "isr"}
INVARIANTS
  Lossless
