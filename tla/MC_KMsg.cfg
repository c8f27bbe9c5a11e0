SPECIFICATION FairSpec
CONSTANTS
  tm1 = tm1
  tm2 = tm2
  ci = ci
  dip = dip
  Msgs = {tm1, tm2, ci, dip}
  NoMsg = NoMsg
  IdMax = 5
  FirstId = 2
  Home <- MCHome
INVARIANTS
  ListIntegrity
  NoStaleMessage
PROPERTIES
  ServesMailbox
  NothingStarves
