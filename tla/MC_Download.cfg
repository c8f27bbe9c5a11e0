SPECIFICATION DldSpec
CONSTANTS
  Unit = {0, 1}
  item_cnt = 3
  ItemUnits = 1
  Batch = 4
  IndexMod = 6
  Confs <- MCConfs
  CreateMayFail = FALSE
INVARIANTS
  ReadsItsOwn
PROPERTIES
  ImplementsQueue
  GivesBack
