SPECIFICATION FairSpec
CONSTANTS
  r1 = r1
  PageUnits = 4  TableSize = 2  PagesLocked = 4
  Transfers <- OneTransfer
  Modes = {"blocking"}
  Parts <- OneRegion
  MaxTables = 2  PrMayFail = FALSE
  Channels = TRUE
INVARIANTS
  NothingLeftPinned
PROPERTIES
  TransfersReturn
