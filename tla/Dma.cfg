SPECIFICATION Spec
CONSTANTS
  r1 = r1
  PageUnits = 4  TableSize = 2  PagesLocked = 4
  Transfers <- ManyTransfers
  Modes = {"event"}
  Parts <- OneRegion
  MaxTables = 2  PrMayFail = TRUE
  Channels = FALSE
INVARIANTS
  TypeOK
  PinnedWhileBusy
  CopiesInOrder
  NothingLeftPinned
PROPERTIES
  ImplementsTransfer
