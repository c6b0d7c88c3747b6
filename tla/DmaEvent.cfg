SPECIFICATION Spec
CONSTANTS
  r1 = r1
  PageUnits = 4  TableSize = 2  PagesLocked = 4
  Transfers <- TwoTransfers
  Modes = {"blocking", "event"}
  Parts <- OneRegion
  MaxTables = 2  PrMayFail = FALSE
  Channels = FALSE
INVARIANTS
  EventMeansDone
