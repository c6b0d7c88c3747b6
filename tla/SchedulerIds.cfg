SPECIFICATION Spec
CONSTANTS
  Apps = {"VecAdd", "Other"}
  Boards <- MCBoards
  NumPartitions = 2
  Bin <- MCBin
  Names <- MCNames
  TotRequest = 1
  PrMayFail = FALSE
INVARIANT RegisteredUnderItsId
CHECK_DEADLOCK FALSE
