SPECIFICATION Spec
CONSTANTS
  Apps = {"VecAdd", "Other", "Wide"}
  Boards <- MCBoards
  NumPartitions = 2
  Bin <- MCBin
  Names <- MCNames
  TotRequest = 2
  PrMayFail = TRUE
INVARIANT RegistryFollowsBoard
CHECK_DEADLOCK FALSE
