SPECIFICATION FairSpec
CONSTANTS
  Apps = {"VecAdd", "Other"}
  Boards <- MCBoards
  NumPartitions = 2
  Bin <- MCBin
  Names <- MCNames
  TotRequest = 2
  PrMayFail = FALSE
PROPERTY PartitionsComeBack
CHECK_DEADLOCK FALSE
