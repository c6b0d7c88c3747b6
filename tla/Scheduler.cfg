SPECIFICATION FairSpec
CONSTANTS
  Apps = {"VecAdd", "Other", "Wide"}
  Boards <- MCBoards
  NumPartitions = 2
  Bin <- MCBin
  Names <- MCNames
  TotRequest = 2
  PrMayFail = TRUE
INVARIANTS TypeOK OneHolder RunMeansHeld
PROPERTY SomeoneServed
CHECK_DEADLOCK FALSE
