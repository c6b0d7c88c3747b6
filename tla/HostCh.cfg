SPECIFICATION Spec
CONSTANTS
  Asked <- BothChannels
  Chunks = {1, 3}  PageUnits = 2  MaxUnits = 4  LoopMax = 1  MaxOpens = 3
  TransferOpens = 1
INVARIANTS
  TypeOK
  BoardUsesPinned
  PollsUntilIdle
PROPERTIES
  ImplementsStreams
