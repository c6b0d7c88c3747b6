SPECIFICATION Spec
CONSTANTS
  t1 = t1  t2 = t2
  Threads <- TwoThreads
  Blocks <- SomeBlocks
  RawBlocks <- SomeRaws
  NumPartitions = 4
  KernelRegisters = {2160}
  MaxSignals = 1
SYMMETRY ThreadSymmetry
INVARIANTS
  TypeOK
  ExactWhenAlone
  CopiesAreTrue
  RawReaches
