SPECIFICATION Spec
CONSTANTS
  t1 = t1  t2 = t2
  Threads <- TwoThreads
  Blocks <- SomeBlocks
  RawBlocks <- SomeRaws
  NumPartitions = 4
  KernelRegisters = {4096, 4136}
  MaxSignals = 1
SYMMETRY ThreadSymmetry
INVARIANTS
  KernelKeepsMemory
