SPECIFICATION Spec
CONSTANTS
  t1 = t1
  t2 = t2
  Threads <- TwoThreads
  Regions = {"r1"}
  Images <- SomeFiles
  FirstBase = "b1"
  FirstQuartus = "17b"
  OldBases = {"b0"}
  Trunk <- MCTrunk
  UseJtag = FALSE
  SkipVersion = FALSE
  MaxOpens = 2
  MaxLaunches = 2
  MayInterrupt = TRUE
SYMMETRY Alike
CONSTRAINT Apart
CHECK_DEADLOCK FALSE
INVARIANTS
  TypeOK
  HandleNamesItsDevice
  CompletionOnItsWay
  CarefulHostIsSafe
  CtrlCSparesProgramming
  SameQuartus
