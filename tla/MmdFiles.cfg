SPECIFICATION Spec
CONSTANTS
  t1 = t1
  t2 = t2
  Threads = {t1}
  Regions = {"r1", "r2"}
  Images <- ManyFiles
  FirstBase = "b1"
  FirstQuartus = "17a"
  OldBases = {"b0"}
  Trunk <- MCTrunk
  UseJtag = FALSE
  SkipVersion = FALSE
  MaxOpens = 3
  MaxLaunches = 0
  MayInterrupt = FALSE
CHECK_DEADLOCK FALSE
INVARIANT SameQuartus
