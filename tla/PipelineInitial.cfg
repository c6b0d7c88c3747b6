SPECIFICATION FairSpec
CONSTANTS
  j1 = j1  j2 = j2  j3 = j3  s1 = s1  s2 = s2  p1 = p1  p2 = p2  d1 = d1  d2 = d2
  Jobs <- ThreeJobs
  Services <- TwoServices
  PRRs <- TwoRegions
  Devices <- TwoBoards
  ServiceOf <- MCServiceOf
  Instances <- InitialInstances
  AllPRRs <- MCAllPRRs
  SchedulingType = "LocRR"
  DeviceOf <- OnTwoBoards
  NoJob = NoJob  NoPRR = NoPRR  NoService = NoService
  HandleSurvives = {TRUE, FALSE}
  JtagFallback = TRUE
  ReprogramMayFail = TRUE
INVARIANTS
  EntryInOnePlace
PROPERTIES
  EveryJobRuns
