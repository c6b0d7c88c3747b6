SPECIFICATION Spec
CONSTANTS
  j1 = j1  j2 = j2  j3 = j3  s1 = s1  s2 = s2  p1 = p1  p2 = p2  d1 = d1  d2 = d2
  Jobs = {j1, j3}
  Services <- TwoServices
  PRRs <- TwoRegions
  Devices <- OneBoard
  ServiceOf <- TwoJobsServiceOf
  Instances <- InitialInstances
  AllPRRs <- MCAllPRRs
  SchedulingType = "GlobRR"
  DeviceOf <- OnOneBoard
  NoJob = NoJob  NoPRR = NoPRR  NoService = NoService
  HandleSurvives = {TRUE}
  JtagFallback = TRUE
  ReprogramMayFail = FALSE
INVARIANT AlreadyConfigured
