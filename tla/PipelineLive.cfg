SPECIFICATION FairSpec
CONSTANTS
  j1 = j1  j2 = j2  j3 = j3  s1 = s1  s2 = s2  p1 = p1  p2 = p2  d1 = d1  d2 = d2
  Jobs <- ThreeJobs
  Services <- TwoServices
  PRRs <- OneRegion
  Devices <- OneBoard
  ServiceOf <- MCServiceOf
  Instances <- OneRegionInstances
  AllPRRs <- OnlyPRR
  SchedulingType = "GlobRR"
  DeviceOf <- OneRegionDeviceOf
  NoJob = NoJob  NoPRR = NoPRR  NoService = NoService
  HandleSurvives = {TRUE, FALSE}
  JtagFallback = TRUE
  ReprogramMayFail = TRUE
PROPERTIES
  EveryJobRuns
  EveryRegionReturns
