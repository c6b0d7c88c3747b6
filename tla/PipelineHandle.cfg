SPECIFICATION Spec
CONSTANTS
  j1 = j1  j2 = j2  j3 = j3  s1 = s1  s2 = s2  p1 = p1  p2 = p2  d1 = d1  d2 = d2
  Jobs <- ThreeJobs
  Services <- TwoServices
  PRRs <- TwoRegions
  Devices <- OneBoard
  ServiceOf <- MCServiceOf
  Instances <- InitialInstances
  AllPRRs <- MCAllPRRs
  SchedulingType = "LocRR"
  DeviceOf <- OnOneBoard
  NoJob = NoJob  NoPRR = NoPRR  NoService = NoService
  HandleSurvives = {FALSE}
  JtagFallback = FALSE
  ReprogramMayFail = FALSE
INVARIANT NoStaleHandle
