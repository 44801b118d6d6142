SPECIFICATION Spec
CONSTANTS
  Jobs = {j1}
  Workers = {w1}
  Docs = {d1, d2}
  FileJobs = {}
  TaggedJobs = {}
  SummaryJobs = {j1}
  Deletable = {}
  NoJob = NoJob
  NoDoc = NoDoc
  ClusterMode = FALSE
  ChanCap = 1
  MaxStamp = 1
  MaxCrashes = 1
  MaxFaults = 0
INVARIANT
  JobsSurviveRestarts
CHECK_DEADLOCK FALSE
