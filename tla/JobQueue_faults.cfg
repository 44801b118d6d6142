SPECIFICATION Spec
CONSTANTS
  Jobs = {j1}
  Workers = {w1}
  Docs = {d1, d2, d3}
  FileJobs = {j1}
  TaggedJobs = {j1}
  SummaryJobs = {j1}
  Deletable = {d1, d2, d3}
  NoJob = NoJob
  NoDoc = NoDoc
  ClusterMode = TRUE
  ChanCap = 1
  MaxStamp = 1
  MaxCrashes = 2
  MaxFaults = 1
INVARIANTS
  CheckpointIsResumable
  
PROPERTIES
  NoRechunking
CHECK_DEADLOCK FALSE
