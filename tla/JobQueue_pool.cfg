SPECIFICATION Spec
CONSTANTS
  Jobs = {j1, j2}
  Workers = {w1, w2}
  Docs = {d1, d2, d3}
  FileJobs = {}
  TaggedJobs = {}
  SummaryJobs = {}
  Deletable = {}
  NoJob = NoJob
  NoDoc = NoDoc
  ClusterMode = FALSE
  ChanCap = 1
  MaxStamp = 2
  MaxCrashes = 1
  MaxFaults = 0
SYMMETRY Symmetry
INVARIANTS
  OneHolder
  NoLostUpdate
  
  DuplicatesNeedCrashes
PROPERTIES
  LifecycleSpec
CHECK_DEADLOCK FALSE
