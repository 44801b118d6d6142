SPECIFICATION Spec
CONSTANTS
  Clients = {c1}
  Configs <- MCConfigs
  MaxBurst = 3
  MaxRate = 2
  Unit = 2
  Hour = 4
  Skews <- MCSkews
  NoBucket = NoBucket
  MaxNow = 5
  MaxStarts = 2
INVARIANTS
  TokenQuota
  HourlyQuota
  StartQuota
  RetryIsServed
CHECK_DEADLOCK FALSE
