SPECIFICATION Spec
CONSTANTS
  Instances = {i, j}
  LeaseDuration = 6
  RenewDeadline = 2
  RetryPeriod = 1
  Latency = 1
  MaxPending = 1
INVARIANT LeaseExcludes
PROPERTIES
  LeaseRespected
  NoLeaderlessWait
