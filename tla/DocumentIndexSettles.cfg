SPECIFICATION FairSpec
CHECK_DEADLOCK FALSE
CONSTANTS
  d1 = d1
  d2 = d2
  w1 = w1
  w2 = w2
  q1 = q1
  Documents = {d1}
  Workers = {w1}
  Requests = {q1}
  MaxAttempts = 2
  Deliveries = 2
  MaxWaiting = 2
  MaxVersions = 1
  MaxRetries = 1
  MaxCancels = 1
  MaxFaults = 1
  MaxLapses = 1
  MaxSetbacks <- MCLiveSetbacks
PROPERTIES
  JobsSettle
