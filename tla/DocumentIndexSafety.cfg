SPECIFICATION Spec
CHECK_DEADLOCK FALSE
CONSTANTS
  d1 = d1
  d2 = d2
  w1 = w1
  w2 = w2
  q1 = q1
  Documents = {d1, d2}
  Workers = {w1, w2}
  Requests = {q1}
  MaxAttempts = 2
  Deliveries = 2
  MaxWaiting = 2
  MaxVersions = 2
  MaxRetries = 1
  MaxCancels = 1
  MaxFaults = 2
  MaxLapses = 1
  MaxSetbacks <- MCMaxSetbacks
SYMMETRY WorkerSymmetry
INVARIANTS
  TypeOK
  OneIndexerPerVersion
  AttemptsAreBounded
  WhatIsShownIsStored
