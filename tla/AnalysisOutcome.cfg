SPECIFICATION OutcomeSpec
CHECK_DEADLOCK FALSE
CONSTANTS
  k1 = k1
  k2 = k2
  r1 = r1
  r2 = r2
  j1 = j1
  j2 = j2
  q1 = q1
  q2 = q2
  o1 = o1
  o2 = o2
  Kpis = {k1, k2}
  NoKpi = NoKpi
  FallbackKpi = k1
  Runners = {r1, r2}
  MaxTakeovers = 1
  MaxSetbacks = 2
  MaxQueries = 6
  NoObjective = NoObjective
  NoJob = NoJob
  Jobs = {j1, j2}
  Requests = {q1, q2}
  Retriers = {q1}
  Creators = {q1}
  Objectives = {o1, o2}
  MaxFaults = 1
  MaxRetries = 1
  StageCount = 2
  Reads <- MCReads
  Writes <- MCWrites
SYMMETRY MCSymmetry
INVARIANTS
  StagesTypeOK
  ReviewIsBacked
  DashboardFollowsJobs
