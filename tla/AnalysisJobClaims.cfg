SPECIFICATION FairSpec
CONSTANTS
  r1 = r1
  r2 = r2
  r3 = r3
  j1 = j1
  j2 = j2
  o1 = o1
  o2 = o2
  NoObjective = NoObjective
  NoJob = NoJob
  Jobs = {j1}
  Requests = {r1, r2}
  Retriers = {r1}
  Creators = {r1}
  Objectives = {o1}
  MaxFaults = 2
  MaxRetries = 1
  StageCount = 4
  Reads <- MCReads
  Writes <- MCWrites
INVARIANTS
  TypeOK
  ClaimsAreFenced
  StagesBehindAreBacked
PROPERTIES
  ImplementsLifecycle
  AnalysisSettles
