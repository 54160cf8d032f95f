SPECIFICATION Spec
CHECK_DEADLOCK FALSE
CONSTANTS
  f1 = f1
  f2 = f2
  r1 = r1
  r2 = r2
  r3 = r3
  w1 = w1
  w2 = w2
  q1 = q1
  NoRun = NoRun
  NoRow = NoRow
  Locators = {f1, f2}
  NameOf <- MCNameOf
  Kinds = {"SHARED_FOLDER", "GOOGLE_DRIVE"}
  Runs = {r1, r2}
  Workers = {w1, w2}
  Requests = {q1}
  Reverts = TRUE
  Deliveries = 1
  MaxWrites = 3
  MaxStarts = 1
  MaxFaults = 1
  MaxLapses = 1
  MaxEvents = 3
SYMMETRY RefreshSymmetry
INVARIANTS
  TypeOK
  OneWorkerPerRun
  DocumentsAreNewestVersions
  SnapshotsFollowDocuments
  DeletedFilesAreHidden
