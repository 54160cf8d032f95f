SPECIFICATION FairSpec
CHECK_DEADLOCK FALSE
CONSTANTS
  f1 = f1
  f2 = f2
  r1 = r1
  r2 = r2
  r3 = r3
  w1 = w1
  w2 = w2
  q1 = q1
  NoRun = NoRun
  NoRow = NoRow
  Locators = {f1, f2}
  NameOf <- MCOwnNames
  Kinds = {"SHARED_FOLDER", "GOOGLE_DRIVE"}
  Runs = {r1, r2, r3}
  Workers = {w1}
  Requests = {q1}
  Reverts = FALSE
  Deliveries = 1
  MaxWrites = 3
  MaxStarts = 1
  MaxFaults = 1
  MaxLapses = 1
  MaxEvents = 3
PROPERTY RefreshConverges
