SPECIFICATION ReviewSpec
CHECK_DEADLOCK FALSE
CONSTANTS
  k1 = k1
  k2 = k2
  w1 = w1
  a = a
  b = b
  c = c
  KpiIds = {k1}
  WidgetIds = {w1}
  ShownBy <- MCShownBy
  Reviewers = {a, b}
  MaxRegenerations = 2
  ActsOnSuperseded = TRUE
SYMMETRY ReviewerSymmetry
INVARIANTS
  ReviewTypeOK
  VersionsAreBacked
  NewestRevisionIsLive
