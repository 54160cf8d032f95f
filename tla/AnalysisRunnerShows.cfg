SPECIFICATION RunnerFairSpec
CHECK_DEADLOCK FALSE
CONSTANTS
  p1 = p1
  p2 = p2
  NoPage = NoPage
  Nothing = Nothing
  Pages = {p1, p2}
  Stages = 2
  MaxPageEvents = 3
INVARIANT RunnerTypeOK
PROPERTIES
  EndIsShown
  DrivesUnlessDisturbed
