SPECIFICATION BreakerSpec
CHECK_DEADLOCK FALSE
CONSTANTS
  Callers = {c1, c2, c3}
  FailureThreshold = 3
  Cooldown = 2
  HasFallback = TRUE
  NotOpen = NotOpen
INVARIANT SingleProbe
