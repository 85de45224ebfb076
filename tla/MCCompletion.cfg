CONSTANTS
  p1 = p1
  p2 = p2
  oss1 = oss1
  Proc = {p1, p2}
  Code = {oss1}
  None = None
  Enabling = FALSE
  MaxVersion = 2
  MaxNow = 1
  MaxDeaths = 1
  LockTtl = 3
  FnTicks = 2
  MayFail = TRUE
SPECIFICATION CompletionSpec
CHECK_DEADLOCK FALSE
PROPERTIES EveryCallEnds EveryWrapEnds MarkedTimeLands
