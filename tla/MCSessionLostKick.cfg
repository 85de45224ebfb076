CONSTANTS
  j1 = j1
  j2 = j2
  r1 = r1
  r2 = r2
  x1 = x1
  x2 = x2
  Jti = {j1, j2}
  Requests = {r1, r2}
  Resets = {x1, x2}
  None = None
  KickOutEnable = TRUE
  CheckerPresent = TRUE
  QueryMayFail = FALSE
  TicksPerSec = 1
  MaxTime = 1
  Grace = 1
  KickTtl = 3
  Debounce = 1
  MaxTick = 4
SPECIFICATION AllSpec
SYMMETRY MCSymmetry
CHECK_DEADLOCK FALSE
PROPERTIES KickMarkSticks
