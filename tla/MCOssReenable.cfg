CONSTANTS
  p1 = p1
  p2 = p2
  oss1 = oss1
  oss2 = oss2
  Proc = {p1, p2}
  Code = {oss1, oss2}
  None = None
  Enabling = TRUE
  MaxVersion = 2
SPECIFICATION Spec
SYMMETRY MCSymmetry
INVARIANTS TargetExists
