CONSTANTS
  p1 = p1
  p2 = p2
  v1 = v1
  Proc = {p1, p2}
  Values = {v1}
  Default = v1
  Status = {"active"}
  None = None
  MayFail = FALSE
  MaxCommits = 3
SPECIFICATION Spec
CHECK_DEADLOCK FALSE
SYMMETRY MCSymmetry
PROPERTIES OptimisticLock
