CONSTANTS
  p1 = p1
  p2 = p2
  oss1 = oss1
  oss2 = oss2
  d1 = d1
  d2 = d2
  d3 = d3
  m1 = m1
  Proc = {p1, p2}
  Code = {oss1, oss2}
  None = None
  Enabling = FALSE
  MaxVersion = 3
  Dept = {d1, d2, d3}
  MayDie = TRUE
  Attempts = 3
  MaxStarts = 4
SPECIFICATION RecordsSpec
CHECK_DEADLOCK FALSE
CONSTRAINT OneTrouble
SYMMETRY MCSymmetry
INVARIANTS TypeOK TargetExists FilesHaveConfig BootstrapLeavesAdmin
PROPERTIES ImplementsRegister DepartmentsSafe
