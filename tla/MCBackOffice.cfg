CONSTANTS
  p1 = p1
  p2 = p2
  q1 = q1
  c1 = c1
  c2 = c2
  n1 = n1
  n2 = n2
  None = None
  Admin = {p1, p2}
  Guard = {q1}
  User = {q1}
  Role = {c1}
  Code = {c1}
  MayDie = TRUE
SPECIFICATION BackOfficeSpec
CHECK_DEADLOCK FALSE
SYMMETRY MCSymmetry

PROPERTIES AccountsSafe RolesSafe
