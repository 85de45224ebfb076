CONSTANTS
  p1 = p1
  q1 = q1
  s1 = s1
  n1 = n1
  None = None
  Admin = {p1}
  Request = {q1}
  Op = {}
  Site = {s1}
  Name = {n1}
  MayDie = TRUE
SPECIFICATION AcSpec
CHECK_DEADLOCK FALSE
PROPERTIES FrozenIdentityRefused
