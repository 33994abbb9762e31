CONSTANTS
  a = a
  b = b
  c = c
  p1 = p1
  p2 = p2
  p3 = p3
  p4 = p4
  p5 = p5
  null = null
  None = null
  User = {a, b}
  Registered = {a, b}
  Req = {p1, p2, p3}
  Ops = {"send", "accept", "remove"}
SPECIFICATION Spec
INVARIANT
  TwoRowsPerFriendship
