CONSTANTS
  a = a
  b = b
  c = c
  p1 = p1
  p2 = p2
  p3 = p3
  p4 = p4
  p5 = p5
  null = null
  None = null
  User = {a, b}
  Registered = {a, b}
  Req = {p1, p2, p3, p4}
  Ops = {"send", "accept", "deny", "remove", "markRead"}
SPECIFICATION Spec
SYMMETRY Symmetry
INVARIANTS
  Consent
  IndInv
  PendingIsNotified
  AcceptanceNoticeIsTrue
  DeniedRowIsGone
  ReplyIsHonest
PROPERTIES
  NeverBackToPending
  AcceptanceIsAtomic
  ImplementsGraph
