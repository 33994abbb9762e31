CONSTANTS
  a = a
  b = b
  p1 = p1
  p2 = p2
  p3 = p3
  p4 = p4
  r1 = r1
  i1 = i1
  i2 = i2
  i3 = i3
  null = null
  None = null
  User = {a, b}
  Registered = {a, b}
  Req = {p1, p2, p3, p4}
  Ops = {"accept", "deny", "remove"}
  MaxOpen = 2
  Reader = {r1}
  CheckInId = {i1, i2, i3}
  Earlier <- EarlierHere
  Submission <- SubmissionHere
  Since = 6
  Limit = 1
SPECIFICATION CrossedSpec
INVARIANTS
  PoolInv
  FeedByConsent
PROPERTY
  EveryCallIsAnswered
