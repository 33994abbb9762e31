CONSTANTS
  i1 = i1
  i2 = i2
  i3 = i3
  ann = ann
  bob = bob
  cafe = cafe
  bar = bar
  gone = gone
  t1 = t1
  t2 = t2
  r1 = r1
  r2 = r2
  r3 = r3
  r4 = r4
  None = None
  User = {ann, bob}
  Location = {cafe, bar, gone}
  Known = {cafe, bar}
  Time = {t1, t2}
  Id = {i1, i2, i3}
  Sent <- SentAll
  Legacy <- LegacyHere
  Req = {r1, r2}
SPECIFICATION FairSpec
INVARIANTS
  IndInv
  StoredWhole
  NoVisitTwice
  OkMeansStored
  ConflictIsReal
PROPERTIES
  ImplementsLog
  EveryRequestIsAnswered
  RetryIsAnswered
