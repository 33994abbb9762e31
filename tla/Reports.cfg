CONSTANTS
  cafe = cafe
  bar = bar
  pub = pub
  gone = gone
  ann = ann
  bob = bob
  fibre = fibre
  None = None
  Unknown = "Unknown"
  User = {ann, bob}
  Uuid = {cafe, bar, pub, gone}
  Location = {cafe, bar, pub}
  Named <- NamedHere
  Now <- NowHere
  Id = {1, 2, 3, 4, 5, 6, 7, 8, 9}
  Submission <- SubmissionHere
  Legacy <- LegacyHere
SPECIFICATION Spec
INVARIANTS
  ReportsAgree
  ScoresAddUp
  PercentagesAddUp
PROPERTY
  OnlyItsOwnReports
