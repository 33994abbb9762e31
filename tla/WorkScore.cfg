CONSTANTS
  None = None
  Zone = 0
  Hours = {0, 5, 6, 11, 12, 17, 18, 23}
  Sent <- SentHere
SPECIFICATION Spec
INVARIANTS
  ScoreFitsColumn
  SameScoreEitherWay
  RoundingIsBounded
  SameBucketInUtc
PROPERTY
  BetterNeverScoresLess
