CONSTANTS
  ann = ann
  bob = bob
  annMail = annMail
  annMAIL = annMAIL
  bobMail = bobMail
  oldId = oldId
  oldRow = oldRow
  r1 = r1
  r2 = r2
  r3 = r3
  None = None
  UserId = {ann, bob}
  Email = {annMail, annMAIL, bobMail}
  Lower <- LowerHere
  Place <- PlaceHere
  Req = {r1, r2, r3}
  OldUsers <- OldUsersHere
  OldPlaces <- OldPlacesHere
  OldFavorites <- OldFavoritesHere
  Condition <- ConditionHere
  Limit = 1
SPECIFICATION Spec
SYMMETRY RequestSymmetry
INVARIANTS
  IndInv
  AnswersAreTrue
PROPERTY
  ImplementsCatalog
