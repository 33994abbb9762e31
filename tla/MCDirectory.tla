---------------------------- MODULE MCDirectory ----------------------------
(***************************************************************************)
(* Directory for TLC: an account, a place and a favorite are there from    *)
(* before; a second user may register with an email of his own, with the   *)
(* first user's, or with another spelling of it, and the second place has  *)
(* the name of the first at other coordinates.                             *)
(***************************************************************************)
EXTENDS Directory, TLC

CONSTANTS ann, bob, annMail, annMAIL, bobMail, oldId, oldRow, r1, r2, r3

Cafe == [name |-> 1, at |-> "here"]
CafeToo == [name |-> 1, at |-> "there"]

PlaceHere == {Cafe, CafeToo}

LowerHere == (annMail :> annMail @@ annMAIL :> annMail @@ bobMail :> bobMail)
OldUsersHere == (ann :> annMail)
OldPlacesHere == (Cafe :> oldId)
OldFavoritesHere == (<<ann, oldId>> :> oldRow)

\* By name, and by distance.
ConditionHere == {{Cafe, CafeToo}, {CafeToo}}

RequestSymmetry == Permutations(Req)
=============================================================================
