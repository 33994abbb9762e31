----------------------------- MODULE MCCheckIns -----------------------------
(***************************************************************************)
(* Instances of CheckIns for TLC.  The submissions are chosen so that two  *)
(* of them share an id, two the visit under different ids, one is the      *)
(* other user's under an id taken and refused by a child table, and one    *)
(* retries a check-in stored before there were scores; every submission    *)
(* may be sent by several requests, to either location and to one that     *)
(* does not exist.                                                         *)
(***************************************************************************)
EXTENDS CheckIns, TLC

CONSTANTS i1, i2, i3, ann, bob, cafe, bar, gone, t1, t2, r1, r2, r3, r4

Visit(i, u, t, b) == [id |-> i, user |-> u, loc |-> cafe, time |-> t, body |-> b]

SentHere == {Visit(i1, ann, t1, "quiet"),
             Visit(i1, ann, t2, "loud"),
             Visit(i2, ann, t1, "loud"),
             Visit(i1, bob, t1, "noiseSkipped"),
             Visit(i3, bob, t2, "loud")}

\* Every kind of body.
SentAll == SentHere \cup {Visit(i2, bob, t1, b) : b \in {"badSpeed", "badRatings"}}

LegacyHere == {Visit(i3, bob, t2, "loud")}

=============================================================================
