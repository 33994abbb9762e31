-------------------------- MODULE MCFriendActivity --------------------------
(***************************************************************************)
(* FriendActivity for TLC, from the crossed requests of MCFriendships: two *)
(* more requests and a read share two connections.  One user has checked   *)
(* in, once too long ago to be shown; the other does meanwhile.            *)
(***************************************************************************)
EXTENDS FriendActivity, TLC

CONSTANTS a, b, p1, p2, p3, p4, r1, i1, i2, i3, null

EarlierHere == {[id |-> i1, user |-> a, time |-> 9], [id |-> i2, user |-> a, time |-> 5]}
SubmissionHere == EarlierHere \cup {[id |-> i3, user |-> b, time |-> 9]}

MC == INSTANCE MCFriendships WITH c <- null, p5 <- null

CrossedSpec ==
    /\ MC!CrossedInit /\ ActivityInit
    /\ [][ActivityNext]_activityVars /\ ActivityFairness
=============================================================================
