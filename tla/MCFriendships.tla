--------------------------- MODULE MCFriendships ---------------------------
(* Friendships on small sets of users and requests. *)
EXTENDS Friendships, TLC

CONSTANTS a, b, c, p1, p2, p3, p4, p5, null

Symmetry == Permutations(User) \cup Permutations(Req)
RequestSymmetry == Permutations(Req)

\* Liveness is checked without symmetry, from the state in which waits can cross: p1 of
\* a and p2 of b have asked each other, each before the other's row was committed.
Row1 == [id |-> p1, status |-> "pending"]
Row2 == [id |-> p2, status |-> "pending"]
Asks(u, f) == [op |-> "send", user |-> u, peer |-> f, ref |-> None]
Notice(u, f, p) == [type |-> "friend_request", user |-> f, from |-> u, ref |-> p, read |-> FALSE]

CrossedInit ==
    /\ friendships = (<<a, b>> :> Row1 @@ <<b, a>> :> Row2)
    /\ notifications = [p \in Req |-> CASE p = p1 -> Notice(a, b, p1)
                                        [] p = p2 -> Notice(b, a, p2)
                                        [] OTHER -> NoNotification]
    /\ lock = [k \in Key |-> None]
    /\ dirty = [k \in Key |-> Absent]
    /\ pc = [p \in Req |-> IF p \in {p1, p2} THEN "done" ELSE "idle"]
    /\ call = [p \in Req |-> CASE p = p1 -> Asks(a, b) [] p = p2 -> Asks(b, a) [] OTHER -> NoCall]
    /\ targets = [p \in Req |-> {}]
    /\ noted = {p1, p2} /\ aborted = {} /\ applied = {p1, p2}
    /\ reply = [p \in Req |-> IF p \in {p1, p2} THEN "ok" ELSE "none"]

CrossedSpec == CrossedInit /\ [][Next]_vars /\ Fairness
============================================================================
