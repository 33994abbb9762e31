---------------------------- MODULE FriendGraph ----------------------------
(***************************************************************************)
(* What the friendship endpoints promise, without requests, statements or  *)
(* locks: the friendship table moves by atomic operations on the pair of   *)
(* one asker and one asked.  It promises less than the schema's comment,   *)
(* because the code does: accepting may find the asker's row gone, and     *)
(* removing may miss a row inserted meanwhile.  That an accepted row needs  *)
(* an agreement is the property Consent of Friendships.                    *)
(***************************************************************************)

CONSTANT User

Key == {k \in User \X User : k[1] # k[2]}
Mirror(k) == <<k[2], k[1]>>

VARIABLES
    status,  \* status[<<u, f>>]: the row of u towards f
    asked,   \* <<u, f>>: u has asked f
    agreed   \* <<u, f>>: f has accepted a request of u

vars == <<status, asked, agreed>>

Init == /\ status = [k \in Key |-> "absent"]
        /\ asked = {}
        /\ agreed = {}

\* k[1] asks k[2].
Ask(k) == /\ status[k] = "absent"
          /\ status' = [status EXCEPT ![k] = "pending"]
          /\ asked' = asked \cup {k}
          /\ UNCHANGED agreed

\* k[2] accepts the request of k[1]: the row of k[2] is accepted, and the row of
\* k[1] too, unless that request is no longer there.
Agree(k) == /\ k \in asked
            /\ \/ /\ status[k] # "absent"
                  /\ status' = [status EXCEPT ![k] = "accepted", ![Mirror(k)] = "accepted"]
               \/ status' = [status EXCEPT ![Mirror(k)] = "accepted"]
            /\ agreed' = agreed \cup {k}
            /\ UNCHANGED asked

\* One of the two denies or removes the other: rows between them go.
Part(k) == /\ \E gone \in SUBSET {k, Mirror(k)} :
              /\ \E j \in gone : status[j] # "absent"
              /\ status' = [j \in Key |-> IF j \in gone THEN "absent" ELSE status[j]]
           /\ UNCHANGED <<asked, agreed>>

Next == \E k \in Key : Ask(k) \/ Agree(k) \/ Part(k)

Spec == Init /\ [][Next]_vars
============================================================================
