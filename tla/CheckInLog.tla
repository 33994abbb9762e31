----------------------------- MODULE CheckInLog -----------------------------
(***************************************************************************)
(* What the check-in endpoints promise: a log of check-ins, each written   *)
(* once and whole, whatever is submitted twice, at once or in vain.        *)
(***************************************************************************)

CONSTANTS Id,          \* the check-in ids clients generate
          Submission,  \* what a client submits under an id
          Legacy,      \* the submissions stored before scores were
          None

VARIABLES stored,  \* stored[i]: the check-in with id i
          scored   \* the ids of those with a work score

vars == <<stored, scored>>

Init == /\ stored = [i \in Id |-> IF \E s \in Legacy : s.id = i
                                  THEN CHOOSE s \in Legacy : s.id = i ELSE None]
        /\ scored = {}

\* A check-in and its score appear together.
Record(s) == /\ stored[s.id] = None
             /\ stored' = [stored EXCEPT ![s.id] = s]
             /\ scored' = scored \cup {s.id}

\* The old check-ins get theirs.
Backfill == /\ scored' = {i \in Id : stored[i] # None}
            /\ UNCHANGED stored

Next == (\E s \in Submission : Record(s)) \/ Backfill

Spec == Init /\ [][Next]_vars
============================================================================
