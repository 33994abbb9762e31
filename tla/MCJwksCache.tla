---------------------------- MODULE MCJwksCache ----------------------------
(***************************************************************************)
(* JwksCache for TLC: the clock stops at MaxTime, after every deadline the *)
(* chosen Ttl and Timeout can set has passed once, and the tokens sent are *)
(* the genuine ones, one signed with another key than it names, one of a   *)
(* key entry the cache skips and one without kid.                          *)
(***************************************************************************)
EXTENDS JwksCache, TLC

CONSTANTS k1, k2, enc, p1, p2, p3

Genuine(k) == [kid |-> k, signer |-> k, claims |-> TRUE]

Forged == [kid |-> k1, signer |-> None, claims |-> TRUE]
Expired == [kid |-> k1, signer |-> k1, claims |-> FALSE]
NotForSigning == [kid |-> enc, signer |-> None, claims |-> TRUE]
NoKid == [kid |-> None, signer |-> None, claims |-> TRUE]

SentHere == {Genuine(k) : k \in Kid} \cup {Forged, Expired, NotForSigning, NoKid}

=============================================================================
