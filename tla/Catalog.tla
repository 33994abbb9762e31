------------------------------ MODULE Catalog ------------------------------
(***************************************************************************)
(* What registration, places and favorites promise: accounts with emails   *)
(* of their own and places with ids of their own, neither ever changed or  *)
(* withdrawn, and for each account a set of places that exist.             *)
(***************************************************************************)

CONSTANTS UserId, Email, Place, LocationId, OldUsers, OldPlaces, OldFavorites, None

VARIABLES account,   \* account[u]: the email of user u, or None
          place,     \* place[l]: the id of place l, or None
          favorite   \* the pairs of a user and the id of a place

vars == <<account, place, favorite>>

Init == /\ account = [u \in UserId |-> IF u \in DOMAIN OldUsers THEN OldUsers[u] ELSE None]
        /\ place = [l \in Place |-> IF l \in DOMAIN OldPlaces THEN OldPlaces[l] ELSE None]
        /\ favorite = DOMAIN OldFavorites

Register(u, e) == /\ account[u] = None /\ \A v \in UserId : account[v] # e
                  /\ account' = [account EXCEPT ![u] = e]
                  /\ UNCHANGED <<place, favorite>>

AddPlace(l, i) == /\ place[l] = None /\ \A m \in Place : place[m] # i
                  /\ place' = [place EXCEPT ![l] = i]
                  /\ UNCHANGED <<account, favorite>>

Favor(u, i) == /\ account[u] # None /\ \E l \in Place : place[l] = i
               /\ favorite' = favorite \cup {<<u, i>>}
               /\ UNCHANGED <<account, place>>

Unfavor(u, i) == /\ <<u, i>> \in favorite
                 /\ favorite' = favorite \ {<<u, i>>}
                 /\ UNCHANGED <<account, place>>

Next == \/ \E u \in UserId, e \in Email : Register(u, e)
        \/ \E l \in Place, i \in LocationId : AddPlace(l, i)
        \/ \E u \in UserId, i \in LocationId : Favor(u, i) \/ Unfavor(u, i)

Spec == Init /\ [][Next]_vars
=============================================================================
