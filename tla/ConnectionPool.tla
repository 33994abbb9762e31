--------------------------- MODULE ConnectionPool ---------------------------
(***************************************************************************)
(* The requests of Friendships over the pool of database/database.go: at   *)
(* most MaxOpen connections, shared by all requests.                       *)
(*                                                                         *)
(* A query on database.DB takes a connection and gives it back; so do the  *)
(* look-ups before a transaction, which are the Receive of a request.      *)
(* database.DB.Begin() waits for a connection, which the transaction holds *)
(* until COMMIT or ROLLBACK.  Begin is not bound to the request's context: *)
(* a client that goes away does not end the wait, only a connection does,  *)
(* or the failure to open one.  A request that waits for a connection for  *)
(* its look-ups has not begun.                                             *)
(***************************************************************************)
EXTENDS Friendships

CONSTANTS MaxOpen,  \* SetMaxOpenConns(25)
          Reader    \* the requests of endpoints that only read

ASSUME MaxOpenAssumption == MaxOpen \in Nat \ {0}
ASSUME ReaderAssumption == Reader \cap Req = {}

VARIABLE conns      \* the requests that hold a connection

Free == Cardinality(conns) < MaxOpen

\* The look-ups of a handler.  RemoveFriend and MarkNotificationRead have none: they are
\* received with the first statement of their transaction.
PoolReceive(p) ==
    /\ Free
    /\ Receive(p)
    /\ conns' = IF pc'[p] \in {"visit", "commit"} THEN conns \cup {p} ELSE conns

Begin(p) == /\ InFlight(p) /\ p \notin conns
            /\ Free
            /\ conns' = conns \cup {p}
            /\ UNCHANGED vars

\* No connection can be opened: "failed to begin transaction".
BeginFails(p) == /\ InFlight(p) /\ p \notin conns
                 /\ RollBack(p, "error")
                 /\ UNCHANGED conns

\* Mutant: no deferred Rollback, COMMIT alone gives the connection back.
Kept_AfterError(p) == IF pc[p] = "commit" THEN conns \ {p} ELSE conns

\* The connections after a statement of p: the last one gives p's back.
Kept(p) == IF pc'[p] = "done" THEN conns \ {p} ELSE conns

\* Mutant: the notification is inserted on database.DB, not on the transaction.
PoolProceed_SecondConnection(p) ==
    /\ p \in conns
    /\ pc[p] = "note" => Free
    /\ Proceed(p)
    /\ conns' = Kept(p)

\* A statement of a transaction, on the transaction's connection.
PoolProceed(p) == p \in conns /\ Proceed(p) /\ conns' = Kept(p)

PoolDisturb(p) == p \in conns /\ Disturb(p) /\ conns' = Kept(p)

PoolNext(p) == \/ PoolReceive(p)
               \/ Begin(p)
               \/ BeginFails(p)
               \/ PoolProceed(p)
               \/ PoolDisturb(p)

----------------------------------------------------------------------------
(* Correctness. *)

\* No more connections than MaxOpen are held, and who waits for one locks no row: no
\* circle of waits goes through the pool, however small it is.
PoolInv ==
    /\ conns \subseteq Req \cup Reader
    /\ Cardinality(conns) <= MaxOpen
    /\ \A p \in Req : /\ p \in conns => InFlight(p)
                      /\ Holds(p) # {} => p \in conns
=============================================================================
