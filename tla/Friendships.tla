---------------------------- MODULE Friendships ----------------------------
(***************************************************************************)
(* The friendship handlers of handler/friends.go and the read marker of    *)
(* handler/notifications.go, as concurrent HTTP requests over PostgreSQL   *)
(* at its default isolation, READ COMMITTED.                               *)
(*                                                                         *)
(* A request is one element of Req.  It reads committed rows outside any   *)
(* transaction, then writes inside one; a step is one SQL statement.  The  *)
(* tables are functions: friendships from (user_id, friend_id), which is   *)
(* UNIQUE, to the row's id and status; notifications from the request      *)
(* that inserted the notification.  A request inserts at most one row in   *)
(* each, so gen_random_uuid() is modelled by the request itself.           *)
(*                                                                         *)
(* PostgreSQL is modelled by what the handlers can tell of it: a written   *)
(* key is locked until its transaction ends (a row lock, or the wait of a  *)
(* unique index on an uncommitted entry), the new version is in dirty      *)
(* until then, nobody reads it before, a DELETE visits only the rows its   *)
(* own snapshot saw, a waits-for cycle aborts one of its transactions and  *)
(* a failed statement makes COMMIT roll back.                              *)
(***************************************************************************)
EXTENDS Integers, FiniteSets

CONSTANTS
    User,        \* the ids of the authenticated users (the JWT's sub)
    Registered,  \* those with a row in table users
    Req,         \* the requests served
    Ops,         \* the endpoints called, a subset of AllOps
    None         \* the null value

AllOps == {"send", "accept", "deny", "remove", "markRead"}

ASSUME NullAssumption == None \notin Req /\ None \notin User
ASSUME RegisteredAssumption == Registered \subseteq User
ASSUME OpsAssumption == Ops \subseteq AllOps

VARIABLES
    friendships,    \* the committed rows
    notifications,  \* the committed notifications
    lock,           \* lock[k]: the request whose transaction wrote key k
    dirty,          \* dirty[k]: the version that transaction wrote
    pc,             \* the next statement of each request
    call,           \* its arguments, with what it read before its transaction
    targets,        \* the rows a DELETE of RemoveFriend has still to visit
    noted,          \* the requests whose notification statement succeeded
    aborted,        \* the requests whose notification statement failed
    applied,        \* the requests whose transaction committed
    reply           \* the HTTP reply

vars == <<friendships, notifications, lock, dirty, pc, call, targets, noted,
          aborted, applied, reply>>
tables == <<friendships, notifications>>

----------------------------------------------------------------------------
(* The data. *)

Key == {k \in User \X User : k[1] # k[2]}
Mirror(k) == <<k[2], k[1]>>

Absent == [id |-> None, status |-> "absent"]
Row == [id : Req, status : {"pending", "accepted"}] \cup {Absent}

Notification == [type : {"none", "friend_request", "friend_accepted"},
                 user : User \cup {None}, from : User \cup {None},
                 ref : Req \cup {None}, read : BOOLEAN]
NoNotification == [type |-> "none", user |-> None, from |-> None,
                   ref |-> None, read |-> FALSE]

\* peer: the other user, from the request or from the row that was read;
\* ref: the friendship or notification the request names.
Call == [op : AllOps \cup {"none"}, user : User \cup {None},
         peer : User \cup {None}, ref : Req \cup {None}]
NoCall == [op |-> "none", user |-> None, peer |-> None, ref |-> None]

Reply == {"none", "ok", "badRequest", "forbidden", "notFound", "error"}
Statement == {"insert", "update", "reciprocal", "delete", "visit", "note",
              "commit"}

Me(p) == call[p].user
Them(p) == call[p].peer
InFlight(p) == pc[p] \in Statement
Holds(p) == {k \in Key : lock[k] = p}

Init ==
    /\ friendships = [k \in Key |-> Absent]
    /\ notifications = [p \in Req |-> NoNotification]
    /\ lock = [k \in Key |-> None]
    /\ dirty = [k \in Key |-> Absent]
    /\ pc = [p \in Req |-> "idle"]
    /\ call = [p \in Req |-> NoCall]
    /\ targets = [p \in Req |-> {}]
    /\ noted = {} /\ aborted = {} /\ applied = {}
    /\ reply = [p \in Req |-> "none"]

----------------------------------------------------------------------------
(* Statements and the end of a transaction. *)

Goto(p, s) == pc' = [pc EXCEPT ![p] = s]

Answer(p, r) == /\ Goto(p, "done")
                /\ reply' = [reply EXCEPT ![p] = r]

\* The key is written by p: locked until the transaction of p ends.
Write(p, k, row) == /\ lock' = [lock EXCEPT ![k] = p]
                    /\ dirty' = [dirty EXCEPT ![k] = row]

CanWrite(p, k) == lock[k] \in {p, None}

\* The version of key k that a statement of p finds once it may write it.
Found(p, k) == IF lock[k] = p THEN dirty[k] ELSE friendships[k]

\* The rows whose primary key is id: none or one.
KeysOf(id) == {k \in Key : friendships[k].id = id /\ friendships[k] # Absent}

\* defer tx.Rollback(), or the server ending the transaction of a lost connection.
Release(p) == /\ lock' = [k \in Key |-> IF lock[k] = p THEN None ELSE lock[k]]
              /\ dirty' = [k \in Key |-> IF lock[k] = p THEN Absent ELSE dirty[k]]
              /\ targets' = [targets EXCEPT ![p] = {}]

\* Mutant: an error path without the deferred Rollback.
RollBack_Leaks(p, r) == /\ Answer(p, r)
                        /\ UNCHANGED <<tables, lock, dirty, targets, call, noted, aborted, applied>>

RollBack(p, r) == /\ Release(p)
                  /\ Answer(p, r)
                  /\ UNCHANGED <<tables, call, noted, aborted, applied>>

\* Mutant: user_id and from_user_id swapped.
NotificationOf_Swapped(p) ==
    [type |-> IF call[p].op = "send" THEN "friend_request" ELSE "friend_accepted",
     user |-> Me(p), from |-> Them(p),
     ref  |-> IF call[p].op = "send" THEN p ELSE call[p].ref,
     read |-> FALSE]

\* The notification the transaction of p inserts.
NotificationOf(p) ==
    [type |-> IF call[p].op = "send" THEN "friend_request" ELSE "friend_accepted",
     user |-> Them(p), from |-> Me(p),
     ref  |-> IF call[p].op = "send" THEN p ELSE call[p].ref,
     read |-> FALSE]

\* The notifications the UPDATE of p marks: by reference, or by primary key.  Those of
\* its own user are there since before p started: reading them at COMMIT is the same.
MarkedBy(p) ==
    {n \in Req : /\ notifications[n].user = Me(p)
                 /\ \/ call[p].op = "deny" /\ notifications[n].ref = call[p].ref
                    \/ call[p].op = "markRead" /\ n = call[p].ref}

NotificationsAfter(p) ==
    IF call[p].op \in {"send", "accept"}
    THEN [notifications EXCEPT ![p] = NotificationOf(p)]
    ELSE [n \in Req |-> IF n \in MarkedBy(p)
                        THEN [notifications[n] EXCEPT !.read = TRUE]
                        ELSE notifications[n]]

----------------------------------------------------------------------------
(* POST /api/v1/friends/request *)

\* Mutant: the existing-friendship query looks at one direction only.
SendFriendRequest_OneDirection(p, u, f) ==
    /\ pc[p] = "idle" /\ "send" \in Ops
    /\ call' = [call EXCEPT ![p] = [op |-> "send", user |-> u, peer |-> f, ref |-> None]]
    /\ \/ (u = f \/ f \notin Registered) /\ Answer(p, "badRequest")
       \/ /\ u # f /\ f \in Registered
          /\ friendships[<<u, f>>] # Absent /\ Answer(p, "badRequest")
       \/ /\ u # f /\ f \in Registered
          /\ friendships[<<u, f>>] = Absent
          /\ Goto(p, "insert") /\ UNCHANGED reply
    /\ UNCHANGED <<tables, lock, dirty, targets, noted, aborted, applied>>

\* The checks before the transaction; a body that does not parse is not a call.
SendFriendRequest(p, u, f) ==
    /\ pc[p] = "idle" /\ "send" \in Ops
    /\ call' = [call EXCEPT ![p] = [op |-> "send", user |-> u, peer |-> f, ref |-> None]]
    /\ \/ u = f /\ Answer(p, "badRequest")
       \/ u # f /\ \E r \in {"notFound", "error"} : Answer(p, r)  \* no user f, or a query failed
       \/ /\ u # f /\ f \in Registered
          /\ \E k \in {<<u, f>>, <<f, u>>} : friendships[k] # Absent
          /\ Answer(p, "badRequest")
       \/ /\ u # f /\ f \in Registered
          /\ \A k \in {<<u, f>>, <<f, u>>} : friendships[k] = Absent
          /\ Goto(p, "insert") /\ UNCHANGED reply
    /\ UNCHANGED <<tables, lock, dirty, targets, noted, aborted, applied>>

\* Mutant: INSERT ... ON CONFLICT (user_id, friend_id) DO UPDATE SET status = 'pending'.
InsertRequest_Upsert(p) ==
    /\ pc[p] = "insert"
    /\ CanWrite(p, <<Me(p), Them(p)>>)
    /\ Write(p, <<Me(p), Them(p)>>, [id |-> p, status |-> "pending"])
    /\ Goto(p, "note")
    /\ UNCHANGED <<tables, call, targets, noted, aborted, applied, reply>>

\* Mutant: the notification is left to a later transaction.
InsertRequest_Alone(p) ==
    /\ pc[p] = "insert"
    /\ LET k == <<Me(p), Them(p)>> IN
       /\ CanWrite(p, k)
       /\ IF friendships[k] = Absent /\ Me(p) \in Registered
          THEN /\ Write(p, k, [id |-> p, status |-> "pending"])
               /\ Goto(p, "commit")
               /\ UNCHANGED <<tables, call, targets, noted, aborted, applied, reply>>
          ELSE RollBack(p, "error")

\* INSERT INTO friendships ... 'pending': a conflicting committed row is an error,
\* and so is a requester without a row in users.
InsertRequest(p) ==
    /\ pc[p] = "insert"
    /\ LET k == <<Me(p), Them(p)>> IN
       /\ CanWrite(p, k)
       /\ IF friendships[k] = Absent /\ Me(p) \in Registered
          THEN /\ Write(p, k, [id |-> p, status |-> "pending"])
               /\ Goto(p, "note")
               /\ UNCHANGED <<tables, call, targets, noted, aborted, applied, reply>>
          ELSE RollBack(p, "error")

----------------------------------------------------------------------------
(* POST /api/v1/friends/accept and /deny: both begin by reading the row. *)

NextOf(op) == IF op = "accept" THEN "update" ELSE "delete"

\* Mutant: the addressee is not checked (no 403); CHECK (user_id <> friend_id)
\* still stops the asker.
AnswerFriendRequest_Anybody(p, op, u, id) ==
    /\ pc[p] = "idle" /\ op \in Ops \cap {"accept", "deny"}
    /\ \E k \in KeysOf(id) :
       /\ call' = [call EXCEPT ![p] = [op |-> op, user |-> u, peer |-> k[1], ref |-> id]]
       /\ friendships[k].status = "pending" /\ k[1] # u
       /\ Goto(p, NextOf(op)) /\ UNCHANGED reply
    /\ UNCHANGED <<tables, lock, dirty, targets, noted, aborted, applied>>

AnswerFriendRequest(p, op, u, id) ==
    /\ pc[p] = "idle" /\ op \in Ops \cap {"accept", "deny"}
    /\ \/ /\ Answer(p, "notFound")  \* no such row, or the query failed
          /\ call' = [call EXCEPT ![p] = [op |-> op, user |-> u, peer |-> None, ref |-> id]]
       \/ \E k \in KeysOf(id) :
          /\ call' = [call EXCEPT ![p] = [op |-> op, user |-> u, peer |-> k[1], ref |-> id]]
          /\ \/ k[2] # u /\ Answer(p, "forbidden")
             \/ k[2] = u /\ friendships[k].status # "pending" /\ Answer(p, "badRequest")
             \/ /\ k[2] = u /\ friendships[k].status = "pending"
                /\ Goto(p, NextOf(op)) /\ UNCHANGED reply
    /\ UNCHANGED <<tables, lock, dirty, targets, noted, aborted, applied>>

AcceptFriendRequest(p, u, id) == AnswerFriendRequest(p, "accept", u, id)
DenyFriendRequest(p, u, id) == AnswerFriendRequest(p, "deny", u, id)

\* Mutant: the row read before the transaction is written back, gone or not.
UpdateAccepted_WritesBack(p) ==
    /\ pc[p] = "update"
    /\ CanWrite(p, <<Them(p), Me(p)>>)
    /\ Write(p, <<Them(p), Me(p)>>, [id |-> call[p].ref, status |-> "accepted"])
    /\ Goto(p, "reciprocal")
    /\ UNCHANGED <<tables, call, targets, noted, aborted, applied, reply>>

\* Mutant: the UPDATE runs on database.DB, outside the transaction.
UpdateAccepted_Autocommit(p) ==
    /\ pc[p] = "update"
    /\ \A k \in KeysOf(call[p].ref) : CanWrite(p, k)
    /\ friendships' = [k \in Key |-> IF k \in KeysOf(call[p].ref)
                                     THEN [friendships[k] EXCEPT !.status = "accepted"]
                                     ELSE friendships[k]]
    /\ Goto(p, "reciprocal")
    /\ UNCHANGED <<notifications, lock, dirty, call, targets, noted, aborted, applied, reply>>

\* UPDATE friendships SET status = 'accepted' WHERE id = $1; updating no row is no error.
UpdateAccepted(p) ==
    /\ pc[p] = "update"
    /\ \A k \in KeysOf(call[p].ref) : CanWrite(p, k)
    /\ \/ KeysOf(call[p].ref) = {} /\ UNCHANGED <<lock, dirty>>
       \/ \E k \in KeysOf(call[p].ref) :
          Write(p, k, [id |-> call[p].ref, status |-> "accepted"])
    /\ Goto(p, "reciprocal")
    /\ UNCHANGED <<tables, call, targets, noted, aborted, applied, reply>>

\* Mutant: ON CONFLICT (user_id, friend_id) DO NOTHING.
UpsertReciprocal_DoNothing(p) ==
    /\ pc[p] = "reciprocal"
    /\ LET k == <<Me(p), Them(p)>> IN
       /\ CanWrite(p, k)
       /\ IF Found(p, k) = Absent
          THEN Write(p, k, [id |-> p, status |-> "accepted"])
          ELSE UNCHANGED <<lock, dirty>>
    /\ Goto(p, "note")
    /\ UNCHANGED <<tables, call, targets, noted, aborted, applied, reply>>

\* Mutant: no reciprocal row.
UpsertReciprocal_Missing(p) ==
    /\ pc[p] = "reciprocal"
    /\ Goto(p, "note")
    /\ UNCHANGED <<tables, lock, dirty, call, targets, noted, aborted, applied, reply>>

\* INSERT ... 'accepted' ON CONFLICT (user_id, friend_id) DO UPDATE SET status = 'accepted'.
UpsertReciprocal(p) ==
    /\ pc[p] = "reciprocal"
    /\ LET k == <<Me(p), Them(p)>> IN
       /\ CanWrite(p, k)
       /\ Write(p, k, IF Found(p, k) = Absent
                      THEN [id |-> p, status |-> "accepted"]
                      ELSE [Found(p, k) EXCEPT !.status = "accepted"])
    /\ Goto(p, "note")
    /\ UNCHANGED <<tables, call, targets, noted, aborted, applied, reply>>

\* DELETE FROM friendships WHERE id = $1; deleting no row is no error.
DeleteDenied(p) ==
    /\ pc[p] = "delete"
    /\ \A k \in KeysOf(call[p].ref) : CanWrite(p, k)
    /\ \/ KeysOf(call[p].ref) = {} /\ UNCHANGED <<lock, dirty>>
       \/ \E k \in KeysOf(call[p].ref) : Write(p, k, Absent)
    /\ Goto(p, "note")
    /\ UNCHANGED <<tables, call, targets, noted, aborted, applied, reply>>

----------------------------------------------------------------------------
(* DELETE /api/v1/friends/{friend_id}: one DELETE over both directions.  It  *)
(* visits the rows of its snapshot, waits for each, and looks at it again.   *)

\* Mutant: the DELETE names one direction only.
RowsBetween_OneDirection(u, f) ==
    {<<k, friendships[k].id>> : k \in {j \in Key : j = <<u, f>> /\ friendships[j] # Absent}}

RowsBetween(u, f) ==
    {<<k, friendships[k].id>> : k \in {j \in Key : /\ j \in {<<u, f>>, <<f, u>>}
                                                  /\ friendships[j] # Absent}}

RemoveFriend(p, u, f) ==
    /\ pc[p] = "idle" /\ "remove" \in Ops
    /\ call' = [call EXCEPT ![p] = [op |-> "remove", user |-> u, peer |-> f, ref |-> None]]
    /\ targets' = [targets EXCEPT ![p] = RowsBetween(u, f)]
    /\ Goto(p, "visit")
    /\ UNCHANGED <<tables, lock, dirty, noted, aborted, applied, reply>>

DeleteTarget(p) ==
    /\ pc[p] = "visit"
    /\ \E t \in targets[p] :
       /\ targets' = [targets EXCEPT ![p] = @ \ {t}]
       /\ \/ friendships[t[1]].id # t[2] /\ UNCHANGED <<lock, dirty>>
          \/ /\ friendships[t[1]].id = t[2]
             /\ CanWrite(p, t[1])
             /\ Write(p, t[1], Absent)
    /\ UNCHANGED <<tables, pc, call, noted, aborted, applied, reply>>

\* rowsAffected == 0 is a 404, and the deferred Rollback.
DeleteEnds(p) ==
    /\ pc[p] = "visit" /\ targets[p] = {}
    /\ IF Holds(p) = {}
       THEN RollBack(p, "notFound")
       ELSE /\ Goto(p, "commit")
            /\ UNCHANGED <<tables, lock, dirty, call, targets, noted, aborted, applied, reply>>

----------------------------------------------------------------------------
(* POST /api/v1/notifications/{id}/read *)

\* The UPDATE waits for nobody, so it is part of the receipt; of a failed one nothing is
\* kept, not even what it named.
MarkNotificationRead(p, u, n) ==
    /\ pc[p] = "idle" /\ "markRead" \in Ops
    /\ \/ Answer(p, "error") /\ UNCHANGED <<call, noted>>  \* no transaction, or the UPDATE fails
       \/ /\ call' = [call EXCEPT ![p] = [op |-> "markRead", user |-> u, peer |-> None, ref |-> n]]
          /\ \/ /\ notifications[n].user = u
                /\ noted' = noted \cup {p}
                /\ Goto(p, "commit") /\ UNCHANGED reply
             \/ notifications[n].user # u /\ Answer(p, "notFound") /\ UNCHANGED noted
    /\ UNCHANGED <<tables, lock, dirty, targets, aborted, applied>>

----------------------------------------------------------------------------
(* The notification statement of send, accept and deny, and COMMIT. *)

WriteNotification(p) ==
    /\ pc[p] = "note"
    /\ noted' = noted \cup {p}
    /\ Goto(p, "commit")
    /\ UNCHANGED <<tables, lock, dirty, call, targets, aborted, applied, reply>>

\* accept logs the error and deny drops it: the transaction goes on, aborted.
NotificationFails(p) ==
    /\ pc[p] = "note" /\ call[p].op \in {"accept", "deny"}
    /\ aborted' = aborted \cup {p}
    /\ Goto(p, "commit")
    /\ UNCHANGED <<tables, lock, dirty, call, targets, noted, applied, reply>>

\* The client has gone: ExecContext returns before it sends anything, and Commit,
\* which is not bound to the request's context, goes through.
NotificationCancelled(p) ==
    /\ pc[p] = "note" /\ call[p].op \in {"accept", "deny"}
    /\ Goto(p, "commit")
    /\ UNCHANGED <<tables, lock, dirty, call, targets, noted, aborted, applied, reply>>

\* The commit takes effect; its confirmation may still be lost.
Commit(p) ==
    /\ pc[p] = "commit" /\ p \notin aborted
    /\ friendships' = [k \in Key |-> IF lock[k] = p THEN dirty[k] ELSE friendships[k]]
    /\ notifications' = IF p \in noted THEN NotificationsAfter(p) ELSE notifications
    /\ applied' = applied \cup {p}
    /\ Release(p)
    /\ \E r \in {"ok", "error"} : Answer(p, r)
    /\ UNCHANGED <<call, noted, aborted>>

\* Mutant: the error of tx.Commit() is dropped.
CommitAborted_Ok(p) ==
    /\ pc[p] = "commit" /\ p \in aborted
    /\ RollBack(p, "ok")

\* COMMIT of an aborted transaction is a ROLLBACK, which the driver reports as an error.
CommitAborted(p) ==
    /\ pc[p] = "commit" /\ p \in aborted
    /\ RollBack(p, "error")

----------------------------------------------------------------------------
(* What can interrupt a request. *)

\* The statement cannot be sent or fails, the context is cancelled, the connection
\* or the server process is lost: nothing of the transaction stays.
Fail(p) ==
    /\ InFlight(p)
    /\ RollBack(p, "error")

Wanted(p) ==
    CASE pc[p] \in {"insert", "reciprocal"} -> {<<Me(p), Them(p)>>}
      [] pc[p] \in {"update", "delete"}     -> KeysOf(call[p].ref)
      [] pc[p] = "visit" -> {t[1] : t \in {x \in targets[p] : friendships[x[1]].id = x[2]}}
      [] OTHER -> {}

WaitsFor(p, q) == /\ \A k \in Wanted(p) : ~ CanWrite(p, k)
                  /\ \E k \in Wanted(p) : lock[k] = q

\* A transaction locks keys of one pair of users only, so a cycle has two members.
DeadlockVictim(p) ==
    /\ \E q \in Req \ {p} : WaitsFor(p, q) /\ WaitsFor(q, p)
    /\ RollBack(p, "error")

----------------------------------------------------------------------------

Receive(p) ==
    \/ \E u, f \in User : SendFriendRequest(p, u, f)
    \/ \E u \in User, id \in Req : AcceptFriendRequest(p, u, id) \/ DenyFriendRequest(p, u, id)
    \/ \E u, f \in User : RemoveFriend(p, u, f)
    \/ \E u \in User, n \in Req : MarkNotificationRead(p, u, n)

Proceed(p) ==
    \/ InsertRequest(p)
    \/ UpdateAccepted(p)
    \/ UpsertReciprocal(p)
    \/ DeleteDenied(p)
    \/ DeleteTarget(p)
    \/ DeleteEnds(p)
    \/ WriteNotification(p)
    \/ Commit(p)
    \/ CommitAborted(p)
    \/ DeadlockVictim(p)

Disturb(p) ==
    \/ NotificationFails(p)
    \/ NotificationCancelled(p)
    \/ Fail(p)

\* Every request has been served: nothing more happens.
AllServed == (\A p \in Req : pc[p] = "done") /\ UNCHANGED vars

Next == (\E p \in Req : Receive(p) \/ Proceed(p) \/ Disturb(p)) \/ AllServed

Spec == Init /\ [][Next]_vars

\* PostgreSQL answers a statement it can execute and resolves a deadlock.
Fairness == \A p \in Req : WF_vars(Proceed(p))

FairSpec == Spec /\ Fairness

----------------------------------------------------------------------------
(* Correctness. *)

TypeOK ==
    /\ friendships \in [Key -> Row]
    /\ notifications \in [Req -> Notification]
    /\ lock \in [Key -> Req \cup {None}]
    /\ dirty \in [Key -> Row]
    /\ pc \in [Req -> {"idle", "done"} \cup Statement]
    /\ call \in [Req -> Call]
    /\ targets \in [Req -> SUBSET (Key \X Req)]
    /\ noted \subseteq Req /\ aborted \subseteq Req /\ applied \subseteq Req
    /\ reply \in [Req -> Reply]

\* Request s, which took effect, is u asking f.
Asked(s, u, f) == s \in applied /\ call[s].op = "send" /\ Me(s) = u /\ Them(s) = f

\* Request a, which took effect, is f accepting request s of u.
Accepted(a, s, u, f) ==
    /\ Asked(s, u, f)
    /\ a \in applied /\ call[a].op = "accept" /\ call[a].ref = s
    /\ Me(a) = f /\ Them(a) = u

\* An accepted row exists only between two users of whom one asked and the other
\* accepted that very request: whatever else ran at the same time, nobody sees the
\* check-ins of somebody who agreed to nothing.
Consent ==
    \A k \in Key : friendships[k].status = "accepted" =>
        \E a, s \in Req : Accepted(a, s, k[1], k[2]) \/ Accepted(a, s, k[2], k[1])

\* A pending row was inserted by the request of its user_id for its friend_id, and the
\* notification of that request is there for friend_id: row and notification are one
\* transaction.
PendingIsNotified ==
    \A k \in Key : friendships[k].status = "pending" =>
        LET s == friendships[k].id IN
        /\ Asked(s, k[1], k[2])
        /\ notifications[s].type = "friend_request"
        /\ notifications[s].user = k[2] /\ notifications[s].from = k[1]
        /\ notifications[s].ref = s

\* A "friend accepted" notification tells its user of an acceptance that took effect,
\* by the user it names, of a request its user sent.
AcceptanceNoticeIsTrue ==
    \A n \in Req : notifications[n].type = "friend_accepted" =>
        Accepted(n, notifications[n].ref, notifications[n].user, notifications[n].from)

\* Once a denial took effect the denied row is gone for good: an acceptance that read
\* the row before the denial does not bring it back.
DeniedRowIsGone ==
    \A p \in applied : call[p].op = "deny" =>
        \A k \in Key : friendships[k].id # call[p].ref

\* The client is told "ok" only of a transaction that took effect, and is given a reason
\* to give up (4xx) only by one that did not.
ReplyIsHonest ==
    \A p \in Req : /\ reply[p] = "ok" => p \in applied
                   /\ reply[p] \in {"badRequest", "forbidden", "notFound"} => p \notin applied

\* The steps at which the transaction of p takes effect.
TakesEffect(p) == p \in applied' /\ p \notin applied

\* A friendship never falls back to a request: a row accepted before a step is
\* accepted or gone after it, whichever request for the same pair commits.
NeverBackToPending ==
    [][\A k \in Key : friendships[k].status = "accepted" =>
           friendships'[k].status # "pending"]_vars

\* An acceptance takes effect as a whole: the acceptor's row is accepted, and so is the
\* asker's, if it still exists.
AcceptanceIsAtomic ==
    [][\A p \in Req : TakesEffect(p) /\ call[p].op = "accept" =>
           /\ friendships'[<<Me(p), Them(p)>>].status = "accepted"
           /\ \A k \in Key : friendships'[k].id = call[p].ref =>
                  friendships'[k].status = "accepted"]_vars

\* The table changes only by a transaction of one of the two users of the row.
OnlyTheTwoChangeTheirRows ==
    [][\A k \in Key : friendships'[k] # friendships[k] =>
           \E p \in Req : /\ TakesEffect(p)
                          /\ Me(p) \in {k[1], k[2]} /\ Them(p) \in {k[1], k[2]}]_vars

\* Every request that was received is answered: waits on rows end, deadlocks included.
EveryRequestIsAnswered == \A p \in Req : InFlight(p) ~> reply[p] # "none"

----------------------------------------------------------------------------
(* Why these hold: the inductive invariant of the proofs.                    *)

Between(p) == {<<Me(p), Them(p)>>, <<Them(p), Me(p)>>}

\* The arguments are fixed once a request runs, and one that answers a friend request
\* has read a request that took effect: nothing unmakes that, even if its row goes.
CallInv ==
    \A p \in Req :
        /\ pc[p] = "insert" => call[p].op = "send"
        /\ pc[p] \in {"update", "reciprocal"} => call[p].op = "accept"
        /\ pc[p] = "delete" => call[p].op = "deny"
        /\ pc[p] = "visit" => call[p].op = "remove"
        /\ pc[p] = "note" => call[p].op \in {"send", "accept", "deny"}
        /\ pc[p] = "idle" => call[p].op = "none"
        /\ InFlight(p) /\ call[p].op \in {"send", "accept", "deny"} => <<Me(p), Them(p)>> \in Key
        /\ (InFlight(p) \/ p \in applied) /\ call[p].op \in {"accept", "deny"} =>
               Asked(call[p].ref, Them(p), Me(p))
        /\ p \in applied => pc[p] = "done"

\* The id of a row tells the request that inserted it, and with it the row's key.
RowInv ==
    \A k \in Key : friendships[k] # Absent =>
        LET s == friendships[k].id IN
        /\ s \in applied /\ k = <<Me(s), Them(s)>>
        /\ friendships[k].status = "pending" => call[s].op = "send"

\* What the transaction of p may have written to key k: a request where there was none,
\* an acceptance, or a removal.
Justified(p, k, row) ==
    \/ /\ call[p].op = "send" /\ k = <<Me(p), Them(p)>>
       /\ friendships[k] = Absent /\ row = [id |-> p, status |-> "pending"]
    \/ /\ call[p].op = "accept" /\ k = <<Me(p), Them(p)>>
       /\ friendships[k] = Absent /\ row = [id |-> p, status |-> "accepted"]
    \/ /\ call[p].op = "accept" /\ friendships[k] # Absent
       /\ row = [id |-> friendships[k].id, status |-> "accepted"]
    \/ /\ call[p].op \in {"deny", "remove"}
       /\ friendships[k] # Absent /\ row = Absent

\* Only a transaction in flight holds a lock, on a row between its two users.
LockInv ==
    \A k \in Key : lock[k] # None => /\ InFlight(lock[k]) /\ k \in Between(lock[k])
                                     /\ Justified(lock[k], k, dirty[k])

\* What a transaction has done by the time it runs its later statements.
ProgressInv ==
    \A p \in Req :
        /\ pc[p] \in {"note", "commit"} /\ call[p].op \in {"send", "accept"} =>
               <<Me(p), Them(p)>> \in Holds(p)
        /\ \/ pc[p] \in {"reciprocal", "note", "commit"} /\ call[p].op = "accept"
           \/ pc[p] \in {"note", "commit"} /\ call[p].op = "deny"
           => \A k \in KeysOf(call[p].ref) : lock[k] = p
        /\ pc[p] = "commit" /\ call[p].op = "send" => p \in noted

\* A DELETE visits rows between its two users.
TargetInv ==
    \A p \in Req : targets[p] # {} =>
        pc[p] = "visit" /\ \A t \in targets[p] : t[1] \in Between(p)

SameNotice(x, y) == x.type = y.type /\ x.user = y.user /\ x.from = y.from /\ x.ref = y.ref

\* A notification, read or not, is that of the request that inserted it, and every friend request
\* that took effect has one.
NoticeInv ==
    \A n \in Req :
        /\ n \in applied /\ call[n].op = "send" => notifications[n].type # "none"
        /\ notifications[n].type # "none" =>
               /\ n \in applied /\ call[n].op \in {"send", "accept"}
               /\ SameNotice(notifications[n], NotificationOf(n))

\* However the statements interleave, a transaction can publish only what the requests
\* that took effect and its own arguments justify.
IndInv == /\ TypeOK /\ CallInv /\ RowInv /\ LockInv /\ ProgressInv /\ TargetInv
          /\ NoticeInv /\ Consent /\ DeniedRowIsGone

----------------------------------------------------------------------------
(* What docs and comments say of the table, which holds one request at a time. *)

\* "Two rows per accepted friendship (A->B + B->A)".
TwoRowsPerFriendship ==
    \A k \in Key : friendships[k].status = "accepted" =>
        friendships[Mirror(k)].status = "accepted"

\* "one row while pending (requester->target)".
OneRowWhilePending ==
    \A k \in Key : friendships[k].status = "pending" =>
        friendships[Mirror(k)].status = "absent"

\* RemoveFriend "Removes both friendship rows between the two users".
RemoveRemovesBothRows ==
    [][\A p \in Req : TakesEffect(p) /\ call[p].op = "remove" =>
           \A k \in Key : {k[1], k[2]} = {Me(p), Them(p)} =>
               friendships'[k].status = "absent"]_vars

\* The acceptance notification is "Non-critical - log but don't fail": an acceptance
\* whose notification failed takes effect all the same.
AcceptSurvivesItsNotification ==
    \A p \in aborted : call[p].op = "accept" /\ pc[p] = "done" => p \in applied

\* One request at a time: a request is received when no other is in flight.
SerialNext ==
    \/ \E p \in Req : Receive(p) /\ \A q \in Req : ~ InFlight(q)
    \/ \E p \in Req : Proceed(p) \/ Disturb(p)
    \/ AllServed

SerialSpec == Init /\ [][SerialNext]_vars

----------------------------------------------------------------------------
(* The abstract graph of friends. *)

Graph == INSTANCE FriendGraph WITH
    status <- [k \in Key |-> friendships[k].status],
    asked  <- {k \in Key : \E s \in Req : Asked(s, k[1], k[2])},
    agreed <- {k \in Key : \E a, s \in Req : Accepted(a, s, k[1], k[2])}

\* The statements of friends.go, interleaved and interrupted, move the table as the
\* atomic operations of FriendGraph do.
ImplementsGraph == Graph!Spec
============================================================================
