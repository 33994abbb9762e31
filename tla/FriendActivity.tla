--------------------------- MODULE FriendActivity ---------------------------
(***************************************************************************)
(* The endpoints that read what the others write, composed with them:      *)
(* GetFriendsActivity (handler/friend_activity.go), ListFriends            *)
(* (handler/friends.go) and ListNotifications (handler/notifications.go),  *)
(* over the tables of Friendships, the check-ins of CheckInLog and the     *)
(* connections of ConnectionPool.                                          *)
(*                                                                         *)
(* A read begins a transaction, runs one query and rolls back.  Nobody     *)
(* looks at rows.Err(): a result cut off midway is shown as if it were     *)
(* whole.                                                                  *)
(***************************************************************************)
EXTENDS ConnectionPool

CONSTANTS CheckInId,   \* the ids of check-ins
          Submission,  \* the check-ins submitted: records with id, user and time
          Earlier,     \* those stored before
          Since,       \* NOW() - INTERVAL '7 days'
          Limit        \* LIMIT 30

ASSUME SubmissionAssumption ==
    \A s \in Submission : s.id \in CheckInId /\ s.user \in User /\ s.time \in Nat
ASSUME EarlierAssumption == Earlier \subseteq Submission
ASSUME TimeAssumption == Since \in Nat /\ Limit \in Nat
ASSUME NoneAssumption == None \notin Submission

VARIABLES stored, scored,  \* the check-ins
          view             \* view[r]: what the read r was asked and showed

Log == INSTANCE CheckInLog WITH Id <- CheckInId, Legacy <- Earlier

activityVars == <<vars, conns, stored, scored, view>>

ReadOps == {"listFriends", "listNotifications", "activity"}
NotAsked == [op |-> "none", user |-> None, rows |-> {}]

ActivityInit ==
    /\ Log!Init
    /\ conns = {}
    /\ view = [r \in Reader |-> NotAsked]

----------------------------------------------------------------------------
(* The queries, as user u. *)

\* FROM friendships WHERE user_id = u: friends, and the requests u has sent.
Friends(u) == {k \in Key : k[1] = u /\ friendships[k] # Absent /\ k[2] \in Registered}

NotificationsOf(u) == {n \in Req : notifications[n].user = u}

\* ORDER BY timestamp DESC LIMIT: a page of the latest, or as much of it as was read.
Latest(found) ==
    {page \in SUBSET found :
        /\ Cardinality(page) <= Limit
        /\ \A i \in page, j \in found \ page : stored[i].time >= stored[j].time}

\* Mutant: f.status = 'accepted' is forgotten.
Activity_AnyStatus(u) ==
    {i \in CheckInId : /\ stored[i] # None
                       /\ <<u, stored[i].user>> \in Friends(u)
                       /\ stored[i].time >= Since}

\* Check-ins of the last days by users to whom u has an accepted row.
Activity(u) ==
    {i \in CheckInId : /\ stored[i] # None
                       /\ <<u, stored[i].user>> \in Friends(u)
                       /\ friendships[<<u, stored[i].user>>].status = "accepted"
                       /\ stored[i].time >= Since}

----------------------------------------------------------------------------

BeginRead(r) == /\ r \notin conns /\ view[r] = NotAsked
                /\ Free
                /\ conns' = conns \cup {r}
                /\ UNCHANGED <<vars, stored, scored, view>>

\* The query and, deferred, the Rollback.
Read(r, op, u) ==
    /\ r \in conns
    /\ conns' = conns \ {r}
    /\ \E rows \in CASE op = "listFriends" -> SUBSET Friends(u)
                     [] op = "listNotifications" -> SUBSET NotificationsOf(u)
                     [] op = "activity" -> Latest(Activity(u)) :
           view' = [view EXCEPT ![r] = [op |-> op, user |-> u, rows |-> rows]]
    /\ UNCHANGED <<vars, stored, scored>>

\* The query fails or its context ends: a 500, and the connection goes back.
ReadFails(r) == /\ r \in conns
                /\ conns' = conns \ {r}
                /\ UNCHANGED <<vars, stored, scored>>
                /\ view' = [view EXCEPT ![r].op = "error"]

\* The check-in handlers record a submission; their own connections are those of readers
\* and requests as far as anybody else can tell.
Record(s) == Log!Record(s) /\ UNCHANGED <<vars, conns, view>>

AllAnswered == /\ \A p \in Req : pc[p] = "done"
               /\ \A r \in Reader : view[r] # NotAsked
               /\ \A s \in Submission : stored[s.id] # None
               /\ UNCHANGED activityVars

ReadNext(r) == \/ BeginRead(r)
               \/ \E op \in ReadOps, u \in User : Read(r, op, u)
               \/ ReadFails(r)

ActivityNext ==
    \/ (\E p \in Req : PoolNext(p)) /\ UNCHANGED <<stored, scored, view>>
    \/ \E r \in Reader : ReadNext(r)
    \/ \E s \in Submission : Record(s)
    \/ AllAnswered

ActivitySpec == Init /\ ActivityInit /\ [][ActivityNext]_activityVars

\* A connection that is free is given to who waits, and PostgreSQL answers.
ActivityFairness ==
    /\ \A p \in Req : /\ WF_activityVars(Begin(p) /\ UNCHANGED <<stored, scored, view>>)
                      /\ WF_activityVars(PoolProceed(p) /\ UNCHANGED <<stored, scored, view>>)
    /\ \A r \in Reader : WF_activityVars(\E op \in ReadOps, u \in User : Read(r, op, u))

----------------------------------------------------------------------------
(* Correctness. *)

\* What a user is shown of somebody's whereabouts is a stored check-in of a user with whom
\* he had agreed on being friends, one asking and the other accepting, whatever requests
\* were under way when the query ran.
FeedByConsent ==
    \A r \in Reader : view[r].op = "activity" =>
        \A i \in view[r].rows :
            /\ stored[i] # None /\ stored[i].time >= Since
            /\ \E a, s \in Req : \/ Accepted(a, s, view[r].user, stored[i].user)
                                 \/ Accepted(a, s, stored[i].user, view[r].user)

\* Everybody who has begun is answered, waits for rows and for connections included.
EveryCallIsAnswered ==
    /\ EveryRequestIsAnswered
    /\ \A r \in Reader : r \in conns ~> view[r] # NotAsked
=============================================================================
