------------------------------ MODULE CheckIns ------------------------------
(***************************************************************************)
(* The two check-in handlers of handler/checkin.go as concurrent requests  *)
(* over PostgreSQL: one transaction that looks for the client's id, writes *)
(* the check-in, its three children and its work score, and commits.       *)
(*                                                                         *)
(* A submission is what a client sends: its id, the user, the location,    *)
(* the timestamp and a body.  A body stands for the measurements and       *)
(* ratings, told apart by what the CHECK constraints of                    *)
(* docs/check-in-schema.sql say of them: "quiet" and "loud" are accepted,  *)
(* a skipped noise step sends duration_seconds = 0, which chk_duration     *)
(* refuses, and the other two hold a value the table named refuses.  The   *)
(* work score of a body is the body itself here; WorkScore computes it.    *)
(*                                                                         *)
(* The INSERT of a check-in enters its two unique keys one after the       *)
(* other, the primary key first, and waits at each while an uncommitted    *)
(* check-in holds the same one.  While it waits for the second it holds    *)
(* the first, so others may be waiting for it.                             *)
(***************************************************************************)
EXTENDS Integers, FiniteSets

CONSTANTS
    User,      \* the authenticated users
    Location,  \* the location ids requests name
    Known,     \* those with a row in locations; none is ever deleted
    Time,      \* the timestamps
    Id,        \* the check-in ids clients generate
    Sent,      \* the submissions clients send
    Legacy,    \* the check-ins stored before the work_score column was added
    Req,       \* the requests served
    None       \* SQL's NULL, and "no row"

Body == {"quiet", "loud", "noiseSkipped", "badSpeed", "badRatings"}
Submission == [id : Id, user : User, loc : Location, time : Time, body : Body]

\* UNIQUE (user_id, location_id, timestamp).
SameVisit(s, t) == s.user = t.user /\ s.loc = t.loc /\ s.time = t.time

\* The primary key, or the other.
Clash(s, t) == s.id = t.id \/ SameVisit(s, t)

ASSUME NullAssumption == None \notin Id \cup Body \cup Submission \cup {"zero"}
ASSUME SentAssumption == Sent \subseteq Submission
ASSUME LegacyAssumption ==
    /\ Legacy \subseteq Submission
    /\ \A s, t \in Legacy : Clash(s, t) => s = t

VARIABLES
    checkIns,  \* checkIns[i]: the committed check-in with id i, or None
    score,     \* its work_score column: the body it was computed from, or None
    children,  \* the committed rows of the three child tables that refer to i
    pc,        \* the next statement of each request
    call,      \* what it submits
    draft,     \* what its transaction has written, unseen by the others
    reply      \* the HTTP reply

vars == <<checkIns, score, children, pc, call, draft, reply>>
tables == <<checkIns, score, children>>

ChildTable == {"speed_tests", "noise_levels", "workspace_ratings"}
NoChildren == [t \in ChildTable |-> 0]
WholeChildren == [t \in ChildTable |-> 1]

\* What a transaction may have written: the primary key of its check-in, then a whole row
\* of each table, and the two score columns.
Written == {"pkey", "check_ins", "work_score"} \cup ChildTable

\* status "conflict" and "refused" are both a 500 to the client: a unique constraint,
\* a CHECK constraint; "error" is any other failure.
Reply == [status : {"none", "ok", "error", "conflict", "refused", "forbidden", "notFound"},
          id : Id \cup {None}, loc : Location \cup {None}, time : Time \cup {None},
          score : Body \cup {None, "zero"}]
Failure(status) == [status |-> status, id |-> None, loc |-> None, time |-> None, score |-> None]
NoReply == Failure("none")

\* The statements after the INSERT of the check-in, in order; "visit" is the INSERT once it
\* has its primary key.
Inserted == {"speed", "noise", "ratings", "score", "commit"}
Keyed == {"visit"} \cup Inserted
Statement == {"select", "insert"} \cup Keyed

Init ==
    /\ checkIns = [i \in Id |-> IF \E s \in Legacy : s.id = i
                                THEN CHOOSE s \in Legacy : s.id = i ELSE None]
    /\ score = [i \in Id |-> None]
    /\ children = [i \in Id |-> IF \E s \in Legacy : s.id = i
                                THEN WholeChildren ELSE NoChildren]
    /\ pc = [p \in Req |-> "idle"]
    /\ call = [p \in Req |-> None]
    /\ draft = [p \in Req |-> {}]
    /\ reply = [p \in Req |-> NoReply]

----------------------------------------------------------------------------

Goto(p, s) == pc' = [pc EXCEPT ![p] = s]

Answer(p, r) == /\ Goto(p, "done")
                /\ reply' = [reply EXCEPT ![p] = r]

\* Mutant: no deferred Rollback, the transaction stays open.
RollBack_Leaks(p, r) == /\ Answer(p, r)
                        /\ UNCHANGED <<tables, call, draft>>

\* return ..., with the deferred Rollback: nothing that was written stays.
RollBack(p, r) == /\ Answer(p, r)
                  /\ draft' = [draft EXCEPT ![p] = {}]
                  /\ UNCHANGED <<tables, call>>

\* A statement of the transaction of p writes w.
Write(p, w, next) == /\ draft' = [draft EXCEPT ![p] = @ \cup {w}]
                     /\ Goto(p, next)
                     /\ UNCHANGED <<tables, call, reply>>

----------------------------------------------------------------------------
(* POST /api/v1/check-ins, as user u. *)

\* The checks before the transaction; a body that does not parse or lacks an id is not a
\* submission.
CreateCheckIn(p, u, s) ==
    /\ pc[p] = "idle"
    /\ call' = [call EXCEPT ![p] = s]
    /\ \/ s.user # u /\ Answer(p, Failure("forbidden"))
       \/ s.user = u /\ Answer(p, Failure("notFound"))  \* no row, or the query failed
       \/ s.user = u /\ s.loc \in Known /\ Goto(p, "select") /\ UNCHANGED reply
    /\ UNCHANGED <<tables, draft>>

\* POST /api/v1/locations/{location_id}/check-ins: the location is that of the path.
CreateCheckInAtLocation(p, u, s, l) == CreateCheckIn(p, u, [s EXCEPT !.loc = l])

\* Mutant: the stored check-in is looked for at the request's location only.
CheckIdempotency_AtLocation(p) ==
    /\ pc[p] = "select"
    /\ LET s == call[p] IN
       IF checkIns[s.id] # None /\ checkIns[s.id].loc = s.loc
       THEN RollBack(p, [status |-> "ok", id |-> s.id, loc |-> s.loc, time |-> s.time,
                         score |-> IF score[s.id] = None THEN "zero" ELSE score[s.id]])
       ELSE Goto(p, "insert") /\ UNCHANGED <<tables, call, draft, reply>>

\* SELECT id, work_score FROM check_ins WHERE id = $1: a stored check-in is answered
\* from its id and score, with the location and the timestamp of the request.
CheckIdempotency(p) ==
    /\ pc[p] = "select"
    /\ LET s == call[p] IN
       IF checkIns[s.id] # None
       THEN RollBack(p, [status |-> "ok", id |-> s.id, loc |-> s.loc, time |-> s.time,
                         score |-> IF score[s.id] = None THEN "zero" ELSE score[s.id]])
       ELSE Goto(p, "insert") /\ UNCHANGED <<tables, call, draft, reply>>

\* Mutant: ON CONFLICT (id) DO UPDATE, whose row count nobody looks at.
InsertCheckIn_Upsert(p) ==
    /\ pc[p] = "insert"
    /\ \A q \in Req \ {p} : "pkey" \in draft[q] => call[p].id # call[q].id
    /\ Write(p, "pkey", "visit")

\* Mutant: an id whose submission is under way already is refused at once.
InsertCheckIn_NoWait(p) ==
    /\ pc[p] = "insert"
    /\ IF \/ \E q \in Req \ {p} : "pkey" \in draft[q] /\ call[p].id = call[q].id
          \/ checkIns[call[p].id] # None
       THEN RollBack(p, Failure("conflict"))
       ELSE Write(p, "pkey", "visit")

\* INSERT INTO check_ins: its primary key.
InsertCheckIn(p) ==
    /\ pc[p] = "insert"
    /\ \A q \in Req \ {p} : "pkey" \in draft[q] => call[p].id # call[q].id
    /\ IF checkIns[call[p].id] # None
       THEN RollBack(p, Failure("conflict"))
       ELSE Write(p, "pkey", "visit")

\* Mutant: the table has no UNIQUE (user_id, location_id, timestamp).
InsertVisit_NoConstraint(p) ==
    /\ pc[p] = "visit"
    /\ Write(p, "check_ins", "speed")

\* The same INSERT: UNIQUE (user_id, location_id, timestamp).
InsertVisit(p) ==
    /\ pc[p] = "visit"
    /\ \A q \in Req \ {p} : "check_ins" \in draft[q] => ~ SameVisit(call[p], call[q])
    /\ IF \E i \in Id : checkIns[i] # None /\ SameVisit(call[p], checkIns[i])
       THEN RollBack(p, Failure("conflict"))
       ELSE Write(p, "check_ins", "speed")

InsertSpeedTest(p) ==
    /\ pc[p] = "speed"
    /\ IF call[p].body = "badSpeed"
       THEN RollBack(p, Failure("refused"))
       ELSE Write(p, "speed_tests", "noise")

InsertNoiseLevel(p) ==
    /\ pc[p] = "noise"
    /\ IF call[p].body = "noiseSkipped"
       THEN RollBack(p, Failure("refused"))
       ELSE Write(p, "noise_levels", "ratings")

InsertWorkspaceRatings(p) ==
    /\ pc[p] = "ratings"
    /\ IF call[p].body = "badRatings"
       THEN RollBack(p, Failure("refused"))
       ELSE Write(p, "workspace_ratings", "score")

\* Mutant: the score is put in the reply only.
UpdateWorkScore_NotStored(p) ==
    /\ pc[p] = "score"
    /\ Goto(p, "commit")
    /\ UNCHANGED <<tables, call, draft, reply>>

UpdateWorkScore(p) ==
    /\ pc[p] = "score"
    /\ Write(p, "work_score", "commit")

\* The work_score column a transaction leaves.
ScoreOf(p) == IF "work_score" \in draft[p] THEN call[p].body ELSE None

\* The commit takes effect; its confirmation may still be lost.
Commit(p) ==
    /\ pc[p] = "commit"
    /\ LET s == call[p] IN
       /\ checkIns' = [checkIns EXCEPT ![s.id] = s]
       /\ score' = [score EXCEPT ![s.id] = ScoreOf(p)]
       /\ children' = [children EXCEPT ![s.id] =
              [t \in ChildTable |-> children[s.id][t] + IF t \in draft[p] THEN 1 ELSE 0]]
       /\ \/ Answer(p, [status |-> "ok", id |-> s.id, loc |-> s.loc, time |-> s.time,
                        score |-> call[p].body])
          \/ Answer(p, Failure("error"))
    /\ draft' = [draft EXCEPT ![p] = {}]
    /\ UNCHANGED call

\* Mutant: the error of Commit is ignored.
Fail_Ok(p) ==
    /\ pc[p] \in Statement
    /\ RollBack(p, IF pc[p] = "commit"
                   THEN [status |-> "ok", id |-> call[p].id, loc |-> call[p].loc,
                         time |-> call[p].time, score |-> call[p].body]
                   ELSE Failure("error"))

\* A statement cannot be sent or fails, the context is cancelled, the connection or the
\* server process is lost.
Fail(p) == pc[p] \in Statement /\ RollBack(p, Failure("error"))

\* docs/backfill-work-scores.sql, run by hand: UPDATE ... WHERE work_score IS NULL.
Backfill ==
    /\ score' = [i \in Id |-> IF checkIns[i] # None /\ score[i] = None
                              THEN checkIns[i].body ELSE score[i]]
    /\ score' # score
    /\ UNCHANGED <<checkIns, children, pc, call, draft, reply>>

----------------------------------------------------------------------------

Receive(p) ==
    \E u \in User, s \in Sent :
        \/ CreateCheckIn(p, u, s)
        \/ \E l \in Location : CreateCheckInAtLocation(p, u, s, l)

Proceed(p) ==
    \/ CheckIdempotency(p)
    \/ InsertCheckIn(p)
    \/ InsertVisit(p)
    \/ InsertSpeedTest(p)
    \/ InsertNoiseLevel(p)
    \/ InsertWorkspaceRatings(p)
    \/ UpdateWorkScore(p)
    \/ Commit(p)

\* Every request has been served: nothing more happens.
AllServed == (\A p \in Req : pc[p] = "done") /\ UNCHANGED vars

Next == \/ \E p \in Req : Receive(p) \/ Proceed(p) \/ Fail(p)
        \/ Backfill
        \/ AllServed

Spec == Init /\ [][Next]_vars

\* PostgreSQL answers a statement it can execute.
FairSpec == Spec /\ \A p \in Req : WF_vars(Proceed(p))

----------------------------------------------------------------------------
(* Correctness. *)

TypeOK ==
    /\ checkIns \in [Id -> Submission \cup {None}]
    /\ score \in [Id -> Body \cup {None}]
    /\ children \in [Id -> [ChildTable -> Nat]]
    /\ pc \in [Req -> {"idle", "done"} \cup Statement]
    /\ call \in [Req -> Submission \cup {None}]
    /\ draft \in [Req -> SUBSET Written]
    /\ reply \in [Req -> Reply]

\* A check-in is stored whole or not at all, and once: exactly one row of each child
\* table, and a score that is its own, however often and concurrently it is submitted and
\* wherever the requests stop.
StoredWhole ==
    \A i \in Id :
        IF checkIns[i] = None
        THEN children[i] = NoChildren /\ score[i] = None
        ELSE /\ checkIns[i].id = i /\ children[i] = WholeChildren
             /\ score[i] \in {None, checkIns[i].body}
             /\ score[i] = None => checkIns[i] \in Legacy

\* Two stored check-ins never have the same user, place and time: the visit is counted
\* once in the averages, whatever ids the client gave to its retries.
NoVisitTwice ==
    \A i, j \in Id :
        LET s == checkIns[i]
            t == checkIns[j] IN
        s # None /\ t # None /\ s.user = t.user /\ s.loc = t.loc /\ s.time = t.time => i = j

\* "ok" is said only of an id that is stored, with the score that is stored, 0 while a
\* legacy check-in has none yet.
OkMeansStored ==
    \A p \in Req : reply[p].status = "ok" =>
        /\ checkIns[reply[p].id] # None
        /\ \/ reply[p].score = score[reply[p].id]
           \/ reply[p].score = "zero" /\ checkIns[reply[p].id] \in Legacy

\* A request refused by a unique constraint has met a check-in that is stored: never one
\* whose own transaction was then rolled back, which would leave both unstored.
ConflictIsReal ==
    \A p \in Req : reply[p].status = "conflict" =>
        \E i \in Id : checkIns[i] # None /\ Clash(call[p], checkIns[i])

\* What holds between the statements of the handlers, and keeps holding: the inductive
\* invariant behind the properties above.
CallInv ==
    \A p \in Req : /\ pc[p] # "idle" => call[p] \in Submission
                   /\ pc[p] # "done" => reply[p] = NoReply
                   /\ reply[p].status = "ok" => reply[p].id \in Id /\ reply[p].score # None

WrittenBefore(s) ==
    (IF s \in Keyed THEN {"pkey"} ELSE {})
    \cup (IF s \in Inserted THEN {"check_ins"} ELSE {})
    \cup (IF s \in {"noise", "ratings", "score", "commit"} THEN {"speed_tests"} ELSE {})
    \cup (IF s \in {"ratings", "score", "commit"} THEN {"noise_levels"} ELSE {})
    \cup (IF s \in {"score", "commit"} THEN {"workspace_ratings"} ELSE {})
    \cup (IF s = "commit" THEN {"work_score"} ELSE {})

DraftInv == \A p \in Req : draft[p] = WrittenBefore(pc[p])

\* An uncommitted check-in shares no key it has entered with another, or with a stored one.
LockInv ==
    /\ \A p \in Req : pc[p] \in Keyed =>
           /\ \A q \in Req \ {p} : pc[q] \in Keyed => call[p].id # call[q].id
           /\ checkIns[call[p].id] = None
    /\ \A p \in Req : pc[p] \in Inserted =>
           /\ \A q \in Req \ {p} : pc[q] \in Inserted => ~ SameVisit(call[p], call[q])
           /\ \A i \in Id : checkIns[i] # None => ~ SameVisit(call[p], checkIns[i])

IndInv ==
    /\ TypeOK
    /\ CallInv
    /\ DraftInv
    /\ LockInv
    /\ StoredWhole
    /\ NoVisitTwice
    /\ OkMeansStored
    /\ ConflictIsReal

\* Submissions that hold one key and wait for another never wait for each other in a cycle,
\* and no transaction is left open: every request that got as far as its transaction is
\* answered.
EveryRequestIsAnswered ==
    \A p \in Req : pc[p] \in Statement ~> reply[p] # NoReply

\* Retrying is safe: a request that begins once its id is stored is told "ok" unless the
\* server fails, and is never refused as a duplicate.
RetryIsAnswered ==
    \A p \in Req :
        pc[p] = "select" /\ checkIns[call[p].id] # None ~> reply[p].status \in {"ok", "error"}

Log == INSTANCE CheckInLog WITH
    stored <- checkIns,
    scored <- {i \in Id : score[i] # None}

\* The statements of the handlers, interleaved, retried and interrupted, write the log
\* of CheckInLog.
ImplementsLog == Log!Spec

----------------------------------------------------------------------------
(* What docs say of the endpoint. *)

\* docs/api-design-plan.md: "If a duplicate id is submitted, the API returns the existing record rather than
\* creating a duplicate": the retry of a stored check-in is not refused.
DuplicateGetsExistingRecord ==
    \A p \in Req : reply[p].status = "conflict" => checkIns[call[p].id] # call[p]

\* docs/check-in-api-model.md: with noise_level.skipped true and the numeric fields 0, the
\* payload is accepted.
SkippedStepIsAccepted ==
    \A p \in Req : reply[p].status = "refused" => call[p].body # "noiseSkipped"
============================================================================
