--------------------------- MODULE CheckInsProofs ---------------------------
(***************************************************************************)
(* Proofs about CheckIns for any number of requests, users, submissions    *)
(* and legacy check-ins: IndInv is inductive, the safety properties follow *)
(* from it, and every behaviour is one of CheckInLog.                      *)
(*                                                                         *)
(* Most statements end in one of two ways: RollBack, with its reply, or    *)
(* Write, which moves on with one more row in the draft.  Each has its     *)
(* lemma, and the actions are instances of the two.                        *)
(***************************************************************************)
EXTENDS CheckIns, TLAPS

\* The initial state, where only the legacy check-ins are stored.
LEMMA InitInv == Init => IndInv
<1> SUFFICES ASSUME Init PROVE IndInv
    OBVIOUS
<1> USE NullAssumption, LegacyAssumption DEF Init
<1>1. \A i \in Id : \/ checkIns[i] = None /\ children[i] = NoChildren
                    \/ checkIns[i] \in Legacy /\ checkIns[i].id = i /\ checkIns[i] # None
                       /\ checkIns[i] \in Submission /\ children[i] = WholeChildren
  <2> TAKE i \in Id
  <2>1. CASE \E s \in Legacy : s.id = i
    <3> DEFINE s == CHOOSE t \in Legacy : t.id = i
    <3>1. s \in Legacy /\ s.id = i
        BY <2>1
    <3> HIDE DEF s
    <3> QED
        BY <2>1, <3>1 DEF s
  <2>2. CASE ~ \E s \in Legacy : s.id = i
      BY <2>2
  <2> QED
      BY <2>1, <2>2
<1>2. checkIns \in [Id -> Submission \cup {None}]
    BY <1>1
<1>3. TypeOK
    BY <1>2 DEF TypeOK, NoChildren, WholeChildren, Reply, NoReply, Failure
<1>4. CallInv
    BY DEF CallInv, NoReply, Failure
<1>5. DraftInv /\ LockInv
    BY DEF DraftInv, LockInv, WrittenBefore, Inserted, Keyed
<1>6. StoredWhole
    BY <1>1 DEF StoredWhole
<1>7. NoVisitTwice
    BY <1>1 DEF NoVisitTwice, Clash, SameVisit
<1>8. OkMeansStored /\ ConflictIsReal
    BY DEF OkMeansStored, ConflictIsReal, NoReply, Failure
<1> QED
    BY <1>3, <1>4, <1>5, <1>6, <1>7, <1>8 DEF IndInv

\* A statement that ends its request keeps IndInv when its reply is honest.
LEMMA RollBackKeepsInv ==
    ASSUME IndInv, NEW p \in Req, pc[p] \in Statement, NEW r \in Reply, RollBack(p, r),
           r.status = "ok" =>
               /\ r.id \in Id /\ r.score # None
               /\ checkIns[r.id] # None
               /\ \/ r.score = score[r.id]
                  \/ r.score = "zero" /\ checkIns[r.id] \in Legacy,
           r.status = "conflict" => \E i \in Id : checkIns[i] # None /\ Clash(call[p], checkIns[i])
    PROVE  IndInv'
<1> USE DEF RollBack, Answer, Goto, tables, TypeOK
<1> TypeOK
    BY DEF IndInv
<1>1. TypeOK'
    BY DEF Statement, Keyed
<1>2. CallInv'
    BY DEF IndInv, CallInv, Statement, Keyed, Inserted
<1>3. DraftInv'
    BY DEF IndInv, DraftInv, WrittenBefore, Inserted, Keyed
<1>4. LockInv'
    BY DEF IndInv, LockInv, Inserted, Keyed
<1>5. StoredWhole' /\ NoVisitTwice'
    BY DEF IndInv, StoredWhole, NoVisitTwice
<1>6. OkMeansStored'
    BY DEF IndInv, OkMeansStored
<1>7. ConflictIsReal'
    BY DEF IndInv, ConflictIsReal
<1> QED
    BY <1>1, <1>2, <1>3, <1>4, <1>5, <1>6, <1>7 DEF IndInv

\* A statement that writes and moves on keeps IndInv when the keys it enters are its own.
LEMMA WriteKeepsInv ==
    ASSUME IndInv, NEW p \in Req, pc[p] \in Statement, NEW s \in Keyed, NEW w \in Written,
           Write(p, w, s), WrittenBefore(s) = WrittenBefore(pc[p]) \cup {w},
           \/ pc[p] \in Keyed
           \/ /\ \A q \in Req \ {p} : pc[q] \in Keyed => call[p].id # call[q].id
              /\ checkIns[call[p].id] = None,
           \/ s \notin Inserted
           \/ pc[p] \in Inserted
           \/ /\ \A q \in Req \ {p} : pc[q] \in Inserted => ~ SameVisit(call[p], call[q])
              /\ \A i \in Id : checkIns[i] # None => ~ SameVisit(call[p], checkIns[i])
    PROVE  IndInv'
<1> USE DEF Write, Goto, tables, TypeOK
<1> TypeOK
    BY DEF IndInv
<1>0. call[p] \in Submission
    BY DEF IndInv, CallInv, Statement, Keyed, Inserted
<1>1. TypeOK'
    BY DEF Statement, Keyed
<1>2. CallInv'
    BY DEF IndInv, CallInv, Statement, Keyed, Inserted
<1>3. DraftInv'
    BY DEF IndInv, DraftInv
<1>4. LockInv'
    BY DEF IndInv, LockInv, SameVisit, Keyed
<1>5. StoredWhole' /\ NoVisitTwice'
    BY DEF IndInv, StoredWhole, NoVisitTwice
<1>6. OkMeansStored' /\ ConflictIsReal'
    BY DEF IndInv, OkMeansStored, ConflictIsReal
<1> QED
    BY <1>1, <1>2, <1>3, <1>4, <1>5, <1>6 DEF IndInv

\* What a failed request answers is a reply, and an honest one.
LEMMA FailureIsReply ==
    ASSUME NEW st \in {"error", "conflict", "refused", "forbidden", "notFound"}
    PROVE  Failure(st) \in Reply /\ Failure(st).status = st /\ Failure(st).score = None
BY DEF Failure, Reply

\* A request that fails keeps IndInv.
LEMMA FailureKeepsInv ==
    ASSUME IndInv, NEW p \in Req, pc[p] \in Statement, NEW st \in {"error", "refused"},
           RollBack(p, Failure(st))
    PROVE  IndInv'
<1>1. Failure(st) \in Reply /\ Failure(st).status \notin {"ok", "conflict"}
    BY FailureIsReply
<1> QED
    BY <1>1, RollBackKeepsInv

\* The checks before the transaction.
LEMMA CreateKeepsInv ==
    ASSUME IndInv, NEW p \in Req, NEW u \in User, NEW s \in Submission, CreateCheckIn(p, u, s)
    PROVE  IndInv'
<1> USE DEF CreateCheckIn, Answer, Goto, tables, TypeOK
<1> TypeOK
    BY DEF IndInv
<1>0. /\ reply' \in [Req -> Reply]
      /\ \A q \in Req \ {p} : reply'[q] = reply[q]
      /\ reply'[p] = reply[p] \/ reply'[p].status \in {"forbidden", "notFound"}
    BY FailureIsReply
<1>1. TypeOK'
    BY <1>0 DEF Statement, Keyed
<1>2. CallInv'
  <2> SUFFICES ASSUME NEW q \in Req
               PROVE  /\ pc'[q] # "idle" => call'[q] \in Submission
                      /\ pc'[q] # "done" => reply'[q] = NoReply
                      /\ reply'[q].status = "ok" =>
                             reply'[q].id \in Id /\ reply'[q].score # None
      BY DEF CallInv
  <2> QED
      BY <1>0 DEF IndInv, CallInv
<1>3. DraftInv'
    BY DEF IndInv, DraftInv, WrittenBefore, Inserted, Keyed
<1>4. LockInv'
    BY DEF IndInv, LockInv, Inserted, Keyed
<1>5. StoredWhole' /\ NoVisitTwice'
    BY DEF IndInv, StoredWhole, NoVisitTwice
<1>6. OkMeansStored'
    BY <1>0 DEF IndInv, OkMeansStored
<1>7. ConflictIsReal'
  <2> SUFFICES ASSUME NEW q \in Req, reply'[q].status = "conflict"
               PROVE  \E i \in Id : checkIns[i] # None /\ Clash(call'[q], checkIns[i])
      BY DEF ConflictIsReal
  <2>1. q # p
      BY <1>0 DEF IndInv, CallInv, NoReply, Failure
  <2> QED
      BY <1>0, <2>1 DEF IndInv, ConflictIsReal
<1> QED
    BY <1>1, <1>2, <1>3, <1>4, <1>5, <1>6, <1>7 DEF IndInv

\* The handlers' statements.
LEMMA ProceedKeepsInv ==
    ASSUME IndInv, NEW p \in Req, Proceed(p) PROVE IndInv'
<1> USE DEF TypeOK
<1> TypeOK /\ DraftInv /\ CallInv
    BY DEF IndInv
<1>1. CASE CheckIdempotency(p)
  <2> USE <1>1 DEF CheckIdempotency
  <2> DEFINE s == call[p]
             r == [status |-> "ok", id |-> s.id, loc |-> s.loc, time |-> s.time,
                   score |-> IF score[s.id] = None THEN "zero" ELSE score[s.id]]
  <2>0. s \in Submission /\ s.id \in Id
      BY DEF CallInv, Submission
  <2>1. CASE checkIns[s.id] # None
    <3>1. RollBack(p, r)
        BY <2>1
    <3>2. r \in Reply
        BY <2>0 DEF Reply, Submission
    <3>3. \/ score[s.id] # None /\ r.score = score[s.id]
          \/ r.score = "zero" /\ checkIns[s.id] \in Legacy
        BY <2>0, <2>1 DEF IndInv, StoredWhole
    <3>4. "zero" # None
        BY NullAssumption
    <3> HIDE DEF r
    <3>5. r.status = "ok" /\ r.id = s.id
        BY DEF r
    <3> QED
        BY <3>1, <3>2, <3>3, <3>4, <3>5, <2>0, <2>1, RollBackKeepsInv DEF Statement
  <2>2. CASE checkIns[s.id] = None
    <3> USE <2>2 DEF Goto, tables
    <3>1. TypeOK'
        BY DEF Statement, Keyed
    <3>2. CallInv' /\ DraftInv' /\ LockInv'
        BY DEF IndInv, CallInv, DraftInv, LockInv, WrittenBefore, Inserted, Keyed
    <3>3. StoredWhole' /\ NoVisitTwice' /\ OkMeansStored' /\ ConflictIsReal'
        BY DEF IndInv, StoredWhole, NoVisitTwice, OkMeansStored, ConflictIsReal
    <3> QED
        BY <3>1, <3>2, <3>3 DEF IndInv
  <2> QED
      BY <2>1, <2>2
<1>2. CASE InsertCheckIn(p)
  <2> USE <1>2 DEF InsertCheckIn
  <2>0. call[p] \in Submission /\ call[p].id \in Id
      BY DEF CallInv, Submission
  <2>1. CASE checkIns[call[p].id] # None
    <3>1. checkIns[call[p].id].id = call[p].id
        BY <2>0, <2>1 DEF IndInv, StoredWhole
    <3> QED
        BY <2>0, <2>1, <3>1, RollBackKeepsInv, FailureIsReply DEF Statement, Clash
  <2>2. CASE checkIns[call[p].id] = None
    <3>1. \A q \in Req \ {p} : pc[q] \in Keyed => call[p].id # call[q].id
        BY DEF DraftInv, WrittenBefore
    <3> QED
        BY <2>2, <3>1, WriteKeepsInv DEF Statement, Keyed, Inserted, Written, WrittenBefore
  <2> QED
      BY <2>1, <2>2
<1>3. CASE InsertVisit(p)
  <2> USE <1>3 DEF InsertVisit
  <2>1. CASE \E i \in Id : checkIns[i] # None /\ SameVisit(call[p], checkIns[i])
      BY <2>1, RollBackKeepsInv, FailureIsReply DEF Statement, Keyed, Clash
  <2>2. CASE ~ \E i \in Id : checkIns[i] # None /\ SameVisit(call[p], checkIns[i])
    <3>1. \A q \in Req \ {p} : pc[q] \in Inserted => ~ SameVisit(call[p], call[q])
        BY DEF DraftInv, WrittenBefore
    <3> QED
        BY <2>2, <3>1, WriteKeepsInv DEF Statement, Keyed, Inserted, Written, WrittenBefore
  <2> QED
      BY <2>1, <2>2
<1>4. CASE InsertSpeedTest(p)
    BY <1>4, FailureKeepsInv, WriteKeepsInv
    DEF InsertSpeedTest, Statement, Keyed, Inserted, Written, ChildTable, WrittenBefore
<1>5. CASE InsertNoiseLevel(p)
    BY <1>5, FailureKeepsInv, WriteKeepsInv
    DEF InsertNoiseLevel, Statement, Keyed, Inserted, Written, ChildTable, WrittenBefore
<1>6. CASE InsertWorkspaceRatings(p)
    BY <1>6, FailureKeepsInv, WriteKeepsInv
    DEF InsertWorkspaceRatings, Statement, Keyed, Inserted, Written, ChildTable, WrittenBefore
<1>7. CASE UpdateWorkScore(p)
    BY <1>7, WriteKeepsInv DEF UpdateWorkScore, Statement, Keyed, Inserted, Written, WrittenBefore
<1>8. CASE Commit(p)
  <2> USE <1>8 DEF Commit
  <2> DEFINE s == call[p]
             i == call[p].id
  <2>0. s \in Submission /\ i \in Id /\ s.body \in Body
      BY DEF CallInv, Submission
  <2> USE DEF TypeOK
  <2>1. draft[p] = Written
      BY DEF DraftInv, WrittenBefore, Inserted, Keyed, Written, ChildTable
  <2>2. checkIns[i] = None
      BY <2>0 DEF IndInv, LockInv, Inserted, Keyed
  <2>3. children[i] = NoChildren
      BY <2>0, <2>2 DEF IndInv, StoredWhole
  <2>4. /\ checkIns' = [checkIns EXCEPT ![i] = s]
        /\ score' = [score EXCEPT ![i] = s.body]
        /\ children' = [children EXCEPT ![i] = WholeChildren]
    <3>1. ScoreOf(p) = s.body
        BY <2>1 DEF ScoreOf, Written
    <3>2. [t \in ChildTable |-> children[i][t] + IF t \in draft[p] THEN 1 ELSE 0] = WholeChildren
        BY <2>1, <2>3 DEF Written, NoChildren, WholeChildren
    <3> QED
        BY <3>1, <3>2
  <2>5. PICK r \in Reply : /\ Answer(p, r)
                           /\ \/ r.status = "ok" /\ r.id = i /\ r.score = s.body
                              \/ r.status = "error"
    <3>1. [status |-> "ok", id |-> s.id, loc |-> s.loc, time |-> s.time, score |-> s.body]
              \in Reply
        BY <2>0 DEF Reply, Submission
    <3> QED
        BY <3>1, FailureIsReply
  <2>6. s # None /\ s.body # None
      BY <2>0, NullAssumption
  <2> USE <2>0, <2>4, <2>5, <2>6 DEF Answer, Goto
  <2>7. TypeOK'
      BY DEF WholeChildren, NoChildren
  <2>8. CallInv'
      BY DEF CallInv
  <2>9. DraftInv'
      BY DEF DraftInv, WrittenBefore, Inserted, Keyed
  <2>10. LockInv'
      BY DEF IndInv, LockInv, Inserted, Keyed, SameVisit
  <2>11. StoredWhole'
      BY DEF IndInv, StoredWhole
  <2>12. NoVisitTwice'
    <3>1. \A j \in Id : checkIns[j] # None => ~ SameVisit(s, checkIns[j])
        BY DEF IndInv, LockInv, Inserted
    <3> SUFFICES ASSUME NEW j \in Id, NEW k \in Id, checkIns'[j] # None, checkIns'[k] # None,
                        checkIns'[j].user = checkIns'[k].user,
                        checkIns'[j].loc = checkIns'[k].loc,
                        checkIns'[j].time = checkIns'[k].time
                 PROVE  j = k
        BY DEF NoVisitTwice
    <3>2. CASE j # i /\ k # i
        BY <3>2 DEF IndInv, NoVisitTwice
    <3>3. CASE j = i /\ k # i
        BY <3>1, <3>3 DEF SameVisit
    <3>4. CASE j # i /\ k = i
        BY <3>1, <3>4 DEF SameVisit
    <3> QED
        BY <3>2, <3>3, <3>4
  <2>13. OkMeansStored'
    <3> SUFFICES ASSUME NEW q \in Req, reply'[q].status = "ok"
                 PROVE  /\ checkIns'[reply'[q].id] # None
                        /\ \/ reply'[q].score = score'[reply'[q].id]
                           \/ reply'[q].score = "zero" /\ checkIns'[reply'[q].id] \in Legacy
        BY DEF OkMeansStored
    <3>1. CASE q = p
        BY <3>1
    <3>2. CASE q # p
      <4>1. reply'[q] = reply[q] /\ checkIns[reply[q].id] # None
          BY <3>2 DEF IndInv, OkMeansStored
      <4>2. reply[q].id # i
          BY <4>1, <2>2
      <4>3. checkIns'[reply[q].id] = checkIns[reply[q].id] /\ score'[reply[q].id] = score[reply[q].id]
          BY <4>2
      <4> QED
          BY <4>1, <4>3 DEF IndInv, OkMeansStored
    <3> QED
        BY <3>1, <3>2
  <2>14. ConflictIsReal'
    <3>1. \A j \in Id : checkIns[j] # None => checkIns'[j] = checkIns[j]
        BY <2>2
    <3>2. \A q \in Req : reply'[q].status = "conflict" => reply[q].status = "conflict"
        BY <2>5
    <3> QED
        BY <3>1, <3>2 DEF IndInv, ConflictIsReal
  <2> QED
      BY <2>7, <2>8, <2>9, <2>10, <2>11, <2>12, <2>13, <2>14 DEF IndInv
<1> QED
    BY <1>1, <1>2, <1>3, <1>4, <1>5, <1>6, <1>7, <1>8 DEF Proceed

\* The script that scores the legacy check-ins.
LEMMA BackfillKeepsInv ==
    ASSUME IndInv, Backfill PROVE IndInv'
<1> USE DEF Backfill, TypeOK
<1> TypeOK
    BY DEF IndInv
<1>1. TypeOK'
    BY DEF Submission
<1>2. CallInv' /\ DraftInv' /\ LockInv'
    BY DEF IndInv, CallInv, DraftInv, LockInv
<1>3. StoredWhole' /\ NoVisitTwice'
    BY DEF IndInv, StoredWhole, NoVisitTwice
<1>4. OkMeansStored'
  <2> SUFFICES ASSUME NEW q \in Req, reply[q].status = "ok"
               PROVE  /\ checkIns[reply[q].id] # None
                      /\ \/ reply[q].score = score'[reply[q].id]
                         \/ reply[q].score = "zero" /\ checkIns[reply[q].id] \in Legacy
      BY DEF OkMeansStored
  <2>1. reply[q].id \in Id /\ reply[q].score # None
      BY DEF IndInv, CallInv
  <2> QED
      BY <2>1 DEF IndInv, OkMeansStored
<1>5. ConflictIsReal'
    BY DEF IndInv, ConflictIsReal
<1> QED
    BY <1>1, <1>2, <1>3, <1>4, <1>5 DEF IndInv

\* Every step of the system keeps IndInv, and so does standing still.
LEMMA StepKeepsInv == IndInv /\ [Next]_vars => IndInv'
<1> SUFFICES ASSUME IndInv, [Next]_vars PROVE IndInv'
    OBVIOUS
<1>1. ASSUME NEW p \in Req, Receive(p) PROVE IndInv'
  <2> PICK u \in User, s \in Sent : \/ CreateCheckIn(p, u, s)
                                    \/ \E l \in Location : CreateCheckInAtLocation(p, u, s, l)
      BY <1>1 DEF Receive
  <2>1. CASE CreateCheckIn(p, u, s)
      BY <2>1, SentAssumption, CreateKeepsInv
  <2>2. ASSUME NEW l \in Location, CreateCheckInAtLocation(p, u, s, l) PROVE IndInv'
    <3> DEFINE t == [s EXCEPT !.loc = l]
    <3>1. t \in Submission
        BY SentAssumption DEF Submission
    <3> HIDE DEF t
    <3>2. CreateCheckIn(p, u, t)
        BY <2>2 DEF CreateCheckInAtLocation, t
    <3> QED
        BY <3>1, <3>2, CreateKeepsInv
  <2> QED
      BY <2>1, <2>2
<1>2. ASSUME NEW p \in Req, Fail(p) PROVE IndInv'
    BY <1>2, FailureKeepsInv DEF Fail
<1>3. CASE UNCHANGED vars
    BY <1>3 DEF vars, IndInv, TypeOK, CallInv, DraftInv, LockInv, StoredWhole, NoVisitTwice,
                OkMeansStored, ConflictIsReal
<1> QED
    BY <1>1, <1>2, <1>3, ProceedKeepsInv, BackfillKeepsInv DEF Next, AllServed

\* IndInv holds in every reachable state, whatever the interleaving of the requests.
THEOREM Inductive == Spec => []IndInv
BY InitInv, StepKeepsInv, PTL DEF Spec

\* The tables and the requests stay within their types.
THEOREM TypeCorrect == Spec => []TypeOK
<1>1. IndInv => TypeOK
    BY DEF IndInv
<1> QED
    BY <1>1, Inductive, PTL

\* Every stored check-in has its three children, each once, and its own score.
THEOREM CheckInsAreWhole == Spec => []StoredWhole
<1>1. IndInv => StoredWhole
    BY DEF IndInv
<1> QED
    BY <1>1, Inductive, PTL

\* No visit is stored under two ids.
THEOREM VisitsAreSingle == Spec => []NoVisitTwice
<1>1. IndInv => NoVisitTwice
    BY DEF IndInv
<1> QED
    BY <1>1, Inductive, PTL

\* No request is told "ok" of an id that is not stored, or with another score.
THEOREM OkIsHonest == Spec => []OkMeansStored
<1>1. IndInv => OkMeansStored
    BY DEF IndInv
<1> QED
    BY <1>1, Inductive, PTL

\* No request is refused for a check-in that is not stored.
THEOREM ConflictsAreReal == Spec => []ConflictIsReal
<1>1. IndInv => ConflictIsReal
    BY DEF IndInv
<1> QED
    BY <1>1, Inductive, PTL

----------------------------------------------------------------------------
(* The refinement of CheckInLog. *)

\* A step of the handlers is a step of the log, or leaves it as it is.
LEMMA StepRefinesLog == IndInv /\ [Next]_vars => [Log!Next]_(Log!vars)
<1> SUFFICES ASSUME IndInv, [Next]_vars PROVE [Log!Next]_(Log!vars)
    OBVIOUS
<1> USE DEF Log!vars, tables
<1>1. ASSUME NEW p \in Req, Commit(p) PROVE Log!Next
  <2>s. PICK s \in Submission : s = call[p]
      BY <1>1 DEF IndInv, CallInv, Commit
  <2>0. s.id \in Id /\ s.body \in Body /\ s.body # None
      BY NullAssumption DEF Submission
  <2>1. checkIns[s.id] = None
      BY <1>1, <2>s, <2>0 DEF Commit, IndInv, LockInv, Inserted, Keyed
  <2>2. ScoreOf(p) = s.body
      BY <1>1, <2>s DEF Commit, IndInv, DraftInv, WrittenBefore, ScoreOf
  <2>3. /\ checkIns' = [checkIns EXCEPT ![s.id] = s]
        /\ score' = [score EXCEPT ![s.id] = s.body]
      BY <1>1, <2>s, <2>2 DEF Commit
  <2>4. {i \in Id : score'[i] # None} = {i \in Id : score[i] # None} \cup {s.id}
      BY <2>0, <2>3 DEF IndInv, TypeOK
  <2>5. Log!Record(s)
      BY <2>1, <2>3, <2>4 DEF Log!Record
  <2> QED
      BY <2>5 DEF Log!Next
<1>2. CASE Backfill
  <2>1. {i \in Id : score'[i] # None} = {i \in Id : checkIns[i] # None}
      BY <1>2, NullAssumption DEF Backfill, IndInv, TypeOK, StoredWhole, Submission
  <2> QED
      BY <1>2, <2>1 DEF Backfill, Log!Next, Log!Backfill
<1>3. ASSUME NEW p \in Req, NEW w \in Written, NEW s \in Keyed, Write(p, w, s)
      PROVE  UNCHANGED Log!vars
    BY <1>3 DEF Write
<1>4. ASSUME NEW p \in Req, NEW r, RollBack(p, r) PROVE UNCHANGED Log!vars
    BY <1>4 DEF RollBack
<1>5. ASSUME NEW p \in Req, Proceed(p), ~ Commit(p) PROVE UNCHANGED Log!vars
    BY <1>5, <1>3, <1>4 DEF Proceed, CheckIdempotency, InsertCheckIn, InsertVisit, InsertSpeedTest,
       InsertNoiseLevel, InsertWorkspaceRatings, UpdateWorkScore, Write, RollBack
<1>6. ASSUME NEW p \in Req, Receive(p) PROVE UNCHANGED Log!vars
    BY <1>6 DEF Receive, CreateCheckIn, CreateCheckInAtLocation
<1>7. ASSUME NEW p \in Req, Fail(p) PROVE UNCHANGED Log!vars
    BY <1>7, <1>4 DEF Fail
<1>8. CASE UNCHANGED vars
    BY <1>8 DEF vars
<1> QED
    BY <1>1, <1>2, <1>5, <1>6, <1>7, <1>8 DEF Next, AllServed

\* The handlers, whatever they interleave, repeat or abandon, write a log in which each
\* check-in appears once, whole and with its score.
THEOREM RefinesLog == Spec => ImplementsLog
<1>1. Init => Log!Init
  <2> SUFFICES ASSUME Init PROVE Log!Init
      OBVIOUS
  <2>1. {i \in Id : score[i] # None} = {}
      BY DEF Init
  <2> QED
      BY <2>1 DEF Init, Log!Init
<1> QED
    BY <1>1, StepRefinesLog, Inductive, PTL DEF Spec, ImplementsLog, Log!Spec
=============================================================================
