------------------------- MODULE FriendshipsProofs -------------------------
(***************************************************************************)
(* Theorems about Friendships, for any users and any number of requests:   *)
(* its types, its safety and action properties, and that it implements     *)
(* FriendGraph.                                                            *)
(***************************************************************************)
EXTENDS Friendships, TLAPS

USE NullAssumption, OpsAssumption

\* Ending a transaction keeps the types of what it resets.
LEMMA ReleaseType ==
    ASSUME TypeOK, NEW p \in Req, Release(p)
    PROVE  /\ lock' \in [Key -> Req \cup {None}]
           /\ dirty' \in [Key -> Row]
           /\ targets' \in [Req -> SUBSET (Key \X Req)]
BY DEF TypeOK, Release, Row, Absent

\* The initial state has the types.
LEMMA InitType == Init => TypeOK
BY DEF Init, TypeOK, Row, Absent, Notification, NoNotification, Call, NoCall,
       Statement, Reply

\* A rollback keeps the types.
LEMMA RollBackType ==
    ASSUME TypeOK, NEW p \in Req, NEW r \in Reply, RollBack(p, r)
    PROVE  TypeOK'
BY ReleaseType DEF TypeOK, RollBack, Answer, Goto, tables, Statement, Reply

\* A write keeps the types of the uncommitted rows.
LEMMA WriteType ==
    ASSUME TypeOK, NEW p \in Req, NEW k \in Key, NEW row \in Row, Write(p, k, row)
    PROVE  lock' \in [Key -> Req \cup {None}] /\ dirty' \in [Key -> Row]
BY DEF TypeOK, Write

\* A request has the types of its arguments.
LEMMA ReceiveType ==
    ASSUME TypeOK, NEW p \in Req, Receive(p)
    PROVE  TypeOK'
<1>1. ASSUME NEW u \in User, NEW f \in User, SendFriendRequest(p, u, f)
      PROVE  TypeOK'
  <2>1. call' \in [Req -> Call]
    BY <1>1 DEF TypeOK, SendFriendRequest, Call, AllOps
  <2>2. pc' \in [Req -> {"idle", "done"} \cup Statement] /\ reply' \in [Req -> Reply]
    BY <1>1 DEF TypeOK, SendFriendRequest, Answer, Goto, Statement, Reply
  <2> QED
    BY <1>1, <2>1, <2>2 DEF TypeOK, SendFriendRequest, tables
<1>2. ASSUME NEW u \in User, NEW id \in Req, NEW op \in AllOps,
             AnswerFriendRequest(p, op, u, id)
      PROVE  TypeOK'
  <2>1. call' \in [Req -> Call]
    BY <1>2 DEF TypeOK, AnswerFriendRequest, Call, KeysOf, Key
  <2>2. pc' \in [Req -> {"idle", "done"} \cup Statement] /\ reply' \in [Req -> Reply]
    BY <1>2 DEF TypeOK, AnswerFriendRequest, Answer, Goto, Statement, Reply, NextOf
  <2> QED
    BY <1>2, <2>1, <2>2 DEF TypeOK, AnswerFriendRequest, tables
<1>3. ASSUME NEW u \in User, NEW f \in User, RemoveFriend(p, u, f)
      PROVE  TypeOK'
  <2>1. call' \in [Req -> Call]
    BY <1>3 DEF TypeOK, RemoveFriend, Call, AllOps
  <2>2. RowsBetween(u, f) \in SUBSET (Key \X Req)
    <3> SUFFICES ASSUME NEW k \in Key, friendships[k] # Absent
                 PROVE  friendships[k].id \in Req
      BY DEF RowsBetween
    <3> QED
      BY DEF TypeOK, Row, Absent
  <2> QED
    BY <1>3, <2>1, <2>2 DEF TypeOK, RemoveFriend, tables, Goto, Statement
<1>4. ASSUME NEW u \in User, NEW n \in Req, MarkNotificationRead(p, u, n)
      PROVE  TypeOK'
  BY <1>4 DEF TypeOK, MarkNotificationRead, Call, AllOps, tables, Goto, Answer,
              Statement, Reply
<1> QED
  BY <1>1, <1>2, <1>3, <1>4 DEF Receive, AcceptFriendRequest, DenyFriendRequest, AllOps

\* So has every statement.
LEMMA ProceedType ==
    ASSUME TypeOK, NEW p \in Req, Proceed(p)
    PROVE  TypeOK'
<1> USE DEF Statement, Reply
<1> DEFINE Moves == /\ pc' \in [Req -> {"idle", "done"} \cup Statement]
                    /\ reply' \in [Req -> Reply]
<1>1. CASE InsertRequest(p)
  <2>1. CASE RollBack(p, "error")
    BY <2>1, RollBackType
  <2>2. CASE ~ RollBack(p, "error")
    <3> DEFINE k == <<Me(p), Them(p)>>  row == [id |-> p, status |-> "pending"]
    <3>1. row \in Row /\ Write(p, k, row)
      BY <1>1, <2>2 DEF InsertRequest, Row
    <3>2. lock' \in [Key -> Req \cup {None}] /\ dirty' \in [Key -> Row]
      BY <3>1 DEF TypeOK, Write
    <3> QED
      BY <1>1, <2>2, <3>2 DEF TypeOK, InsertRequest, tables, Goto
  <2> QED
    BY <2>1, <2>2
<1>2. CASE UpdateAccepted(p)
  <2>1. lock' \in [Key -> Req \cup {None}] /\ dirty' \in [Key -> Row]
    <3>1. CASE UNCHANGED <<lock, dirty>>
      BY <3>1 DEF TypeOK
    <3>2. ASSUME NEW k \in KeysOf(call[p].ref),
                 Write(p, k, [id |-> call[p].ref, status |-> "accepted"])
          PROVE  lock' \in [Key -> Req \cup {None}] /\ dirty' \in [Key -> Row]
      <4>1. k \in Key /\ call[p].ref \in Req
        BY <3>2 DEF KeysOf, TypeOK, Row, Absent
      <4>2. [id |-> call[p].ref, status |-> "accepted"] \in Row
        BY <4>1 DEF Row
      <4> QED
        BY <3>2, <4>1, <4>2, WriteType
    <3> QED
      BY <1>2, <3>1, <3>2 DEF UpdateAccepted
  <2> QED
    BY <1>2, <2>1 DEF TypeOK, UpdateAccepted, tables, Goto
<1>3. CASE UpsertReciprocal(p)
  <2> DEFINE k == <<Me(p), Them(p)>>
             row == IF Found(p, k) = Absent THEN [id |-> p, status |-> "accepted"]
                                            ELSE [Found(p, k) EXCEPT !.status = "accepted"]
  <2>1. ASSUME k \in Key
        PROVE  lock' \in [Key -> Req \cup {None}] /\ dirty' \in [Key -> Row]
    <3>1. Found(p, k) \in Row
      BY <2>1 DEF TypeOK, Found
    <3>2. row \in Row
      BY <3>1 DEF Row, Absent
    <3> HIDE DEF k, row
    <3>3. Write(p, k, row)
      BY <1>3 DEF UpsertReciprocal, k, row
    <3> QED
      BY <2>1, <3>2, <3>3, WriteType
  <2>2. ASSUME k \notin Key
        PROVE  lock' = lock /\ dirty' = dirty
    BY <1>3, <2>2 DEF UpsertReciprocal, Write, TypeOK
  <2> QED
    BY <1>3, <2>1, <2>2 DEF TypeOK, UpsertReciprocal, tables, Goto
<1>4. CASE DeleteDenied(p)
  <2>1. lock' \in [Key -> Req \cup {None}] /\ dirty' \in [Key -> Row]
    BY <1>4, WriteType DEF TypeOK, DeleteDenied, KeysOf, Row
  <2> QED
    BY <1>4, <2>1 DEF TypeOK, DeleteDenied, tables, Goto
<1>5. CASE DeleteTarget(p)
  <2>1. PICK t \in targets[p] :
            /\ targets' = [targets EXCEPT ![p] = @ \ {t}]
            /\ UNCHANGED <<lock, dirty>> \/ Write(p, t[1], Absent)
    BY <1>5 DEF DeleteTarget
  <2>2. t[1] \in Key /\ Absent \in Row
    BY DEF TypeOK, Row
  <2>3. lock' \in [Key -> Req \cup {None}] /\ dirty' \in [Key -> Row]
    BY <2>1, <2>2, WriteType DEF TypeOK
  <2>4. targets' \in [Req -> SUBSET (Key \X Req)]
    BY <2>1 DEF TypeOK
  <2> QED
    BY <1>5, <2>3, <2>4 DEF TypeOK, DeleteTarget, tables
<1>6. CASE DeleteEnds(p)
  BY <1>6, RollBackType DEF TypeOK, DeleteEnds, tables, Goto
<1>7. CASE WriteNotification(p)
  BY <1>7 DEF TypeOK, WriteNotification, tables, Goto
<1>8. CASE Commit(p)
  <2>1. NotificationsAfter(p) \in [Req -> Notification]
    <3>1. NotificationOf(p) \in Notification
      <4>1. Me(p) \in User \cup {None} /\ Them(p) \in User \cup {None}
            /\ call[p].ref \in Req \cup {None}
        BY DEF TypeOK, Call, Me, Them
      <4> QED
        BY <4>1 DEF NotificationOf, Notification
    <3>2. ASSUME NEW n \in Req
          PROVE  [notifications[n] EXCEPT !.read = TRUE] \in Notification
      <4>1. notifications[n] \in Notification
        BY DEF TypeOK
      <4> QED
        BY <4>1 DEF Notification
    <3> QED
      BY <3>1, <3>2 DEF NotificationsAfter, TypeOK
  <2>2. friendships' \in [Key -> Row]
    BY <1>8 DEF Commit, TypeOK
  <2>3. Moves
    BY <1>8 DEF TypeOK, Commit, Answer, Goto
  <2> QED
    BY <1>8, <2>1, <2>2, <2>3, ReleaseType DEF TypeOK, Commit
<1>9. CASE CommitAborted(p)
  BY <1>9, RollBackType DEF CommitAborted
<1>10. CASE DeadlockVictim(p)
  BY <1>10, RollBackType DEF DeadlockVictim
<1> QED
  BY <1>1, <1>2, <1>3, <1>4, <1>5, <1>6, <1>7, <1>8, <1>9, <1>10 DEF Proceed

\* So has every interruption.
LEMMA DisturbType ==
    ASSUME TypeOK, NEW p \in Req, Disturb(p)
    PROVE  TypeOK'
<1>1. CASE NotificationFails(p)
  BY <1>1 DEF TypeOK, NotificationFails, tables, Goto, Statement
<1>2. CASE NotificationCancelled(p)
  BY <1>2 DEF TypeOK, NotificationCancelled, tables, Goto, Statement
<1>3. CASE Fail(p)
  BY <1>3, RollBackType DEF Fail, Reply
<1> QED
  BY <1>1, <1>2, <1>3 DEF Disturb

\* A step that changes nothing keeps every value of its type.
LEMMA StutterType == TypeOK /\ UNCHANGED vars => TypeOK'
BY DEF TypeOK, vars

\* TypeOK is preserved by every step.
LEMMA NextType == TypeOK /\ [Next]_vars => TypeOK'
BY ReceiveType, ProceedType, DisturbType, StutterType DEF Next, AllServed

\* Every variable keeps its type, for any users and any requests.
THEOREM TypeCorrect == Spec => []TypeOK
BY InitType, NextType, PTL DEF Spec
----------------------------------------------------------------------------
(* The inductive invariant, one lemma per kind of step. *)

\* The initial state satisfies it: the tables are empty and nothing runs.
LEMMA InitInv == Init => IndInv
<1> SUFFICES ASSUME Init PROVE IndInv
  OBVIOUS
<1>1. TypeOK
  BY InitType
<1>2. CallInv /\ ProgressInv
  BY DEF Init, CallInv, ProgressInv, InFlight, Statement, NoCall
<1>3. RowInv /\ LockInv /\ TargetInv /\ Consent /\ DeniedRowIsGone
  BY DEF Init, RowInv, LockInv, Justified, TargetInv, Consent, DeniedRowIsGone, Absent
<1>4. NoticeInv
  BY DEF Init, NoticeInv, NoNotification
<1> QED
  BY <1>1, <1>2, <1>3, <1>4 DEF IndInv

\* A state that differs in nothing the invariant reads satisfies it.
LEMMA StutterInv == IndInv /\ UNCHANGED vars => IndInv'
BY DEF vars, IndInv, TypeOK, CallInv, RowInv, LockInv, ProgressInv, TargetInv, NoticeInv,
       Consent, DeniedRowIsGone, KeysOf, Holds, Between, Justified, NotificationOf, SameNotice, Accepted, Asked,
       InFlight, Me, Them

\* What an applied request did stays said: its arguments are fixed.
LEMMA AskedStable ==
    ASSUME IndInv, NEW p \in Req, pc[p] # "done" \/ call'[p] = call[p],
           \A q \in Req \ {p} : call'[q] = call[q], applied \subseteq applied'
    PROVE  /\ \A s \in Req, u, f \in User : Asked(s, u, f) => Asked(s, u, f)'
           /\ \A a, s \in Req, u, f \in User : Accepted(a, s, u, f) => Accepted(a, s, u, f)'
           /\ \A s \in applied : call'[s] = call[s]
<1>1. \A s \in applied : s \in Req /\ call'[s] = call[s]
  BY DEF IndInv, TypeOK, CallInv
<1> QED
  BY <1>1 DEF Asked, Accepted, Me, Them

\* A request received leaves the tables, the locks and the applied requests alone.
LEMMA ReceiveInv ==
    ASSUME IndInv, TypeOK', NEW p \in Req, pc[p] = "idle",
           \A q \in Req \ {p} : call'[q] = call[q] /\ pc'[q] = pc[q],
           UNCHANGED <<tables, lock, dirty, applied>>, noted \subseteq noted',
           pc'[p] # "idle",
           \A q \in Req \ {p} : targets'[q] = targets[q],
           /\ pc'[p] = "insert" => call'[p].op = "send"
           /\ pc'[p] = "update" => call'[p].op = "accept"
           /\ pc'[p] = "delete" => call'[p].op = "deny"
           /\ pc'[p] = "visit" => call'[p].op = "remove"
           /\ pc'[p] = "commit" => call'[p].op = "markRead",
           pc'[p] \notin {"note", "reciprocal"},
           InFlight(p)' /\ call'[p].op \in {"send", "accept", "deny"} =>
               <<Me(p)', Them(p)'>> \in Key,
           InFlight(p)' /\ call'[p].op \in {"accept", "deny"} =>
               Asked(call'[p].ref, Them(p)', Me(p)'),
           targets'[p] # {} => pc'[p] = "visit" /\ \A t \in targets'[p] : t[1] \in Between(p)'
    PROVE  IndInv'
<1>0. p \notin applied /\ \A k \in Key : lock[k] # p
  BY DEF IndInv, CallInv, LockInv, InFlight, Statement
<1>1. /\ \A s \in Req, u, f \in User : Asked(s, u, f) => Asked(s, u, f)'
      /\ \A a, s \in Req, u, f \in User : Accepted(a, s, u, f) => Accepted(a, s, u, f)'
      /\ \A s \in applied : call'[s] = call[s]
  BY AskedStable
<1>2. CallInv'
  BY <1>0, <1>1 DEF IndInv, CallInv, InFlight, Statement, Asked, Me, Them
<1>3. RowInv'
  BY <1>1 DEF IndInv, RowInv, tables, Me, Them
<1>4. LockInv'
  BY <1>0 DEF IndInv, TypeOK, LockInv, Justified, tables, Between, Me, Them, InFlight
<1>5. ProgressInv'
  BY <1>0 DEF IndInv, ProgressInv, tables, KeysOf, Holds, Me, Them
<1>6. TargetInv'
  BY DEF IndInv, TargetInv, Between, Me, Them
<1>7. NoticeInv'
  BY <1>0 DEF IndInv, NoticeInv, NotificationOf, SameNotice, tables, Me, Them
<1>8. Consent'
  BY <1>1 DEF IndInv, Consent, tables, Key
<1>9. DeniedRowIsGone'
  BY <1>1 DEF IndInv, DeniedRowIsGone, tables
<1> QED
  BY <1>2, <1>3, <1>4, <1>5, <1>6, <1>7, <1>8, <1>9 DEF IndInv

\* Receiving a request keeps the invariant, whichever endpoint it calls.
LEMMA ReceiveStep ==
    ASSUME IndInv, NEW p \in Req, Receive(p)
    PROVE  IndInv'
<1>0. TypeOK /\ TypeOK'
  BY ReceiveType DEF IndInv
<1>1. ASSUME NEW u \in User, NEW f \in User, SendFriendRequest(p, u, f)
      PROVE  IndInv'
  <2>1. /\ call' = [call EXCEPT ![p] = [op |-> "send", user |-> u, peer |-> f, ref |-> None]]
        /\ pc[p] = "idle" /\ UNCHANGED <<tables, lock, dirty, targets, noted, applied>>
        /\ \/ Goto(p, "done")
           \/ u # f /\ Goto(p, "insert")
    BY <1>1 DEF SendFriendRequest, Answer
  <2>2. targets[p] = {}
    BY <2>1 DEF IndInv, TargetInv
  <2> QED
    BY <1>0, <2>1, <2>2, ReceiveInv DEF TypeOK, Goto, Key, Me, Them, InFlight, Statement
<1>2. ASSUME NEW u \in User, NEW id \in Req, NEW op \in AllOps,
             AnswerFriendRequest(p, op, u, id)
      PROVE  IndInv'
  <2>1. /\ pc[p] = "idle" /\ UNCHANGED <<tables, lock, dirty, targets, noted, applied>>
        /\ op \in {"accept", "deny"}
    BY <1>2 DEF AnswerFriendRequest
  <2>2. targets[p] = {} /\ p \notin applied
    BY <2>1 DEF IndInv, TargetInv, CallInv
  <2>3. CASE Goto(p, "done") /\ \E v \in User \cup {None} :
               call' = [call EXCEPT ![p] = [op |-> op, user |-> u, peer |-> v, ref |-> id]]
    <3>1. call'[p].op = op /\ pc' = [pc EXCEPT ![p] = "done"]
      BY <1>0, <2>3 DEF TypeOK, Goto
    <3>2. /\ pc'[p] = "done" /\ ~ InFlight(p)' /\ op # "none"
          /\ \A q \in Req \ {p} : call'[q] = call[q] /\ pc'[q] = pc[q]
      BY <1>0, <2>1, <2>3, <3>1 DEF TypeOK, InFlight, Statement
    <3> QED
      BY <1>0, <2>1, <2>2, <3>1, <3>2, ReceiveInv
  <2>4. ASSUME NEW k \in KeysOf(id), Goto(p, NextOf(op)),
               k[2] = u, friendships[k].status = "pending",
               call' = [call EXCEPT ![p] = [op |-> op, user |-> u, peer |-> k[1], ref |-> id]]
        PROVE  IndInv'
    <3>1. /\ id \in applied /\ call[id].op = "send" /\ k = <<Me(id), Them(id)>>
          /\ k \in Key /\ k[1] # k[2]
      BY <2>4 DEF IndInv, RowInv, KeysOf, Key
    <3>2. call'[p].op = op /\ Me(p)' = u /\ Them(p)' = k[1] /\ call'[p].ref = id
      BY <1>0, <2>4 DEF TypeOK, Me, Them
    <3>3. Asked(call'[p].ref, Them(p)', Me(p)')
      BY <2>4, <3>1, <3>2 DEF Asked
    <3>4. pc' = [pc EXCEPT ![p] = NextOf(op)] /\ <<Me(p)', Them(p)'>> \in Key
      BY <2>4, <3>1, <3>2 DEF Goto, Key
    <3> QED
      BY <1>0, <2>1, <2>2, <2>4, <3>2, <3>3, <3>4, ReceiveInv DEF TypeOK, NextOf
  <2> QED
    BY <1>2, <2>3, <2>4 DEF AnswerFriendRequest, Answer, KeysOf, Key
<1>3. ASSUME NEW u \in User, NEW f \in User, RemoveFriend(p, u, f)
      PROVE  IndInv'
  <2>1. \A t \in RowsBetween(u, f) : t[1] \in {<<u, f>>, <<f, u>>}
    BY DEF RowsBetween
  <2> QED
    BY <1>0, <1>3, <2>1, ReceiveInv DEF TypeOK, RemoveFriend, Goto, Between, Me, Them
<1>4. ASSUME NEW u \in User, NEW n \in Req, MarkNotificationRead(p, u, n)
      PROVE  IndInv'
  <2>1. targets[p] = {}
    BY <1>4 DEF IndInv, TargetInv, MarkNotificationRead
  <2>2. CASE Answer(p, "error") /\ UNCHANGED <<call, noted>>
    BY <1>0, <1>4, <2>1, <2>2, ReceiveInv DEF TypeOK, MarkNotificationRead, Goto, Answer, InFlight,
       Statement
  <2>3. CASE call' = [call EXCEPT ![p] = [op |-> "markRead", user |-> u, peer |-> None, ref |-> n]]
    BY <1>0, <1>4, <2>1, <2>3, ReceiveInv DEF TypeOK, MarkNotificationRead, Goto, Answer
  <2> QED
    BY <1>4, <2>2, <2>3 DEF MarkNotificationRead
<1> QED
  BY <1>1, <1>2, <1>3, <1>4 DEF Receive, AcceptFriendRequest, DenyFriendRequest, AllOps

\* A rollback undoes what nobody has seen.
LEMMA RollBackInv ==
    ASSUME IndInv, NEW p \in Req, NEW r \in Reply, InFlight(p), RollBack(p, r)
    PROVE  IndInv'
<1>0. /\ TypeOK /\ TypeOK'
      /\ UNCHANGED <<friendships, notifications, call, noted, applied>>
      /\ pc' = [pc EXCEPT ![p] = "done"] /\ targets' = [targets EXCEPT ![p] = {}]
      /\ lock' = [k \in Key |-> IF lock[k] = p THEN None ELSE lock[k]]
      /\ dirty' = [k \in Key |-> IF lock[k] = p THEN Absent ELSE dirty[k]]
  BY RollBackType DEF IndInv, RollBack, Release, Answer, Goto, tables
<1>1. CallInv'
  BY <1>0 DEF IndInv, TypeOK, CallInv, InFlight, Statement, Asked, Me, Them
<1>2. RowInv' /\ NoticeInv' /\ Consent' /\ DeniedRowIsGone'
  BY <1>0 DEF IndInv, RowInv, NoticeInv, Consent, DeniedRowIsGone, NotificationOf, SameNotice,
              Accepted, Asked, Me, Them
<1>3. LockInv'
  BY <1>0 DEF IndInv, TypeOK, LockInv, Justified, Between, Me, Them, InFlight, Statement
<1>4. ProgressInv'
  <2>1. \A k \in Key, q \in Req \ {p} : lock[k] = q => lock'[k] = q
    BY <1>0
  <2>2. \A q \in Req \ {p} : pc'[q] = pc[q]
    BY <1>0 DEF TypeOK
  <2>3. pc'[p] = "done"
    BY <1>0 DEF TypeOK
  <2> QED
    BY <1>0, <2>1, <2>2, <2>3 DEF IndInv, ProgressInv, KeysOf, Holds, Me, Them
<1>5. TargetInv'
  BY <1>0 DEF IndInv, TypeOK, TargetInv, Between, Me, Them
<1> QED
  BY <1>0, <1>1, <1>2, <1>3, <1>4, <1>5 DEF IndInv

\* A justified write takes the lock and leaves the others.
LEMMA WriteInv ==
    ASSUME IndInv, TypeOK', NEW p \in Req, NEW k \in Key, NEW row \in Row,
           InFlight(p), CanWrite(p, k), Write(p, k, row), k \in Between(p),
           UNCHANGED <<tables, call, applied, noted>>,
           pc'[p] \in Statement, \A q \in Req \ {p} : pc'[q] = pc[q],
           Justified(p, k, row)
    PROVE  /\ LockInv'
           /\ \A j \in Key, q \in Req : lock[j] = q => lock'[j] = q
           /\ lock'[k] = p
<1>0. TypeOK /\ UNCHANGED <<friendships, call>> /\ p # None
  BY DEF IndInv, tables
<1>1. /\ lock'[k] = p /\ dirty'[k] = row
      /\ \A j \in Key \ {k} : lock'[j] = lock[j] /\ dirty'[j] = dirty[j]
  BY <1>0 DEF TypeOK, Write
<1>2. LockInv'
  <2> SUFFICES ASSUME NEW j \in Key, NEW q \in Req, lock'[j] = q
               PROVE  /\ pc'[q] \in Statement /\ j \in Between(q)
                      /\ Justified(q, j, dirty'[j])
    BY <1>0 DEF LockInv, InFlight, Between, Justified, Me, Them, TypeOK
  <2>1. CASE j = k
    BY <1>1, <2>1
  <2>2. CASE j # k
    <3>1. lock[j] = q /\ dirty'[j] = dirty[j]
      BY <1>1, <2>2
    <3>2. InFlight(q) /\ j \in Between(q) /\ Justified(q, j, dirty[j])
      BY <3>1 DEF IndInv, LockInv
    <3> QED
      BY <3>1, <3>2 DEF InFlight
  <2> QED
    BY <2>1, <2>2
<1> QED
  BY <1>1, <1>2 DEF CanWrite

\* What a step that leaves the tables, the arguments and the applied requests alone
\* cannot disturb.
LEMMA QuietInv ==
    ASSUME IndInv, UNCHANGED <<tables, call, applied>>
    PROVE  RowInv' /\ NoticeInv' /\ Consent' /\ DeniedRowIsGone'
BY DEF IndInv, RowInv, NoticeInv, Consent, DeniedRowIsGone, NotificationOf, SameNotice, Accepted,
       Asked, Me, Them, tables

\* The keys of the row that p answers: the one its asker inserted.
LEMMA AnsweredKey ==
    ASSUME IndInv, NEW p \in Req, InFlight(p), call[p].op \in {"accept", "deny"},
           NEW k \in KeysOf(call[p].ref)
    PROVE  /\ k = <<Them(p), Me(p)>> /\ k \in Key /\ friendships[k] # Absent
           /\ friendships[k].id = call[p].ref
<1>1. k \in Key /\ friendships[k] # Absent /\ friendships[k].id = call[p].ref
  BY DEF KeysOf
<1>2. Asked(call[p].ref, Them(p), Me(p))
  BY DEF IndInv, CallInv
<1>3. k = <<Me(call[p].ref), Them(call[p].ref)>>
  BY <1>1 DEF IndInv, RowInv
<1> QED
  BY <1>1, <1>2, <1>3 DEF Asked

\* A statement that moves p on with its locks kept or grown.
LEMMA MoveInv ==
    ASSUME IndInv, TypeOK', LockInv', NEW p \in Req, InFlight(p),
           UNCHANGED <<tables, call, applied>>, noted \subseteq noted',
           \A q \in Req \ {p} : pc'[q] = pc[q],
           \A j \in Key, q \in Req : lock[j] = q => lock'[j] = q,
           \A q \in Req \ {p} : targets'[q] = targets[q],
           targets'[p] \subseteq targets[p],
           targets'[p] # {} => pc'[p] = "visit",
           \/ pc'[p] = "reciprocal" /\ call[p].op = "accept"
           \/ pc'[p] = "visit" /\ call[p].op = "remove"
           \/ pc'[p] = "note" /\ call[p].op \in {"send", "accept", "deny"}
           \/ pc'[p] = "commit",
           pc'[p] \in {"note", "commit"} /\ call[p].op \in {"send", "accept"} =>
               <<Me(p), Them(p)>> \in Key /\ lock'[<<Me(p), Them(p)>>] = p,
           pc'[p] \in {"reciprocal", "note", "commit"} /\ call[p].op \in {"accept", "deny"} =>
               \A k \in KeysOf(call[p].ref) : lock'[k] = p,
           pc'[p] = "commit" /\ call[p].op = "send" => p \in noted'
    PROVE  IndInv'
<1>1. RowInv' /\ NoticeInv' /\ Consent' /\ DeniedRowIsGone'
  BY QuietInv
<1>2. CallInv'
  BY DEF IndInv, TypeOK, CallInv, InFlight, Statement, Asked, Me, Them
<1>3. ProgressInv'
  <2> SUFFICES ASSUME NEW q \in Req
               PROVE  /\ pc'[q] \in {"note", "commit"} /\ call[q].op \in {"send", "accept"} =>
                             <<Me(q), Them(q)>> \in Key /\ lock'[<<Me(q), Them(q)>>] = q
                      /\ \/ pc'[q] \in {"reciprocal", "note", "commit"} /\ call[q].op = "accept"
                         \/ pc'[q] \in {"note", "commit"} /\ call[q].op = "deny"
                         => \A k \in KeysOf(call[q].ref) : lock'[k] = q
                      /\ pc'[q] = "commit" /\ call[q].op = "send" => q \in noted'
    BY DEF ProgressInv, Holds, KeysOf, Me, Them, tables
  <2>1. CASE q = p
    BY <2>1
  <2>2. CASE q # p
    <3>1. pc'[q] = pc[q]
      BY <2>2
    <3> QED
      BY <3>1 DEF IndInv, ProgressInv, Holds, KeysOf
  <2> QED
    BY <2>1, <2>2
<1>4. TargetInv'
  BY DEF IndInv, TargetInv, Between, Me, Them
<1> QED
  BY <1>1, <1>2, <1>3, <1>4 DEF IndInv

\* Every statement of a transaction keeps the invariant.
LEMMA StatementStep ==
    ASSUME IndInv, NEW p \in Req,
           \/ InsertRequest(p) \/ UpdateAccepted(p) \/ UpsertReciprocal(p)
           \/ DeleteDenied(p) \/ DeleteTarget(p) \/ DeleteEnds(p) \/ WriteNotification(p)
           \/ NotificationFails(p) \/ NotificationCancelled(p)
    PROVE  IndInv'
<1>0. TypeOK /\ TypeOK' /\ p # None
  BY ProceedType, DisturbType DEF IndInv, Proceed, Disturb
<1> DEFINE mine == <<Me(p), Them(p)>>
<1>t. pc[p] # "visit" => targets[p] = {}
  BY DEF IndInv, TargetInv
<1>k. call[p].op \in {"send", "accept", "deny"} /\ InFlight(p) =>
          mine \in Key /\ mine \in Between(p) /\ <<Them(p), Me(p)>> \in Between(p)
  BY DEF IndInv, CallInv, Between
<1>q. ASSUME UNCHANGED lock, UNCHANGED dirty, UNCHANGED tables, UNCHANGED call,
             pc'[p] \in Statement, \A q \in Req \ {p} : pc'[q] = pc[q]
      PROVE  LockInv'
  BY <1>q DEF IndInv, TypeOK, LockInv, Justified, InFlight, Between, Me, Them, tables
<1>1. CASE InsertRequest(p)
  <2>0. InFlight(p) /\ call[p].op = "send"
    BY <1>1 DEF IndInv, CallInv, InsertRequest, InFlight, Statement
  <2>1. CASE RollBack(p, "error")
    BY <2>0, <2>1, RollBackInv DEF Reply
  <2>2. CASE ~ RollBack(p, "error")
    <3> DEFINE row == [id |-> p, status |-> "pending"]
    <3>1. /\ CanWrite(p, mine) /\ friendships[mine] = Absent /\ Write(p, mine, row)
          /\ UNCHANGED <<tables, call, targets, noted, applied>>
          /\ pc' = [pc EXCEPT ![p] = "note"]
      BY <1>1, <2>2 DEF InsertRequest, Goto
    <3>2. row \in Row /\ Justified(p, mine, row)
      BY <2>0, <3>1 DEF Row, Justified
    <3>3. pc'[p] = "note" /\ \A q \in Req \ {p} : pc'[q] = pc[q]
      BY <1>0, <3>1 DEF TypeOK
    <3> HIDE DEF row, mine
    <3>4. /\ LockInv' /\ lock'[mine] = p
          /\ \A j \in Key, q \in Req : lock[j] = q => lock'[j] = q
      BY <1>0, <1>k, <2>0, <3>1, <3>2, <3>3, WriteInv DEF Statement
    <3>5. pc[p] = "insert"
      BY <1>1 DEF InsertRequest
    <3> QED
      BY <1>0, <1>t, <1>k, <2>0, <3>1, <3>3, <3>4, <3>5, MoveInv DEF mine
  <2> QED
    BY <2>1, <2>2
<1>2. CASE UpdateAccepted(p)
  <2>0. InFlight(p) /\ call[p].op = "accept" /\ pc[p] = "update"
    BY <1>2 DEF IndInv, CallInv, UpdateAccepted, InFlight, Statement
  <2>1. /\ UNCHANGED <<tables, call, targets, noted, applied>>
        /\ pc'[p] = "reciprocal" /\ \A q \in Req \ {p} : pc'[q] = pc[q]
    BY <1>0, <1>2 DEF UpdateAccepted, Goto, TypeOK
  <2>2. /\ LockInv' /\ \A j \in Key, q \in Req : lock[j] = q => lock'[j] = q
        /\ \A k \in KeysOf(call[p].ref) : lock'[k] = p
    <3>1. CASE KeysOf(call[p].ref) = {} /\ UNCHANGED <<lock, dirty>>
      BY <1>q, <2>1, <3>1 DEF Statement
    <3>2. ASSUME NEW k \in KeysOf(call[p].ref),
                 Write(p, k, [id |-> call[p].ref, status |-> "accepted"])
          PROVE  /\ LockInv' /\ \A j \in Key, q \in Req : lock[j] = q => lock'[j] = q
                 /\ \A j \in KeysOf(call[p].ref) : lock'[j] = p
      <4> DEFINE row == [id |-> call[p].ref, status |-> "accepted"]
      <4>1. /\ k = <<Them(p), Me(p)>> /\ k \in Key /\ friendships[k] # Absent
            /\ friendships[k].id = call[p].ref /\ CanWrite(p, k)
            /\ \A j \in KeysOf(call[p].ref) : j = k
        BY <1>2, <2>0, <3>2, AnsweredKey DEF UpdateAccepted
      <4>2. row \in Row /\ Justified(p, k, row)
        BY <1>0, <2>0, <4>1 DEF Row, Justified, TypeOK, Absent
      <4> HIDE DEF row
      <4>3. Write(p, k, row)
        BY <3>2 DEF row
      <4> QED
        BY <1>0, <1>k, <2>0, <2>1, <4>1, <4>2, <4>3, WriteInv DEF Statement
    <3> QED
      BY <1>2, <3>1, <3>2 DEF UpdateAccepted
  <2> QED
    BY <1>0, <1>t, <2>0, <2>1, <2>2, MoveInv
<1>3. CASE UpsertReciprocal(p)
  <2>0. InFlight(p) /\ call[p].op = "accept" /\ pc[p] = "reciprocal"
    BY <1>3 DEF IndInv, CallInv, UpsertReciprocal, InFlight, Statement
  <2>1. /\ UNCHANGED <<tables, call, targets, noted, applied>>
        /\ pc'[p] = "note" /\ \A q \in Req \ {p} : pc'[q] = pc[q]
    BY <1>0, <1>3 DEF UpsertReciprocal, Goto, TypeOK
  <2> DEFINE row == IF Found(p, mine) = Absent THEN [id |-> p, status |-> "accepted"]
                    ELSE [Found(p, mine) EXCEPT !.status = "accepted"]
  <2>2. CanWrite(p, mine) /\ Write(p, mine, row)
    BY <1>3 DEF UpsertReciprocal
  <2>3. row \in Row /\ Justified(p, mine, row)
    <3>1. mine \in Key /\ Found(p, mine) \in Row
      BY <1>0, <1>k, <2>0 DEF TypeOK, Found
    <3>2. lock[mine] = p => Justified(p, mine, dirty[mine])
      BY <1>0, <3>1 DEF IndInv, LockInv
    <3> QED
      BY <1>0, <2>0, <3>1, <3>2 DEF Justified, Found, Row, Absent
  <2> HIDE DEF row, mine
  <2>4. /\ LockInv' /\ lock'[mine] = p
        /\ \A j \in Key, q \in Req : lock[j] = q => lock'[j] = q
    BY <1>0, <1>k, <2>0, <2>1, <2>2, <2>3, WriteInv DEF Statement
  <2>5. \A k \in KeysOf(call[p].ref) : k \in Key /\ lock[k] = p
    BY <2>0 DEF IndInv, ProgressInv, KeysOf
  <2> QED
    BY <1>0, <1>t, <1>k, <2>0, <2>1, <2>4, <2>5, MoveInv DEF mine
<1>4. CASE DeleteDenied(p)
  <2>0. InFlight(p) /\ call[p].op = "deny" /\ pc[p] = "delete"
    BY <1>4 DEF IndInv, CallInv, DeleteDenied, InFlight, Statement
  <2>1. /\ UNCHANGED <<tables, call, targets, noted, applied>>
        /\ pc'[p] = "note" /\ \A q \in Req \ {p} : pc'[q] = pc[q]
    BY <1>0, <1>4 DEF DeleteDenied, Goto, TypeOK
  <2>2. /\ LockInv' /\ \A j \in Key, q \in Req : lock[j] = q => lock'[j] = q
        /\ \A k \in KeysOf(call[p].ref) : lock'[k] = p
    <3>1. CASE KeysOf(call[p].ref) = {} /\ UNCHANGED <<lock, dirty>>
      BY <1>q, <2>1, <3>1 DEF Statement
    <3>2. ASSUME NEW k \in KeysOf(call[p].ref), Write(p, k, Absent)
          PROVE  /\ LockInv' /\ \A j \in Key, q \in Req : lock[j] = q => lock'[j] = q
                 /\ \A j \in KeysOf(call[p].ref) : lock'[j] = p
      <4>1. /\ k = <<Them(p), Me(p)>> /\ k \in Key /\ friendships[k] # Absent
            /\ CanWrite(p, k) /\ \A j \in KeysOf(call[p].ref) : j = k
        BY <1>4, <2>0, <3>2, AnsweredKey DEF DeleteDenied
      <4>2. Absent \in Row /\ Justified(p, k, Absent)
        BY <2>0, <4>1 DEF Row, Justified
      <4> QED
        BY <1>0, <1>k, <2>0, <2>1, <3>2, <4>1, <4>2, WriteInv DEF Statement
    <3> QED
      BY <1>4, <3>1, <3>2 DEF DeleteDenied
  <2> QED
    BY <1>0, <1>t, <2>0, <2>1, <2>2, MoveInv
<1>5. CASE DeleteTarget(p)
  <2>0. InFlight(p) /\ call[p].op = "remove" /\ pc[p] = "visit"
    BY <1>5 DEF IndInv, CallInv, DeleteTarget, InFlight, Statement
  <2>1. /\ UNCHANGED <<tables, pc, call, noted, applied>>
        /\ \A q \in Req \ {p} : targets'[q] = targets[q]
        /\ targets'[p] \subseteq targets[p]
    BY <1>0, <1>5 DEF DeleteTarget, TypeOK
  <2>2. LockInv' /\ \A j \in Key, q \in Req : lock[j] = q => lock'[j] = q
    <3>1. CASE UNCHANGED <<lock, dirty>>
      BY <1>q, <2>0, <2>1, <3>1 DEF InFlight
    <3>2. ASSUME NEW t \in targets[p], friendships[t[1]].id = t[2], CanWrite(p, t[1]),
                 Write(p, t[1], Absent)
          PROVE  LockInv' /\ \A j \in Key, q \in Req : lock[j] = q => lock'[j] = q
      <4>1. t[1] \in Key /\ t[2] \in Req /\ t[1] \in Between(p)
        BY <1>0, <3>2 DEF IndInv, TypeOK, TargetInv
      <4>2. Absent \in Row /\ Justified(p, t[1], Absent)
        BY <1>0, <2>0, <3>2, <4>1 DEF Row, Justified, Absent
      <4> QED
        BY <1>0, <2>0, <2>1, <3>2, <4>1, <4>2, WriteInv DEF InFlight
    <3> QED
      BY <1>5, <3>1, <3>2 DEF DeleteTarget
  <2> QED
    BY <1>0, <2>0, <2>1, <2>2, MoveInv
<1>6. CASE DeleteEnds(p)
  <2>0. InFlight(p) /\ call[p].op = "remove" /\ targets[p] = {}
    BY <1>6 DEF IndInv, CallInv, DeleteEnds, InFlight, Statement
  <2>1. CASE RollBack(p, "notFound")
    BY <2>0, <2>1, RollBackInv DEF Reply
  <2>2. CASE ~ RollBack(p, "notFound")
    <3>1. /\ UNCHANGED <<tables, lock, dirty, call, targets, noted, applied>>
          /\ pc'[p] = "commit" /\ \A q \in Req \ {p} : pc'[q] = pc[q]
      BY <1>0, <1>6, <2>2 DEF DeleteEnds, Goto, TypeOK
    <3>2. LockInv'
      BY <1>q, <3>1 DEF Statement
    <3> QED
      BY <1>0, <2>0, <3>1, <3>2, MoveInv
  <2> QED
    BY <2>1, <2>2
<1>7. CASE WriteNotification(p) \/ NotificationFails(p) \/ NotificationCancelled(p)
  <2>0. InFlight(p) /\ call[p].op \in {"send", "accept", "deny"} /\ pc[p] = "note"
    BY <1>7 DEF IndInv, CallInv, WriteNotification, NotificationFails,
                NotificationCancelled, InFlight, Statement
  <2>1. /\ UNCHANGED <<tables, lock, dirty, call, targets, applied>> /\ noted \subseteq noted'
        /\ pc'[p] = "commit" /\ \A q \in Req \ {p} : pc'[q] = pc[q]
        /\ call[p].op = "send" => p \in noted'
    BY <1>0, <1>7 DEF WriteNotification, NotificationFails, NotificationCancelled, Goto, TypeOK
  <2>2. LockInv'
    BY <1>q, <2>1 DEF Statement
  <2>3. /\ call[p].op \in {"send", "accept"} => mine \in Key /\ lock[mine] = p
        /\ call[p].op \in {"accept", "deny"} => \A k \in KeysOf(call[p].ref) : lock[k] = p
    BY <2>0 DEF IndInv, ProgressInv, Holds
  <2> QED
    BY <1>0, <1>t, <2>0, <2>1, <2>2, <2>3, MoveInv
<1> QED
  BY <1>1, <1>2, <1>3, <1>4, <1>5, <1>6, <1>7

\* What a commit publishes: the justified rows of its own locks, and nothing else.
LEMMA CommitRows ==
    ASSUME IndInv, NEW p \in Req, Commit(p)
    PROVE  /\ InFlight(p) /\ p \notin applied /\ applied' = applied \cup {p}
           /\ UNCHANGED <<call, noted>>
           /\ pc'[p] = "done" /\ \A q \in Req \ {p} : pc'[q] = pc[q]
           /\ \A k \in Key : lock[k] = p =>
                  /\ friendships'[k] = dirty[k] /\ lock'[k] = None
                  /\ k \in Between(p) /\ Justified(p, k, dirty[k])
           /\ \A k \in Key : lock[k] # p =>
                  /\ friendships'[k] = friendships[k]
                  /\ lock'[k] = lock[k] /\ dirty'[k] = dirty[k]
<1>1. InFlight(p) /\ p \notin applied
  BY DEF IndInv, CallInv, Commit, InFlight, Statement
<1> QED
  BY <1>1, NullAssumption DEF IndInv, TypeOK, LockInv, Commit, Release, Answer, Goto

\* Every row a commit leaves is one it found, accepted perhaps, or one it inserted.
LEMMA CommitIds ==
    ASSUME IndInv, NEW p \in Req, Commit(p), NEW k \in Key, friendships'[k] # Absent
    PROVE  \/ friendships[k] # Absent /\ friendships'[k].id = friendships[k].id
           \/ friendships'[k].id = p /\ k = <<Me(p), Them(p)>>
<1>1. CASE lock[k] = p
  <2>1. friendships'[k] = dirty[k] /\ Justified(p, k, dirty[k])
    BY <1>1, CommitRows
  <2> QED
    BY <2>1 DEF Justified
<1>2. CASE lock[k] # p
  BY <1>2, CommitRows
<1> QED
  BY <1>1, <1>2

\* A commit keeps the invariant.
LEMMA CommitStep ==
    ASSUME IndInv, NEW p \in Req, Commit(p)
    PROVE  IndInv'
<1>0. TypeOK /\ TypeOK' /\ p # None
  BY ProceedType DEF IndInv, Proceed
<1>c. /\ InFlight(p) /\ p \notin applied /\ applied' = applied \cup {p}
      /\ UNCHANGED <<call, noted>>
      /\ pc'[p] = "done" /\ \A q \in Req \ {p} : pc'[q] = pc[q]
  BY CommitRows
<1>w. ASSUME NEW k \in Key, lock[k] = p
      PROVE  /\ friendships'[k] = dirty[k] /\ lock'[k] = None
             /\ k \in Between(p) /\ Justified(p, k, dirty[k])
  BY <1>w, CommitRows
<1>u. ASSUME NEW k \in Key, lock[k] # p
      PROVE  /\ friendships'[k] = friendships[k]
             /\ lock'[k] = lock[k] /\ dirty'[k] = dirty[k]
  BY <1>u, CommitRows
<1>1. /\ \A s \in Req, u, f \in User : Asked(s, u, f) => Asked(s, u, f)'
      /\ \A a, s \in Req, u, f \in User : Accepted(a, s, u, f) => Accepted(a, s, u, f)'
  BY <1>c, <1>w, <1>u DEF Asked, Accepted, Me, Them
<1>2. CallInv'
  BY <1>0, <1>c, <1>w, <1>u DEF IndInv, CallInv, InFlight, Statement, Asked, Me, Them
<1>3. RowInv'
  <2> SUFFICES ASSUME NEW k \in Key, friendships'[k] # Absent
               PROVE  LET s == friendships'[k].id IN
                      /\ s \in applied' /\ k = <<Me(s), Them(s)>>
                      /\ friendships'[k].status = "pending" => call[s].op = "send"
    BY <1>c, <1>w, <1>u DEF RowInv, Me, Them
  <2>1. CASE lock[k] = p
    <3>1. Justified(p, k, friendships'[k])
      BY <1>w, <2>1
    <3>2. friendships[k] # Absent => LET s == friendships[k].id IN
                                     s \in applied /\ k = <<Me(s), Them(s)>>
      BY DEF IndInv, RowInv
    <3> QED
      BY <1>c, <3>1, <3>2 DEF Justified
  <2>2. CASE lock[k] # p
    BY <2>2, <1>c, <1>w, <1>u DEF IndInv, RowInv
  <2> QED
    BY <2>1, <2>2
<1>4. LockInv'
  <2> SUFFICES ASSUME NEW k \in Key, NEW q \in Req, lock'[k] = q
               PROVE  /\ pc'[q] \in Statement /\ k \in Between(q)
                      /\ friendships'[k] = friendships[k] /\ Justified(q, k, dirty'[k])
    BY <1>0, <1>c DEF TypeOK, LockInv, Justified, InFlight, Between, Me, Them
  <2>1. lock[k] # p
    BY <1>0, <1>w, NullAssumption
  <2>2. lock[k] = q /\ q # p /\ dirty'[k] = dirty[k] /\ friendships'[k] = friendships[k]
    BY <1>u, <2>1
  <2>3. InFlight(q) /\ k \in Between(q) /\ Justified(q, k, dirty[k])
    BY <2>2 DEF IndInv, LockInv
  <2> QED
    BY <1>c, <2>2, <2>3 DEF InFlight
<1>5. ProgressInv'
  <2> SUFFICES ASSUME NEW q \in Req, q # p
               PROVE  /\ pc[q] \in {"note", "commit"} /\ call[q].op \in {"send", "accept"} =>
                             <<Me(q), Them(q)>> \in Key /\ lock'[<<Me(q), Them(q)>>] = q
                      /\ \/ pc[q] \in {"reciprocal", "note", "commit"} /\ call[q].op = "accept"
                         \/ pc[q] \in {"note", "commit"} /\ call[q].op = "deny"
                         => \A k \in Key : friendships'[k].id = call[q].ref
                                           /\ friendships'[k] # Absent => lock'[k] = q
                      /\ pc[q] = "commit" /\ call[q].op = "send" => q \in noted
    BY <1>c, <1>w, <1>u DEF ProgressInv, Holds, KeysOf, Me, Them
  <2>1. \A k \in Key : lock[k] = q => lock'[k] = q
    BY <1>u, <1>0
  <2>2. InFlight(q) /\ call[q].op \in {"accept", "deny"} => call[q].ref # p
    BY <1>c, <1>w, <1>u DEF IndInv, CallInv, Asked
  <2>3. InFlight(q) /\ call[q].op \in {"accept", "deny"} =>
            \A k \in Key : friendships'[k].id = call[q].ref /\ friendships'[k] # Absent =>
                               k \in KeysOf(call[q].ref)
    BY <2>2, CommitIds DEF KeysOf
  <2>4. \A k : k \in KeysOf(call[q].ref) => k \in Key
    BY DEF KeysOf
  <2>5. pc[q] \in {"reciprocal", "note", "commit"} => InFlight(q)
    BY DEF InFlight, Statement
  <2> QED
    BY <2>1, <2>3, <2>4, <2>5 DEF IndInv, ProgressInv, Holds
<1>6. TargetInv'
  BY <1>0, <1>c, <1>w, <1>u DEF IndInv, TypeOK, TargetInv, Commit, Release, Between, Me, Them
<1>7. NoticeInv'
  <2> SUFFICES ASSUME NEW n \in Req
               PROVE  /\ n \in applied' /\ call[n].op = "send" => notifications'[n].type # "none"
                      /\ notifications'[n].type # "none" =>
                             /\ n \in applied' /\ call[n].op \in {"send", "accept"}
                             /\ SameNotice(notifications'[n], NotificationOf(n))
    BY <1>c, <1>w, <1>u DEF NoticeInv, NotificationOf, SameNotice, Me, Them
  <2>1. CASE notifications' = notifications
    <3>1. call[p].op = "send" => p \in noted
      BY DEF IndInv, ProgressInv, Commit
    <3>2. p \in noted /\ call[p].op = "send" => notifications'[p] = NotificationOf(p)
      BY <1>0 DEF Commit, NotificationsAfter, TypeOK
    <3> QED
      BY <2>1, <3>1, <3>2, <1>c, <1>w, <1>u DEF IndInv, NoticeInv, NotificationOf, SameNotice
  <2>2. CASE notifications' = NotificationsAfter(p) /\ call[p].op \in {"send", "accept"}
    <3>1. notifications'[p] = NotificationOf(p)
      BY <1>0, <2>2 DEF NotificationsAfter, TypeOK
    <3>2. CASE n = p
      <4>1. NotificationOf(p).type # "none"
        BY DEF NotificationOf
      <4> QED
        BY <2>2, <3>1, <3>2, <4>1, <1>c DEF SameNotice
    <3>3. CASE n # p
      <4>1. notifications'[n] = notifications[n]
        BY <1>0, <2>2, <3>3 DEF NotificationsAfter, TypeOK
      <4> QED
        BY <3>3, <4>1, <1>c, <1>w, <1>u DEF IndInv, NoticeInv
    <3> QED
      BY <3>2, <3>3
  <2>3. CASE notifications' = NotificationsAfter(p) /\ call[p].op \notin {"send", "accept"}
    <3>0. notifications[n] \in Notification
      BY <1>0 DEF TypeOK
    <3>1. \/ notifications'[n] = notifications[n]
          \/ notifications'[n] = [notifications[n] EXCEPT !.read = TRUE]
      BY <2>3 DEF NotificationsAfter
    <3>2. notifications'[n].type = notifications[n].type
      BY <3>0, <3>1 DEF Notification
    <3>3. SameNotice(notifications'[n], notifications[n])
      BY <3>0, <3>1 DEF Notification, SameNotice
    <3> QED
      BY <2>3, <3>2, <3>3, <1>c DEF IndInv, NoticeInv, SameNotice
  <2> QED
    BY <2>1, <2>2, <2>3 DEF Commit
<1>8. Consent'
  <2> SUFFICES ASSUME NEW k \in Key, friendships'[k].status = "accepted"
               PROVE  \E a, s \in Req : \/ Accepted(a, s, k[1], k[2])'
                                        \/ Accepted(a, s, k[2], k[1])'
    BY DEF Consent
  <2>0. k[1] \in User /\ k[2] \in User
    BY DEF Key
  <2>1. CASE lock[k] = p
    <3>0. dirty[k].status = "accepted" /\ Justified(p, k, dirty[k]) /\ k \in Between(p)
      BY <2>1, <1>w
    <3>1. call[p].op = "accept" /\ k \in Between(p)
      BY <3>0 DEF Justified, Absent
    <3>2. Asked(call[p].ref, Them(p), Me(p)) /\ p \in applied'
      BY <3>1, <1>c, <1>w, <1>u DEF IndInv, CallInv
    <3>3. PICK s \in Req : s = call[p].ref
      BY <1>0, <3>2 DEF Asked, TypeOK
    <3>4. CASE Them(p) = k[1] /\ Me(p) = k[2]
      <4>1. Accepted(p, s, k[1], k[2])'
        BY <3>1, <3>2, <3>3, <3>4, <1>c DEF Accepted, Asked, Me, Them
      <4> QED
        BY <4>1
    <3>5. CASE Them(p) = k[2] /\ Me(p) = k[1]
      <4>1. Accepted(p, s, k[2], k[1])'
        BY <3>1, <3>2, <3>3, <3>5, <1>c DEF Accepted, Asked, Me, Them
      <4> QED
        BY <4>1
    <3> QED
      BY <3>1, <3>4, <3>5 DEF Between
  <2>2. CASE lock[k] # p
    <3>1. friendships[k].status = "accepted"
      BY <2>2, <1>u
    <3>2. PICK a \in Req, s \in Req : Accepted(a, s, k[1], k[2]) \/ Accepted(a, s, k[2], k[1])
      BY <3>1 DEF IndInv, Consent
    <3>3. CASE Accepted(a, s, k[1], k[2])
      <4>1. Accepted(a, s, k[1], k[2])'
        BY <1>c, <3>3 DEF Accepted, Asked, Me, Them
      <4> QED
        BY <4>1
    <3>4. CASE Accepted(a, s, k[2], k[1])
      <4>1. Accepted(a, s, k[2], k[1])'
        BY <1>c, <3>4 DEF Accepted, Asked, Me, Them
      <4> QED
        BY <4>1
    <3> QED
      BY <3>2, <3>3, <3>4
  <2> QED
    BY <2>1, <2>2
<1>9. DeniedRowIsGone'
  <2> SUFFICES ASSUME NEW q \in applied', call[q].op = "deny", NEW k \in Key,
                      friendships'[k].id = call[q].ref
               PROVE  FALSE
    BY <1>c, <1>w, <1>u DEF DeniedRowIsGone
  <2>1. Asked(call[q].ref, Them(q), Me(q)) /\ q \in Req
    BY <1>0, <1>c, <1>w, <1>u DEF IndInv, CallInv, TypeOK
  <2>2. call[q].ref \in Req /\ call[q].ref \in applied /\ call[q].ref # p
    BY <1>0, <2>1, <1>c, <1>w, <1>u DEF Asked, TypeOK
  <2>3. friendships'[k] # Absent
    BY <2>2 DEF Absent
  <2>4. friendships[k] # Absent /\ friendships[k].id = call[q].ref
    BY <2>2, <2>3, CommitIds
  <2>5. CASE q = p
    <3>1. lock[k] = p
      BY <2>4, <2>5 DEF IndInv, ProgressInv, KeysOf, Commit
    <3> QED
      BY <2>3, <2>5, <3>1, <1>c, <1>w, <1>u DEF Justified
  <2>6. CASE q # p
    BY <2>4, <2>6, <1>c, <1>w, <1>u DEF IndInv, DeniedRowIsGone
  <2> QED
    BY <2>5, <2>6
<1> QED
  BY <1>0, <1>2, <1>3, <1>4, <1>5, <1>6, <1>7, <1>8, <1>9 DEF IndInv

\* Every step keeps the invariant.
LEMMA NextInv == IndInv /\ [Next]_vars => IndInv'
<1> SUFFICES ASSUME IndInv, [Next]_vars PROVE IndInv'
  OBVIOUS
<1>1. ASSUME NEW p \in Req, Receive(p) PROVE IndInv'
  BY <1>1, ReceiveStep
<1>2. ASSUME NEW p \in Req, Proceed(p) PROVE IndInv'
  <2>1. CASE Commit(p)
    BY <2>1, CommitStep
  <2>2. CASE CommitAborted(p)
    BY <2>2, RollBackInv DEF CommitAborted, InFlight, Statement, Reply
  <2>3. CASE DeadlockVictim(p)
    <3>1. InFlight(p)
      BY <2>3 DEF DeadlockVictim, WaitsFor, Wanted, InFlight, Statement
    <3> QED
      BY <2>3, <3>1, RollBackInv DEF DeadlockVictim, Reply
  <2> QED
    BY <1>2, <2>1, <2>2, <2>3, StatementStep DEF Proceed
<1>3. ASSUME NEW p \in Req, Disturb(p) PROVE IndInv'
  BY <1>3, StatementStep, RollBackInv DEF Disturb, Fail, Reply
<1> QED
  BY <1>1, <1>2, <1>3, StutterInv DEF Next, AllServed

\* However the statements of the friendship requests interleave, and wherever they are cut
\* off, what is written, locked and published is what their arguments justify.
THEOREM Inductive == Spec => []IndInv
BY InitInv, NextInv, PTL DEF Spec

----------------------------------------------------------------------------
(* What follows. *)

\* No friendship without the consent of both: AcceptFriendRequest and the statements it
\* races with never publish an accepted row that one of the two did not agree to.
THEOREM ConsentHolds == Spec => []Consent
<1>1. IndInv => Consent
  BY DEF IndInv
<1> QED
  BY <1>1, Inductive, PTL

\* A denied row never comes back, whatever an acceptance has read before.
THEOREM DenialIsFinal == Spec => []DeniedRowIsGone
<1>1. IndInv => DeniedRowIsGone
  BY DEF IndInv
<1> QED
  BY <1>1, Inductive, PTL

\* The pending row and its notification are there together.
THEOREM PendingNotified == Spec => []PendingIsNotified
<1>1. IndInv => PendingIsNotified
  <2> SUFFICES ASSUME IndInv, NEW k \in Key, friendships[k].status = "pending"
               PROVE  LET s == friendships[k].id IN
                      /\ Asked(s, k[1], k[2])
                      /\ notifications[s].type = "friend_request"
                      /\ notifications[s].user = k[2] /\ notifications[s].from = k[1]
                      /\ notifications[s].ref = s
    BY DEF PendingIsNotified
  <2> DEFINE s == friendships[k].id
  <2>1. s \in applied /\ k = <<Me(s), Them(s)>> /\ call[s].op = "send" /\ s \in Req
    BY DEF IndInv, TypeOK, RowInv, Absent
  <2>2. SameNotice(notifications[s], NotificationOf(s))
    BY <2>1 DEF IndInv, NoticeInv
  <2> QED
    BY <2>1, <2>2 DEF Asked, SameNotice, NotificationOf
<1> QED
  BY <1>1, Inductive, PTL

\* An acceptance notice tells of an acceptance that took effect.
THEOREM AcceptanceNoticeTrue == Spec => []AcceptanceNoticeIsTrue
<1>1. IndInv => AcceptanceNoticeIsTrue
  <2> SUFFICES ASSUME IndInv, NEW n \in Req, notifications[n].type = "friend_accepted"
               PROVE  Accepted(n, notifications[n].ref, notifications[n].user,
                               notifications[n].from)
    BY DEF AcceptanceNoticeIsTrue
  <2>1. /\ n \in applied /\ call[n].op \in {"send", "accept"}
        /\ SameNotice(notifications[n], NotificationOf(n))
    BY DEF IndInv, NoticeInv
  <2>2. /\ call[n].op = "accept" /\ notifications[n].ref = call[n].ref
        /\ notifications[n].user = Them(n) /\ notifications[n].from = Me(n)
    BY <2>1 DEF SameNotice, NotificationOf
  <2>3. Asked(call[n].ref, Them(n), Me(n))
    BY <2>1, <2>2 DEF IndInv, CallInv
  <2> QED
    BY <2>1, <2>2, <2>3 DEF Accepted
<1> QED
  BY <1>1, Inductive, PTL

\* The tables and the applied requests change by a commit only.
LEMMA OnlyCommitApplies ==
    ASSUME [Next]_vars
    PROVE  (\E p \in Req : Commit(p)) \/ UNCHANGED <<friendships, notifications, applied>>
<1>1. ASSUME NEW p \in Req, Receive(p)
      PROVE  UNCHANGED <<friendships, notifications, applied>>
  BY <1>1 DEF Receive, SendFriendRequest, AcceptFriendRequest, DenyFriendRequest,
              AnswerFriendRequest, RemoveFriend,
              MarkNotificationRead, tables
<1>2. ASSUME NEW p \in Req, Proceed(p), ~ Commit(p)
      PROVE  UNCHANGED <<friendships, notifications, applied>>
  <2>1. CASE InsertRequest(p) \/ UpdateAccepted(p) \/ UpsertReciprocal(p)
    BY <2>1 DEF InsertRequest, UpdateAccepted, UpsertReciprocal, RollBack, tables
  <2>2. CASE DeleteDenied(p) \/ DeleteTarget(p) \/ DeleteEnds(p)
    BY <2>2 DEF DeleteDenied, DeleteTarget, DeleteEnds, RollBack, tables
  <2>3. CASE WriteNotification(p) \/ CommitAborted(p) \/ DeadlockVictim(p)
    BY <2>3 DEF WriteNotification, CommitAborted, DeadlockVictim, RollBack, tables
  <2> QED
    BY <1>2, <2>1, <2>2, <2>3 DEF Proceed
<1>3. ASSUME NEW p \in Req, Disturb(p)
      PROVE  UNCHANGED <<friendships, notifications, applied>>
  BY <1>3 DEF Disturb, NotificationFails, NotificationCancelled, Fail, RollBack, tables
<1> QED
  BY <1>1, <1>2, <1>3 DEF Next, AllServed, vars

\* A step that changes a row is the commit that publishes it.
LEMMA OnlyCommitPublishes ==
    ASSUME IndInv, [Next]_vars, NEW k \in Key, friendships'[k] # friendships[k]
    PROVE  \E p \in Req : Commit(p) /\ lock[k] = p
<1>1. PICK p \in Req : Commit(p)
  BY OnlyCommitApplies
<1>2. lock[k] = p
  BY <1>1, CommitRows
<1> QED
  BY <1>1, <1>2

\* A friendship never falls back to a request.
THEOREM FriendshipStays == Spec => NeverBackToPending
<1>1. IndInv /\ [Next]_vars =>
          [\A k \in Key : friendships[k].status = "accepted" =>
               friendships'[k].status # "pending"]_vars
  <2> SUFFICES ASSUME IndInv, [Next]_vars, NEW k \in Key,
                      friendships[k].status = "accepted", friendships'[k].status = "pending"
               PROVE  FALSE
    OBVIOUS
  <2>1. PICK p \in Req : Commit(p) /\ lock[k] = p
    BY OnlyCommitPublishes
  <2>2. Justified(p, k, friendships'[k])
    BY <2>1, CommitRows
  <2> QED
    BY <2>2 DEF Justified, Absent
<1> QED
  BY <1>1, Inductive, PTL DEF Spec, NeverBackToPending

\* Only a transaction of one of the two users of a row changes it.
THEOREM OnlyTheTwo == Spec => OnlyTheTwoChangeTheirRows
<1>1. IndInv /\ [Next]_vars =>
          [\A k \in Key : friendships'[k] # friendships[k] =>
               \E p \in Req : /\ TakesEffect(p)
                              /\ Me(p) \in {k[1], k[2]} /\ Them(p) \in {k[1], k[2]}]_vars
  <2> SUFFICES ASSUME IndInv, [Next]_vars, NEW k \in Key, friendships'[k] # friendships[k]
               PROVE  \E p \in Req : /\ TakesEffect(p)
                                     /\ Me(p) \in {k[1], k[2]} /\ Them(p) \in {k[1], k[2]}
    OBVIOUS
  <2>1. PICK p \in Req : Commit(p) /\ lock[k] = p
    BY OnlyCommitPublishes
  <2>2. k \in Between(p) /\ p \notin applied /\ p \in applied'
    BY <2>1, CommitRows
  <2> QED
    BY <2>2 DEF Between, TakesEffect
<1> QED
  BY <1>1, Inductive, PTL DEF Spec, OnlyTheTwoChangeTheirRows

\* An acceptance takes effect as a whole.
THEOREM AcceptanceAtomic == Spec => AcceptanceIsAtomic
<1>1. IndInv /\ [Next]_vars =>
          [\A p \in Req : TakesEffect(p) /\ call[p].op = "accept" =>
               /\ friendships'[<<Me(p), Them(p)>>].status = "accepted"
               /\ \A k \in Key : friendships'[k].id = call[p].ref =>
                      friendships'[k].status = "accepted"]_vars
  <2> SUFFICES ASSUME IndInv, [Next]_vars, NEW p \in Req, TakesEffect(p),
                      call[p].op = "accept"
               PROVE  /\ friendships'[<<Me(p), Them(p)>>].status = "accepted"
                      /\ \A k \in Key : friendships'[k].id = call[p].ref =>
                             friendships'[k].status = "accepted"
    OBVIOUS
  <2>1. Commit(p)
    <3>1. PICK q \in Req : Commit(q)
      BY OnlyCommitApplies DEF TakesEffect
    <3> QED
      BY <3>1, CommitRows DEF TakesEffect
  <2>2. /\ <<Me(p), Them(p)>> \in Key /\ lock[<<Me(p), Them(p)>>] = p
        /\ \A k \in KeysOf(call[p].ref) : lock[k] = p
    BY <2>1 DEF IndInv, ProgressInv, Holds, Commit
  <2>3. ASSUME NEW k \in Key, lock[k] = p
        PROVE  friendships'[k].status = "accepted"
    <3>1. Justified(p, k, friendships'[k])
      BY <2>1, <2>3, CommitRows
    <3> QED
      BY <3>1 DEF Justified
  <2>4. ASSUME NEW k \in Key, friendships'[k].id = call[p].ref
        PROVE  lock[k] = p
    <3>1. InFlight(p) /\ p \notin applied
      BY <2>1, CommitRows
    <3>2. call[p].ref \in applied /\ call[p].ref # p /\ call[p].ref # None
      BY <3>1, NullAssumption DEF IndInv, TypeOK, CallInv, Asked
    <3>3. friendships'[k] # Absent
      BY <2>4, <3>2 DEF Absent
    <3>4. friendships[k] # Absent /\ friendships[k].id = call[p].ref
      BY <2>1, <2>4, <3>2, <3>3, CommitIds
    <3> QED
      BY <2>2, <3>4 DEF KeysOf
  <2> QED
    BY <2>2, <2>3, <2>4
<1> QED
  BY <1>1, Inductive, PTL DEF Spec, AcceptanceIsAtomic

\* What a statement does to its own request and to the locks of others.
LEMMA StatementFacts ==
    ASSUME TypeOK, NEW p \in Req, Proceed(p) \/ Disturb(p)
    PROVE  /\ InFlight(p)
           /\ pc'[p] \in Statement \cup {"done"}
           /\ \A q \in Req \ {p} : pc'[q] = pc[q]
           /\ \A k \in Key : lock'[k] \in {lock[k], p, None}
           /\ pc'[p] = "done" => \A k \in Key : lock'[k] # p
<1> USE DEF TypeOK, InFlight, Statement, Goto
<1>0. p # None
  BY NullAssumption
<1>r. ASSUME NEW r \in Reply, RollBack(p, r)
      PROVE  /\ pc'[p] = "done"
             /\ \A q \in Req \ {p} : pc'[q] = pc[q]
             /\ \A k \in Key : lock'[k] \in {lock[k], None} /\ lock'[k] # p
  BY <1>r, <1>0 DEF RollBack, Release, Answer
<1>w. ASSUME NEW k \in Key, NEW row, Write(p, k, row)
      PROVE  \A j \in Key : lock'[j] \in {lock[j], p}
  BY <1>w DEF Write
<1>1. CASE InsertRequest(p)
  <2>1. CASE RollBack(p, "error")
    BY <1>1, <2>1, <1>r DEF InsertRequest, Reply
  <2>2. CASE ~ RollBack(p, "error")
    <3>1. <<Me(p), Them(p)>> \in Key \/ UNCHANGED lock \/ lock' = [lock EXCEPT ![<<Me(p), Them(p)>>] = p]
      BY <1>1, <2>2 DEF InsertRequest, Write
    <3>2. Goto(p, "note") /\ pc[p] = "insert"
      BY <1>1, <2>2 DEF InsertRequest
    <3>3. lock' = [lock EXCEPT ![<<Me(p), Them(p)>>] = p]
      BY <1>1, <2>2 DEF InsertRequest, Write
    <3> QED
      BY <3>2, <3>3
  <2> QED
    BY <2>1, <2>2
<1>2. CASE UpdateAccepted(p)
  <2>1. UNCHANGED lock \/ \E k \in KeysOf(call[p].ref) : lock' = [lock EXCEPT ![k] = p]
    BY <1>2 DEF UpdateAccepted, Write
  <2> QED
    BY <1>2, <2>1 DEF UpdateAccepted
<1>3. CASE UpsertReciprocal(p)
  <2>1. lock' = [lock EXCEPT ![<<Me(p), Them(p)>>] = p]
    BY <1>3 DEF UpsertReciprocal, Write
  <2> QED
    BY <1>3, <2>1 DEF UpsertReciprocal
<1>4. CASE DeleteDenied(p)
  <2>1. UNCHANGED lock \/ \E k \in KeysOf(call[p].ref) : lock' = [lock EXCEPT ![k] = p]
    BY <1>4 DEF DeleteDenied, Write
  <2> QED
    BY <1>4, <2>1 DEF DeleteDenied
<1>5. CASE DeleteTarget(p)
  <2>1. PICK t \in targets[p] : UNCHANGED lock \/ lock' = [lock EXCEPT ![t[1]] = p]
    BY <1>5 DEF DeleteTarget, Write
  <2> QED
    BY <1>5, <2>1 DEF DeleteTarget
<1>6. CASE DeleteEnds(p)
  <2>1. CASE RollBack(p, "notFound")
    BY <1>6, <2>1, <1>r DEF DeleteEnds, Reply
  <2>2. CASE ~ RollBack(p, "notFound")
    BY <1>6, <2>2 DEF DeleteEnds
  <2> QED
    BY <2>1, <2>2
<1>7. CASE WriteNotification(p) \/ NotificationFails(p) \/ NotificationCancelled(p)
  BY <1>7 DEF WriteNotification, NotificationFails, NotificationCancelled
<1>8. CASE Commit(p)
  BY <1>8, <1>0 DEF Commit, Release, Answer
<1>9. CASE CommitAborted(p)
  BY <1>9, <1>r DEF CommitAborted, Reply
<1>10. CASE DeadlockVictim(p)
  <2>1. InFlight(p)
    BY <1>10 DEF DeadlockVictim, WaitsFor, Wanted
  <2> QED
    BY <1>10, <2>1, <1>r DEF DeadlockVictim, Reply
<1>11. CASE Fail(p)
  BY <1>11, <1>r DEF Fail, Reply
<1> QED
  BY <1>1, <1>2, <1>3, <1>4, <1>5, <1>6, <1>7, <1>8, <1>9, <1>10, <1>11 DEF Proceed, Disturb

\* The look-ups of a handler lock nothing.
LEMMA ReceiveFacts ==
    ASSUME TypeOK, NEW p \in Req, Receive(p)
    PROVE  /\ pc[p] = "idle" /\ pc'[p] \in Statement \cup {"done"}
           /\ \A q \in Req \ {p} : pc'[q] = pc[q]
           /\ UNCHANGED lock
<1> USE DEF TypeOK, Statement, Goto, Answer
<1>1. ASSUME NEW u \in User, NEW f \in User, SendFriendRequest(p, u, f)
      PROVE  /\ pc[p] = "idle" /\ UNCHANGED lock /\ (Goto(p, "insert") \/ Goto(p, "done"))
  BY <1>1 DEF SendFriendRequest
<1>2. ASSUME NEW u \in User, NEW id \in Req, NEW op \in {"accept", "deny"},
             AnswerFriendRequest(p, op, u, id)
      PROVE  /\ pc[p] = "idle" /\ UNCHANGED lock
             /\ (Goto(p, "update") \/ Goto(p, "delete") \/ Goto(p, "done"))
  BY <1>2 DEF AnswerFriendRequest, NextOf
<1>3. ASSUME NEW u \in User, NEW f \in User, RemoveFriend(p, u, f)
      PROVE  pc[p] = "idle" /\ UNCHANGED lock /\ Goto(p, "visit")
  BY <1>3 DEF RemoveFriend
<1>4. ASSUME NEW u \in User, NEW n \in Req, MarkNotificationRead(p, u, n)
      PROVE  pc[p] = "idle" /\ UNCHANGED lock /\ (Goto(p, "commit") \/ Goto(p, "done"))
  BY <1>4 DEF MarkNotificationRead
<1>5. /\ pc[p] = "idle" /\ UNCHANGED lock
      /\ \E s \in Statement \cup {"done"} : Goto(p, s)
  BY <1>1, <1>2, <1>3, <1>4 DEF Receive, AcceptFriendRequest, DenyFriendRequest
<1> QED
  BY <1>5

\* A request that took effect keeps its arguments, and stays one that did.
LEMMA AppliedStays ==
    ASSUME IndInv, [Next]_vars
    PROVE  applied \subseteq applied' /\ \A s \in applied : s \in Req /\ call'[s] = call[s]
<1>1. applied \subseteq applied'
  <2>1. CASE \E p \in Req : Commit(p)
    BY <2>1 DEF Commit
  <2>2. CASE UNCHANGED applied
    BY <2>2
  <2> QED
    BY <2>1, <2>2, OnlyCommitApplies
<1>2. \A s \in applied : s \in Req /\ call'[s] = call[s]
  <2>1. ASSUME NEW p \in Req, Receive(p)
        PROVE  pc[p] = "idle" /\ (call' = call \/ \E c : call' = [call EXCEPT ![p] = c])
    BY <2>1 DEF Receive, SendFriendRequest, AcceptFriendRequest, DenyFriendRequest,
                AnswerFriendRequest, RemoveFriend, MarkNotificationRead
  <2>2. ASSUME NEW p \in Req, Receive(p)
        PROVE  \A s \in applied : call'[s] = call[s]
    BY <2>1, <2>2 DEF IndInv, TypeOK, CallInv
  <2>3. ASSUME NEW p \in Req, Proceed(p) PROVE call' = call
    BY <2>3 DEF Proceed, InsertRequest, UpdateAccepted, UpsertReciprocal, DeleteDenied,
                DeleteTarget, DeleteEnds, WriteNotification, Commit, CommitAborted,
                DeadlockVictim, RollBack
  <2>4. ASSUME NEW p \in Req, Disturb(p) PROVE call' = call
    BY <2>4 DEF Disturb, NotificationFails, NotificationCancelled, Fail, RollBack
  <2> QED
    BY <2>2, <2>3, <2>4 DEF Next, AllServed, vars, IndInv, TypeOK
<1> QED
  BY <1>1, <1>2

\* Who has agreed has agreed.
LEMMA AgreementStays ==
    ASSUME IndInv, [Next]_vars
    PROVE  \A a, s \in Req, u, f \in User : Accepted(a, s, u, f) => Accepted(a, s, u, f)'
BY AppliedStays DEF Accepted, Asked, Me, Them

\* A request is answered before it takes effect only with a refusal or an error.
LEMMA AnswerOfStep ==
    ASSUME IndInv, [Next]_vars, ~ \E p \in Req : Commit(p)
    PROVE  /\ applied' = applied
           /\ \A q \in Req : \/ reply'[q] = reply[q]
                             \/ reply'[q] # "ok" /\ q \notin applied
<1>1. applied' = applied
  BY OnlyCommitApplies
<1>2. \A q \in Req : pc[q] # "done" => q \notin applied
  BY DEF IndInv, CallInv
<1>r. ASSUME NEW p \in Req, NEW r \in Reply \ {"ok"}, RollBack(p, r) \/ Answer(p, r), pc[p] # "done"
      PROVE  \A q \in Req : reply'[q] = reply[q] \/ (reply'[q] # "ok" /\ q \notin applied)
  BY <1>r, <1>2 DEF RollBack, Answer, IndInv, TypeOK
<1>3. ASSUME NEW p \in Req, Receive(p)
      PROVE  \A q \in Req : reply'[q] = reply[q] \/ (reply'[q] # "ok" /\ q \notin applied)
  <2>1. /\ pc[p] = "idle"
        /\ \/ UNCHANGED reply
           \/ \E r \in {"badRequest", "notFound", "forbidden", "error"} : Answer(p, r)
    BY <1>3 DEF Receive, SendFriendRequest, AcceptFriendRequest, DenyFriendRequest,
                AnswerFriendRequest, RemoveFriend, MarkNotificationRead
  <2> QED
    BY <2>1, <1>r DEF Reply
<1>4. ASSUME NEW p \in Req, Proceed(p) \/ Disturb(p)
      PROVE  \A q \in Req : reply'[q] = reply[q] \/ (reply'[q] # "ok" /\ q \notin applied)
  <2>1. \/ UNCHANGED reply
        \/ pc[p] # "done" /\ \E r \in {"notFound", "error"} : RollBack(p, r)
    <3>1. DeadlockVictim(p) => pc[p] # "done"
      BY DEF DeadlockVictim, WaitsFor, Wanted
    <3> QED
      BY <1>4, <3>1 DEF Proceed, InsertRequest, UpdateAccepted, UpsertReciprocal, DeleteDenied,
                DeleteTarget, DeleteEnds, WriteNotification, CommitAborted,
                DeadlockVictim, Disturb, NotificationFails, NotificationCancelled, Fail,
                InFlight, Statement
  <2> QED
    BY <2>1, <1>r DEF Reply
<1> QED
  BY <1>1, <1>3, <1>4 DEF Next, AllServed, vars

\* The client is told the truth: "ok" only of what took effect, a reason to give up only of
\* what did not, although a commit may answer either way.
THEOREM RepliesHonest == Spec => []ReplyIsHonest
<1>1. Init => ReplyIsHonest
  BY DEF Init, ReplyIsHonest
<1>2. IndInv /\ ReplyIsHonest /\ [Next]_vars => ReplyIsHonest'
  <2> SUFFICES ASSUME IndInv, ReplyIsHonest, [Next]_vars PROVE ReplyIsHonest'
    OBVIOUS
  <2>1. ASSUME NEW p \in Req, Commit(p) PROVE ReplyIsHonest'
    <3>1. /\ applied' = applied \cup {p} /\ reply \in [Req -> Reply]
          /\ \E r \in {"ok", "error"} : reply' = [reply EXCEPT ![p] = r]
      BY <2>1 DEF Commit, Answer, IndInv, TypeOK
    <3> QED
      BY <3>1 DEF ReplyIsHonest
  <2>2. CASE ~ \E p \in Req : Commit(p)
    BY <2>2, AnswerOfStep DEF ReplyIsHonest
  <2> QED
    BY <2>1, <2>2
<1> QED
  BY <1>1, <1>2, Inductive, PTL DEF Spec

----------------------------------------------------------------------------
(* Friendships implements FriendGraph: each commit is one of its atomic operations, or    *)
(* changes nothing there, and every other step changes nothing.                           *)

\* The graph as the tables and the requests that took effect show it.
StatusOf == [k \in Key |-> friendships[k].status]
AskedPairs == {k \in Key : \E s \in Req : Asked(s, k[1], k[2])}
AgreedPairs == {k \in Key : \E a, s \in Req : Accepted(a, s, k[1], k[2])}

\* Steps other than a commit change nothing of the graph.
LEMMA GraphStutters ==
    ASSUME IndInv, [Next]_vars, ~ \E p \in Req : Commit(p)
    PROVE  UNCHANGED <<StatusOf, AskedPairs, AgreedPairs>>
<1>1. UNCHANGED <<friendships, applied>> /\ \A s \in applied : call'[s] = call[s]
  BY OnlyCommitApplies, AppliedStays
<1>2. /\ \A s \in Req, u, f \in User : Asked(s, u, f)' <=> Asked(s, u, f)
      /\ \A a, s \in Req, u, f \in User : Accepted(a, s, u, f)' <=> Accepted(a, s, u, f)
  BY <1>1 DEF Asked, Accepted, Me, Them
<1>3. AskedPairs' = AskedPairs /\ AgreedPairs' = AgreedPairs
  BY <1>2 DEF AskedPairs, AgreedPairs, Key
<1> QED
  BY <1>1, <1>3 DEF StatusOf

\* What a commit of p adds to what was asked and agreed.
LEMMA CommitSays ==
    ASSUME IndInv, NEW p \in Req, Commit(p)
    PROVE  /\ AskedPairs' = AskedPairs \cup
                  {k \in Key : call[p].op = "send" /\ k = <<Me(p), Them(p)>>}
           /\ AgreedPairs' = AgreedPairs \cup
                  {k \in Key : call[p].op = "accept" /\ k = <<Them(p), Me(p)>>}
<1>1. /\ p \notin applied /\ applied' = applied \cup {p} /\ call' = call /\ InFlight(p)
  BY CommitRows
<1>2. \A s \in Req, u, f \in User :
          Asked(s, u, f)' <=> \/ Asked(s, u, f)
                              \/ s = p /\ call[p].op = "send" /\ u = Me(p) /\ f = Them(p)
  BY <1>1 DEF Asked, Me, Them
<1>3. \A a \in Req : (a \in applied \/ a = p) /\ call[a].op = "accept" =>
          Asked(call[a].ref, Them(a), Me(a)) /\ call[a].ref # p
  BY <1>1 DEF IndInv, CallInv, Asked
<1>4. \A a, s \in Req, u, f \in User :
          Accepted(a, s, u, f)' <=>
              \/ Accepted(a, s, u, f)
              \/ /\ a = p /\ call[p].op = "accept" /\ s = call[p].ref
                 /\ u = Them(p) /\ f = Me(p)
  BY <1>1, <1>3 DEF Accepted, Asked, Me, Them
<1>5. call[p].op = "accept" => call[p].ref \in Req
  BY <1>1, <1>3 DEF IndInv, TypeOK, Asked
<1>6. AskedPairs' = AskedPairs \cup {k \in Key : call[p].op = "send" /\ k = <<Me(p), Them(p)>>}
  BY <1>2 DEF AskedPairs, Key
<1>7. AgreedPairs' = AgreedPairs \cup {k \in Key : call[p].op = "accept" /\ k = <<Them(p), Me(p)>>}
  BY <1>4, <1>5 DEF AgreedPairs, Key
<1> QED
  BY <1>6, <1>7

\* A row is absent when its status says so.
LEMMA RowStatus ==
    ASSUME IndInv, NEW k \in Key
    PROVE  /\ friendships[k] = Absent <=> friendships[k].status = "absent"
           /\ StatusOf[k] = friendships[k].status /\ StatusOf'[k] = friendships'[k].status
BY DEF IndInv, TypeOK, Row, Absent, StatusOf

\* A committed send asks.
LEMMA SendRefines ==
    ASSUME IndInv, NEW p \in Req, Commit(p), call[p].op = "send"
    PROVE  \E k \in Key : Graph!Ask(k)
<1>1. <<Me(p), Them(p)>> \in Key /\ lock[<<Me(p), Them(p)>>] = p
  BY DEF IndInv, ProgressInv, Holds, Commit
<1> PICK k \in Key : k = <<Me(p), Them(p)>>
  BY <1>1
<1>2. ASSUME NEW j \in Key, lock[j] = p
      PROVE  j = k /\ friendships[j] = Absent /\ friendships'[j].status = "pending"
  <2>1. Justified(p, j, friendships'[j])
    BY <1>2, CommitRows
  <2> QED
    BY <2>1 DEF Justified
<1>3. \A j \in Key : lock[j] # p => friendships'[j] = friendships[j]
  BY CommitRows
<1>4. StatusOf[k] = "absent" /\ StatusOf' = [StatusOf EXCEPT ![k] = "pending"]
  <2>1. friendships[k].status = "absent" /\ friendships'[k].status = "pending"
    BY <1>1, <1>2 DEF Absent
  <2>2. \A j \in Key : j # k => friendships'[j].status = friendships[j].status
    BY <1>2, <1>3
  <2> QED
    BY <2>1, <2>2 DEF StatusOf
<1>5. AskedPairs' = AskedPairs \cup {k} /\ AgreedPairs' = AgreedPairs
  BY CommitSays
<1>6. Graph!Ask(k)
  BY <1>4, <1>5 DEF Graph!Ask, StatusOf, AskedPairs, AgreedPairs
<1> QED
  BY <1>6

\* A committed acceptance agrees.
LEMMA AcceptRefines ==
    ASSUME IndInv, NEW p \in Req, Commit(p), call[p].op = "accept"
    PROVE  \E k \in Key : Graph!Agree(k)
<1>0. InFlight(p) /\ Asked(call[p].ref, Them(p), Me(p)) /\ call[p].ref \in Req
  BY CommitRows DEF IndInv, CallInv, TypeOK, Asked
<1>1. <<Me(p), Them(p)>> \in Key /\ lock[<<Me(p), Them(p)>>] = p
  BY DEF IndInv, ProgressInv, Holds, Commit
<1> PICK k \in Key : k = <<Them(p), Me(p)>>
  BY <1>1 DEF Key
<1> PICK m \in Key : m = <<Me(p), Them(p)>>
  BY <1>1
<1>2. k \in AskedPairs /\ m # k /\ Mirror(k) = m
  BY <1>0 DEF Key, AskedPairs, Mirror
<1>3. ASSUME NEW j \in Key, lock[j] = p
      PROVE  /\ j \in {k, m} /\ friendships'[j].status = "accepted"
             /\ j = k => friendships[j] # Absent
  <2>1. Justified(p, j, friendships'[j]) /\ j \in Between(p)
    BY <1>3, CommitRows
  <2> QED
    BY <1>2, <2>1 DEF Between, Justified
<1>4. \A j \in Key : lock[j] # p => friendships'[j] = friendships[j]
  BY CommitRows
<1>5. friendships'[m].status = "accepted"
  BY <1>1, <1>3
<1>6. AskedPairs' = AskedPairs /\ AgreedPairs' = AgreedPairs \cup {k}
  BY CommitSays
<1>7. CASE lock[k] = p
  <2>1. StatusOf[k] # "absent"
    BY <1>3, <1>7, RowStatus
  <2>2. StatusOf' = [StatusOf EXCEPT ![k] = "accepted", ![m] = "accepted"]
    <3>1. \A j \in Key : j \notin {k, m} => friendships'[j] = friendships[j]
      BY <1>3, <1>4
    <3>2. friendships'[k].status = "accepted"
      BY <1>3, <1>7
    <3> QED
      BY <1>5, <3>1, <3>2 DEF StatusOf
  <2>3. Graph!Agree(k)
    BY <1>2, <1>6, <2>1, <2>2 DEF Graph!Agree, Graph!Mirror, Mirror, StatusOf, AskedPairs, AgreedPairs
  <2> QED
    BY <2>3
<1>8. CASE lock[k] # p
  <2>1. StatusOf' = [StatusOf EXCEPT ![m] = "accepted"]
    <3>1. \A j \in Key : j # m => friendships'[j] = friendships[j]
      BY <1>3, <1>4, <1>8
    <3> QED
      BY <1>5, <3>1 DEF StatusOf
  <2>2. Graph!Agree(k)
    BY <1>2, <1>6, <2>1 DEF Graph!Agree, Graph!Mirror, Mirror, StatusOf, AskedPairs, AgreedPairs
  <2> QED
    BY <2>2
<1> QED
  BY <1>7, <1>8

\* A committed denial or removal parts, if it found a row.
LEMMA PartRefines ==
    ASSUME IndInv, NEW p \in Req, Commit(p), call[p].op \notin {"send", "accept"}
    PROVE  \/ \E k \in Key : Graph!Part(k)
           \/ UNCHANGED <<StatusOf, AskedPairs, AgreedPairs>>
<1>1. UNCHANGED <<AskedPairs, AgreedPairs>>
  BY CommitSays
<1>2. \A j \in Key : lock[j] # p => friendships'[j] = friendships[j]
  BY CommitRows
<1>3. ASSUME NEW j \in Key, lock[j] = p
      PROVE  /\ j \in Between(p) /\ friendships[j].status # "absent"
             /\ friendships'[j].status = "absent"
  <2>1. Justified(p, j, friendships'[j]) /\ j \in Between(p)
    BY <1>3, CommitRows
  <2>2. friendships[j] # Absent /\ friendships'[j] = Absent
    BY <2>1 DEF Justified
  <2> QED
    BY <2>1, <2>2, RowStatus DEF Absent
<1>4. CASE Holds(p) = {}
  BY <1>1, <1>2, <1>4 DEF Holds, StatusOf
<1>5. CASE Holds(p) # {}
  <2>1. PICK k \in Key : lock[k] = p
    BY <1>5 DEF Holds
  <2>2. Holds(p) \subseteq {k, Mirror(k)}
    BY <1>3, <2>1 DEF Holds, Between, Mirror
  <2>3. StatusOf' = [j \in Key |-> IF j \in Holds(p) THEN "absent" ELSE StatusOf[j]]
    BY <1>2, <1>3 DEF Holds, StatusOf
  <2>4. StatusOf[k] # "absent" /\ k \in Holds(p)
    BY <1>3, <2>1 DEF Holds, StatusOf
  <2>5. Graph!Part(k)
    <3> DEFINE gone == Holds(p)
    <3>1. gone \in SUBSET {k, Graph!Mirror(k)} /\ \E j \in gone : StatusOf[j] # "absent"
      BY <2>2, <2>4 DEF Graph!Mirror, Mirror
    <3> QED
      BY <1>1, <2>3, <3>1 DEF Graph!Part, Graph!Key, Key, StatusOf, AskedPairs, AgreedPairs
  <2> QED
    BY <2>5
<1> QED
  BY <1>4, <1>5

\* Every step is one of FriendGraph or changes nothing there.
LEMMA StepRefinesGraph == IndInv /\ [Next]_vars => [Graph!Next]_(Graph!vars)
<1> SUFFICES ASSUME IndInv, [Next]_vars PROVE [Graph!Next]_(Graph!vars)
  OBVIOUS
<1>1. UNCHANGED <<StatusOf, AskedPairs, AgreedPairs>> => UNCHANGED Graph!vars
  BY DEF Graph!vars, StatusOf, AskedPairs, AgreedPairs
<1>2. ASSUME NEW k \in Key, Graph!Ask(k) \/ Graph!Agree(k) \/ Graph!Part(k) PROVE Graph!Next
  BY <1>2 DEF Graph!Next, Graph!Key, Key
<1>3. ASSUME NEW p \in Req, Commit(p) PROVE [Graph!Next]_(Graph!vars)
  BY <1>1, <1>2, <1>3, SendRefines, AcceptRefines, PartRefines
<1> QED
  BY <1>1, <1>3, GraphStutters

\* The statements of friends.go, interleaved with those of other requests and cut off
\* anywhere, move the graph of friends as asking, agreeing and parting do.
THEOREM RefinesGraph == Spec => ImplementsGraph
<1>1. Init => Graph!Init
  BY DEF Init, Graph!Init, Graph!Key, Key, Absent, Asked, Accepted
<1> QED
  BY <1>1, StepRefinesGraph, Inductive, PTL DEF Spec, ImplementsGraph, Graph!Spec
=============================================================================
