----------------------- MODULE FriendshipsSerialProofs -----------------------
(***************************************************************************)
(* What the schema and the comments of friends.go say of the table is true *)
(* of one request at a time: theorems of SerialSpec, failures and lost     *)
(* answers included, for any users and requests.                           *)
(***************************************************************************)
EXTENDS FriendshipsProofs

\* While p runs, nobody changes what it read before its transaction.
ReadStays(p) ==
    /\ call[p].op = "send" =>
           friendships[<<Me(p), Them(p)>>] = Absent /\ friendships[<<Them(p), Me(p)>>] = Absent
    /\ call[p].op \in {"accept", "deny"} =>
           friendships[<<Them(p), Me(p)>>] = [id |-> call[p].ref, status |-> "pending"]
    /\ call[p].op = "remove" =>
           \A k \in Key \cap Between(p) : friendships[k] # Absent =>
               lock[k] = p \/ <<k, friendships[k].id>> \in targets[p]

\* The two statements about the table are inductive together with what a lone request reads.
SerialInv ==
    /\ \A p, q \in Req : InFlight(p) /\ InFlight(q) => p = q
    /\ \A p \in Req : InFlight(p) => ReadStays(p)
    /\ TwoRowsPerFriendship
    /\ OneRowWhilePending

\* One request at a time is a way to interleave them.
LEMMA SerialStep == [SerialNext]_vars => [Next]_vars
BY DEF SerialNext, Next

\* A request received when none runs has read what is still there.
LEMMA ReceiveSerial ==
    ASSUME IndInv, SerialInv, NEW p \in Req, Receive(p), \A q \in Req : ~ InFlight(q)
    PROVE  SerialInv'
<1>1. /\ UNCHANGED <<friendships, lock>> /\ \A q \in Req \ {p} : ~ InFlight(q)'
  <2>1. UNCHANGED friendships
    BY DEF Receive, SendFriendRequest, AcceptFriendRequest, DenyFriendRequest,
           AnswerFriendRequest, RemoveFriend, MarkNotificationRead, tables
  <2> QED
    BY <2>1, ReceiveFacts DEF IndInv, InFlight
<1>2. InFlight(p)' => ReadStays(p)'
  <2> USE DEF IndInv, TypeOK, Me, Them, Goto, Answer, InFlight, Statement
  <2>1. ASSUME NEW u \in User, NEW f \in User, SendFriendRequest(p, u, f), InFlight(p)'
        PROVE  ReadStays(p)'
    <3>1. /\ call' = [call EXCEPT ![p] = [op |-> "send", user |-> u, peer |-> f, ref |-> None]]
          /\ \A k \in {<<u, f>>, <<f, u>>} : friendships[k] = Absent
      BY <2>1 DEF SendFriendRequest
    <3>2. call'[p].op = "send" /\ call'[p].user = u /\ call'[p].peer = f
      BY <3>1
    <3> QED
      BY <1>1, <3>1, <3>2 DEF ReadStays
  <2>2. ASSUME NEW u \in User, NEW id \in Req, NEW op \in {"accept", "deny"},
               AnswerFriendRequest(p, op, u, id), InFlight(p)'
        PROVE  ReadStays(p)'
    <3>1. PICK k \in KeysOf(id) :
              /\ call' = [call EXCEPT ![p] = [op |-> op, user |-> u, peer |-> k[1], ref |-> id]]
              /\ k[2] = u /\ friendships[k].status = "pending"
      BY <2>2 DEF AnswerFriendRequest
    <3>2. /\ call'[p].op = op /\ call'[p].user = u /\ call'[p].peer = k[1] /\ call'[p].ref = id
      BY <3>1
    <3>3. k \in Key /\ k = <<k[1], u>> /\ friendships[k].id = id /\ friendships[k] \in Row
      BY <3>1 DEF KeysOf, Key
    <3>4. friendships[k] = [id |-> id, status |-> "pending"]
      BY <3>1, <3>3 DEF Row, Absent
    <3> QED
      BY <1>1, <3>2, <3>3, <3>4 DEF ReadStays
  <2>3. ASSUME NEW u \in User, NEW f \in User, RemoveFriend(p, u, f)
        PROVE  ReadStays(p)'
    <3>1. /\ call'[p].op = "remove" /\ call'[p].user = u /\ call'[p].peer = f
          /\ targets'[p] = RowsBetween(u, f)
      BY <2>3 DEF RemoveFriend
    <3> QED
      BY <1>1, <3>1 DEF ReadStays, RowsBetween, Between
  <2>4. ASSUME NEW u \in User, NEW n \in Req, MarkNotificationRead(p, u, n), InFlight(p)'
        PROVE  ReadStays(p)'
    <3>1. call'[p].op = "markRead"
      <4>1. pc'[p] # "done"
        BY <2>4
      <4> QED
        BY <2>4, <4>1 DEF MarkNotificationRead
    <3> QED
      BY <3>1 DEF ReadStays
  <2> QED
    BY <2>1, <2>2, <2>3, <2>4 DEF Receive, AcceptFriendRequest, DenyFriendRequest
<1> QED
  BY <1>1, <1>2 DEF SerialInv, TwoRowsPerFriendship, OneRowWhilePending

\* A statement leaves the table alone until the commit.
LEMMA StatementSerial ==
    ASSUME IndInv, SerialInv, NEW p \in Req, Proceed(p) \/ Disturb(p), ~ Commit(p)
    PROVE  SerialInv'
<1>0. TypeOK /\ [Next]_vars
  BY DEF IndInv, Next
<1>1. UNCHANGED friendships
  BY DEF Proceed, InsertRequest, UpdateAccepted, UpsertReciprocal, DeleteDenied, DeleteTarget,
         DeleteEnds, WriteNotification, CommitAborted, DeadlockVictim, Disturb,
         NotificationFails, NotificationCancelled, Fail, RollBack, tables
<1>2. UNCHANGED call
  BY DEF Proceed, InsertRequest, UpdateAccepted, UpsertReciprocal, DeleteDenied, DeleteTarget,
         DeleteEnds, WriteNotification, CommitAborted, DeadlockVictim, Disturb,
         NotificationFails, NotificationCancelled, Fail, RollBack, tables
<1>3. /\ InFlight(p) /\ \A q \in Req \ {p} : pc'[q] = pc[q] /\ ~ InFlight(q)
  BY <1>0, StatementFacts DEF SerialInv
<1>4. ASSUME InFlight(p)', call[p].op = "remove",
             NEW k \in Key \cap Between(p), friendships[k] # Absent
      PROVE  lock'[k] = p \/ <<k, friendships[k].id>> \in targets'[p]
  <2>1. lock[k] = p \/ <<k, friendships[k].id>> \in targets[p]
    BY <1>3, <1>4 DEF SerialInv, ReadStays
  <2>2. pc[p] \in {"visit", "commit"}
    BY <1>3, <1>4 DEF IndInv, CallInv, InFlight, Statement
  <2>3. DeleteTarget(p) \/ UNCHANGED <<lock, targets>>
    <3>1. ~ \E r \in Reply : RollBack(p, r)
      BY <1>0, <1>4 DEF RollBack, Answer, Goto, InFlight, Statement, TypeOK
    <3> QED
      BY <2>2, <3>1 DEF Proceed, InsertRequest, UpdateAccepted, UpsertReciprocal, DeleteDenied,
         DeleteEnds, WriteNotification, CommitAborted, DeadlockVictim, Disturb,
         NotificationFails, NotificationCancelled, Fail, Reply
  <2>4. CASE DeleteTarget(p)
    <3>1. PICK t \in targets[p] :
              /\ targets' = [targets EXCEPT ![p] = @ \ {t}]
              /\ \/ friendships[t[1]].id # t[2] /\ UNCHANGED lock
                 \/ friendships[t[1]].id = t[2] /\ lock' = [lock EXCEPT ![t[1]] = p]
      BY <2>4 DEF DeleteTarget, Write
    <3>2. t \in Key \X Req
      BY <1>0 DEF TypeOK
    <3> QED
      BY <1>0, <2>1, <3>1, <3>2 DEF TypeOK
  <2> QED
    BY <2>1, <2>3, <2>4
<1>5. InFlight(p)' => ReadStays(p)'
  BY <1>1, <1>2, <1>3, <1>4 DEF SerialInv, ReadStays, Between, Me, Them
<1> QED
  BY <1>1, <1>3, <1>5 DEF SerialInv, TwoRowsPerFriendship, OneRowWhilePending, InFlight

\* What a commit leaves of the two rows between its users.
LEMMA CommitLeaves ==
    ASSUME IndInv, SerialInv, NEW p \in Req, Commit(p)
    PROVE  /\ \A k \in Key : k \notin Between(p) => friendships'[k] = friendships[k]
           /\ call[p].op = "send" =>
                  /\ friendships'[<<Me(p), Them(p)>>].status = "pending"
                  /\ friendships'[<<Them(p), Me(p)>>] = Absent
           /\ call[p].op = "accept" =>
                  /\ friendships'[<<Me(p), Them(p)>>].status = "accepted"
                  /\ friendships'[<<Them(p), Me(p)>>].status = "accepted"
           /\ call[p].op \in {"deny", "remove"} =>
                  \A k \in Key \cap Between(p) : friendships'[k] = Absent
           /\ call[p].op \notin {"send", "accept", "deny", "remove"} =>
                  friendships' = friendships
<1>0. InFlight(p) /\ ReadStays(p)
  BY CommitRows DEF SerialInv
<1>k. call[p].op \in {"send", "accept", "deny"} =>
          <<Me(p), Them(p)>> \in Key /\ <<Them(p), Me(p)>> \in Key /\ Me(p) # Them(p)
  BY <1>0 DEF IndInv, CallInv, Key
<1>1. ASSUME NEW k \in Key, lock[k] = p
      PROVE  k \in Between(p) /\ Justified(p, k, friendships'[k])
  BY <1>1, CommitRows
<1>2. \A k \in Key : lock[k] # p => friendships'[k] = friendships[k]
  BY CommitRows
<1>3. \A k \in Key : k \notin Between(p) => friendships'[k] = friendships[k]
  BY <1>1, <1>2
<1>4. CASE call[p].op = "send"
  <2>1. lock[<<Me(p), Them(p)>>] = p
    BY <1>4 DEF IndInv, ProgressInv, Holds, Commit
  <2>2. friendships'[<<Me(p), Them(p)>>].status = "pending"
    BY <1>4, <1>k, <1>1, <2>1 DEF Justified
  <2>3. lock[<<Them(p), Me(p)>>] # p
    <3> SUFFICES ASSUME lock[<<Them(p), Me(p)>>] = p PROVE FALSE
      OBVIOUS
    <3>1. Justified(p, <<Them(p), Me(p)>>, friendships'[<<Them(p), Me(p)>>])
      BY <1>4, <1>k, <1>1
    <3> QED
      BY <1>4, <1>k, <3>1 DEF Justified
  <2>4. friendships'[<<Them(p), Me(p)>>] = Absent
    BY <1>0, <1>4, <1>k, <1>2, <2>3 DEF ReadStays
  <2> QED
    BY <1>3, <1>4, <2>2, <2>4
<1>5. CASE call[p].op = "accept"
  <2>1. lock[<<Me(p), Them(p)>>] = p /\ \A k \in KeysOf(call[p].ref) : lock[k] = p
    BY <1>5 DEF IndInv, ProgressInv, Holds, Commit
  <2>2. <<Them(p), Me(p)>> \in KeysOf(call[p].ref)
    BY <1>0, <1>5, <1>k DEF ReadStays, KeysOf, Absent
  <2>3. ASSUME NEW k \in Key, lock[k] = p PROVE friendships'[k].status = "accepted"
    <3>1. Justified(p, k, friendships'[k])
      BY <1>1, <2>3
    <3> QED
      BY <1>5, <3>1 DEF Justified
  <2>4. friendships'[<<Me(p), Them(p)>>].status = "accepted"
    BY <1>5, <1>k, <2>1, <2>3
  <2>5. friendships'[<<Them(p), Me(p)>>].status = "accepted"
    BY <1>5, <1>k, <2>1, <2>2, <2>3
  <2> QED
    BY <1>3, <1>5, <2>4, <2>5
<1>6. CASE call[p].op \in {"deny", "remove"}
  <2>1. ASSUME NEW k \in Key, lock[k] = p PROVE friendships'[k] = Absent
    BY <1>6, <1>1, <2>1 DEF Justified
  <2>2. ASSUME call[p].op = "deny", NEW k \in Key \cap Between(p), lock[k] # p
        PROVE  friendships'[k] = Absent
    <3>1. \A j \in KeysOf(call[p].ref) : lock[j] = p
      BY <2>2 DEF IndInv, ProgressInv, Commit
    <3>2. /\ friendships[<<Them(p), Me(p)>>].status = "pending"
          /\ <<Them(p), Me(p)>> \in KeysOf(call[p].ref)
      BY <1>0, <1>k, <2>2 DEF ReadStays, KeysOf, Absent
    <3>3. k = <<Me(p), Them(p)>>
      BY <2>2, <3>1, <3>2 DEF Between
    <3>4. friendships[Mirror(<<Them(p), Me(p)>>)].status = "absent"
      BY <1>k, <2>2, <3>2 DEF SerialInv, OneRowWhilePending
    <3>5. friendships[k].status = "absent"
      BY <3>3, <3>4 DEF Mirror
    <3>6. friendships[k] = Absent
      BY <3>5 DEF IndInv, TypeOK, Row
    <3> QED
      BY <1>2, <2>2, <3>6
  <2>3. ASSUME call[p].op = "remove", NEW k \in Key \cap Between(p), lock[k] # p
        PROVE  friendships'[k] = Absent
    <3>1. targets[p] = {}
      BY DEF Commit, IndInv, TargetInv
    <3> QED
      BY <1>0, <1>2, <2>3, <3>1 DEF ReadStays
  <2> QED
    BY <1>3, <1>6, <2>1, <2>2, <2>3
<1>7. CASE call[p].op \notin {"send", "accept", "deny", "remove"}
  <2>1. \A k \in Key : friendships'[k] = friendships[k]
    BY <1>1, <1>2, <1>7 DEF Justified
  <2>2. friendships \in [Key -> Row] /\ friendships' \in [Key -> Row]
    BY ProceedType DEF IndInv, TypeOK, Proceed
  <2> QED
    BY <1>3, <1>7, <2>1, <2>2
<1> QED
  BY <1>4, <1>5, <1>6, <1>7

\* A commit keeps the rows in pairs.
LEMMA CommitSerial ==
    ASSUME IndInv, SerialInv, NEW p \in Req, Commit(p)
    PROVE  SerialInv'
<1>1. \A q \in Req : ~ InFlight(q)'
  BY CommitRows DEF SerialInv, InFlight, Statement
<1>k. call[p].op \in {"send", "accept", "deny"} => Me(p) # Them(p)
  BY CommitRows DEF IndInv, CallInv, Key
<1>2. ASSUME NEW k \in Key
      PROVE  /\ friendships'[k].status = "accepted" => friendships'[Mirror(k)].status = "accepted"
             /\ friendships'[k].status = "pending" => friendships'[Mirror(k)].status = "absent"
  <2>1. /\ Mirror(k) \in Key
        /\ k \in Between(p) <=> Mirror(k) \in Between(p)
        /\ k \in Between(p) => \/ k = <<Me(p), Them(p)>> /\ Mirror(k) = <<Them(p), Me(p)>>
                               \/ k = <<Them(p), Me(p)>> /\ Mirror(k) = <<Me(p), Them(p)>>
    BY DEF Key, Mirror, Between
  <2>2. /\ friendships[k].status = "accepted" => friendships[Mirror(k)].status = "accepted"
        /\ friendships[k].status = "pending" => friendships[Mirror(k)].status = "absent"
    BY DEF SerialInv, TwoRowsPerFriendship, OneRowWhilePending
  <2>3. CASE k \notin Between(p)
    BY <2>1, <2>2, <2>3, CommitLeaves
  <2>4. CASE k \in Between(p) /\ call[p].op = "send"
    BY <2>1, <2>4, CommitLeaves DEF Absent
  <2>5. CASE k \in Between(p) /\ call[p].op = "accept"
    BY <2>1, <2>5, CommitLeaves
  <2>6. CASE k \in Between(p) /\ call[p].op \in {"deny", "remove"}
    BY <2>1, <2>6, CommitLeaves DEF Absent
  <2>7. CASE call[p].op \notin {"send", "accept", "deny", "remove"}
    BY <2>2, <2>7, CommitLeaves
  <2> QED
    BY <2>3, <2>4, <2>5, <2>6, <2>7
<1> QED
  BY <1>1, <1>2 DEF SerialInv, TwoRowsPerFriendship, OneRowWhilePending

\* Every step of a lone request keeps the invariant.
LEMMA SerialNextInv == IndInv /\ SerialInv /\ [SerialNext]_vars => SerialInv'
<1> SUFFICES ASSUME IndInv, SerialInv, [SerialNext]_vars PROVE SerialInv'
  OBVIOUS
<1>1. ASSUME UNCHANGED vars PROVE SerialInv'
  BY <1>1 DEF vars, SerialInv, ReadStays, InFlight, Between, Me, Them, TwoRowsPerFriendship,
              OneRowWhilePending
<1> QED
  BY <1>1, ReceiveSerial, StatementSerial, CommitSerial DEF SerialNext, AllServed

\* One request at a time keeps both invariants.
THEOREM SerialInductive == SerialSpec => [](IndInv /\ SerialInv)
<1>1. Init => SerialInv
  BY DEF Init, SerialInv, InFlight, Statement, TwoRowsPerFriendship, OneRowWhilePending, Absent
<1> QED
  BY <1>1, InitInv, NextInv, SerialStep, SerialNextInv, PTL DEF SerialSpec

----------------------------------------------------------------------------
(* What the schema and the comments say. *)

\* "Two rows per accepted friendship": acceptance, removal and denial keep them in pairs.
THEOREM RowsComeInPairs == SerialSpec => []TwoRowsPerFriendship
<1>1. SerialInv => TwoRowsPerFriendship
  BY DEF SerialInv
<1> QED
  BY <1>1, SerialInductive, PTL

\* "One row while pending": nobody asks who has been asked by the other.
THEOREM PendingIsOneRow == SerialSpec => []OneRowWhilePending
<1>1. SerialInv => OneRowWhilePending
  BY DEF SerialInv
<1> QED
  BY <1>1, SerialInductive, PTL

\* RemoveFriend "removes both friendship rows".
THEOREM RemovalIsWhole == SerialSpec => RemoveRemovesBothRows
<1>1. IndInv /\ SerialInv /\ [SerialNext]_vars =>
          [\A p \in Req : TakesEffect(p) /\ call[p].op = "remove" =>
               \A k \in Key : {k[1], k[2]} = {Me(p), Them(p)} =>
                   friendships'[k].status = "absent"]_vars
  <2> SUFFICES ASSUME IndInv, SerialInv, [SerialNext]_vars, NEW p \in Req, TakesEffect(p),
                      call[p].op = "remove", NEW k \in Key, {k[1], k[2]} = {Me(p), Them(p)}
               PROVE  friendships'[k].status = "absent"
    OBVIOUS
  <2>1. Commit(p)
    <3>1. PICK q \in Req : Commit(q)
      BY SerialStep, OnlyCommitApplies DEF TakesEffect
    <3> QED
      BY <3>1, CommitRows DEF TakesEffect
  <2>2. k \in Between(p)
    <3>1. k = <<k[1], k[2]>> /\ k[1] # k[2]
      BY DEF Key
    <3>2. \/ k[1] = Me(p) /\ k[2] = Them(p)
          \/ k[1] = Them(p) /\ k[2] = Me(p)
      BY <3>1
    <3> QED
      BY <3>1, <3>2 DEF Between
  <2>3. friendships'[k] = Absent
    BY <2>1, <2>2, CommitLeaves
  <2> QED
    BY <2>3 DEF Absent
<1> QED
  BY <1>1, SerialInductive, PTL DEF SerialSpec, RemoveRemovesBothRows
=============================================================================
