------------------------ MODULE FriendActivityProofs ------------------------
(***************************************************************************)
(* Theorems about FriendActivity, for any number of users, requests, reads *)
(* and connections.                                                        *)
(*                                                                         *)
(* To the friendship tables the pool and the reads are stuttering: every   *)
(* step is one of Friendships, whose theorems hold here too.  What a read  *)
(* showed stays true because check-ins are written once and an agreement,  *)
(* once made, stays made.                                                  *)
(***************************************************************************)
EXTENDS FriendActivity, FriendshipsProofs, FiniteSetTheorems

----------------------------------------------------------------------------
(* The composition is an instance of Friendships. *)

\* A request over the pool takes a step of the handler, or waits.
LEMMA PoolStep ==
    ASSUME NEW p \in Req, PoolNext(p)
    PROVE  [Next]_vars
<1>1. CASE PoolReceive(p)
  BY <1>1 DEF PoolReceive, Next
<1>2. CASE Begin(p)
  BY <1>2 DEF Begin
<1>3. CASE BeginFails(p)
  BY <1>3 DEF BeginFails, Next, Disturb, Fail
<1>4. CASE PoolProceed(p)
  BY <1>4 DEF PoolProceed, Next
<1>5. CASE PoolDisturb(p)
  BY <1>5 DEF PoolDisturb, Next
<1> QED
  BY <1>1, <1>2, <1>3, <1>4, <1>5 DEF PoolNext

\* Every step of the composition is one of Friendships, or leaves its variables alone.
LEMMA ActivityStep == [ActivityNext]_activityVars => [Next]_vars
<1>1. ASSUME NEW r \in Reader, ReadNext(r) PROVE UNCHANGED vars
  BY <1>1 DEF ReadNext, BeginRead, Read, ReadFails
<1>2. ASSUME NEW s \in Submission, Record(s) PROVE UNCHANGED vars
  BY <1>2 DEF Record
<1>3. CASE AllAnswered \/ UNCHANGED activityVars
  BY <1>3 DEF AllAnswered, activityVars
<1> QED
  BY <1>1, <1>2, <1>3, PoolStep DEF ActivityNext

\* With connections to wait for, reads and check-ins around them, the friendship handlers
\* do nothing they would not do without: all that is proved of Friendships holds.
THEOREM PoolKeepsFriendships == ActivitySpec => Spec
<1>1. Init /\ ActivityInit => Init
  OBVIOUS
<1> QED
  BY <1>1, ActivityStep, PTL DEF ActivitySpec, Spec

----------------------------------------------------------------------------
(* The pool. *)

\* PoolInv and what makes it inductive: the connections can be counted.
PoolIndInv == PoolInv /\ IsFiniteSet(conns)

\* A connection more while one is free, or fewer connections, stay within the limit.
LEMMA Within ==
    ASSUME IsFiniteSet(conns), Cardinality(conns) <= MaxOpen,
           NEW x, \/ conns' \subseteq conns
                  \/ Free /\ conns' \subseteq conns \cup {x}
    PROVE  IsFiniteSet(conns') /\ Cardinality(conns') <= MaxOpen
<1> USE MaxOpenAssumption
<1>1. Cardinality(conns) \in Nat
  BY FS_CardinalityType
<1>2. CASE conns' \subseteq conns
  <2>1. IsFiniteSet(conns') /\ Cardinality(conns') <= Cardinality(conns)
    BY <1>2, FS_Subset
  <2> QED
    BY <1>1, <2>1, FS_CardinalityType
<1>3. CASE Free /\ conns' \subseteq conns \cup {x}
  <2>1. /\ IsFiniteSet(conns \cup {x}) /\ Cardinality(conns \cup {x}) \in Nat
        /\ Cardinality(conns \cup {x}) <= Cardinality(conns) + 1
    <3>1. /\ IsFiniteSet(conns \cup {x})
          /\ \/ Cardinality(conns \cup {x}) = Cardinality(conns)
             \/ Cardinality(conns \cup {x}) = Cardinality(conns) + 1
      BY FS_AddElement
    <3> QED
      BY <1>1, <3>1
  <2>2. IsFiniteSet(conns') /\ Cardinality(conns') <= Cardinality(conns \cup {x})
    BY <1>3, <2>1, FS_Subset
  <2>3. Cardinality(conns') \in Nat
    BY <2>2, FS_CardinalityType
  <2> QED
    BY <1>1, <1>3, <2>1, <2>2, <2>3 DEF Free
<1> QED
  BY <1>2, <1>3

\* A step of a request over the pool keeps the pool's invariant.
LEMMA PoolStepInv ==
    ASSUME TypeOK, PoolIndInv, NEW p \in Req, PoolNext(p)
    PROVE  PoolIndInv'
<1> USE DEF PoolIndInv, PoolInv
<1> DEFINE Inv(q) == (q \in conns => InFlight(q)) /\ (Holds(q) # {} => q \in conns)
<1>0. /\ TypeOK => \A k \in Key : lock[k] \in Req \cup {None}
      /\ \A q \in Req : Inv(q)
  BY DEF TypeOK
<1>1. CASE PoolReceive(p)
  <2>1. /\ pc[p] = "idle" /\ UNCHANGED lock /\ \A q \in Req \ {p} : pc'[q] = pc[q]
        /\ Free /\ conns' \in {conns, conns \cup {p}}
        /\ p \in conns' => p \in conns \/ pc'[p] \in {"visit", "commit"}
    BY <1>1, ReceiveFacts DEF PoolReceive
  <2>2. p \notin conns /\ Holds(p) = {}
    BY <2>1 DEF InFlight, Statement
  <2>3. \A q \in Req : Inv(q)'
    BY <1>0, <2>1, <2>2 DEF InFlight, Statement, Holds
  <2> QED
    BY <2>1, <2>3, Within
<1>2. CASE Begin(p)
  <2>1. InFlight(p) /\ Free /\ conns' = conns \cup {p} /\ UNCHANGED <<pc, lock>>
    BY <1>2 DEF Begin, vars
  <2>2. \A q \in Req : Inv(q)'
    BY <1>0, <2>1 DEF InFlight, Holds
  <2> QED
    BY <2>1, <2>2, Within
<1>3. CASE BeginFails(p)
  <2>1. /\ Disturb(p) /\ p \notin conns /\ conns' = conns /\ pc'[p] = "done"
    BY <1>3 DEF BeginFails, Disturb, Fail, RollBack, Answer, Goto, TypeOK
  <2>2. /\ \A q \in Req \ {p} : pc'[q] = pc[q]
        /\ \A k \in Key : lock'[k] \in {lock[k], p, None} /\ lock'[k] # p
    BY <2>1, StatementFacts
  <2>3. \A q \in Req : Inv(q)'
    BY <1>0, <2>1, <2>2, NullAssumption DEF InFlight, Holds
  <2> QED
    BY <2>1, <2>3
<1>4. CASE PoolProceed(p) \/ PoolDisturb(p)
  <2>1. p \in conns /\ (Proceed(p) \/ Disturb(p)) /\ conns' = Kept(p)
    BY <1>4 DEF PoolProceed, PoolDisturb
  <2>2. /\ pc'[p] \in Statement \cup {"done"} /\ \A q \in Req \ {p} : pc'[q] = pc[q]
        /\ \A k \in Key : lock'[k] \in {lock[k], p, None}
        /\ pc'[p] = "done" => \A k \in Key : lock'[k] # p
    BY <2>1, StatementFacts
  <2>3. conns' \subseteq conns /\ conns \ {p} \subseteq conns'
        /\ (p \in conns' <=> pc'[p] # "done")
    BY <2>1 DEF Kept
  <2>4. \A q \in Req : Inv(q)'
    <3>1. Inv(p)'
      BY <2>2, <2>3 DEF InFlight, Holds
    <3>2. ASSUME NEW q \in Req \ {p} PROVE Inv(q)'
      BY <1>0, <2>2, <2>3, <3>2, NullAssumption DEF InFlight, Holds
    <3> QED
      BY <3>1, <3>2
  <2> QED
    BY <2>3, <2>4, Within
<1> QED
  BY <1>1, <1>2, <1>3, <1>4 DEF PoolNext

\* So does every other step.
LEMMA PoolNextInv == TypeOK /\ PoolIndInv /\ [ActivityNext]_activityVars => PoolIndInv'
<1> SUFFICES ASSUME TypeOK, PoolIndInv, [ActivityNext]_activityVars
             PROVE  PoolIndInv'
  OBVIOUS
<1>0. ASSUME UNCHANGED vars,
             \/ conns' \subseteq conns /\ conns \cap Req \subseteq conns'
             \/ \E r \in Reader : Free /\ conns' = conns \cup {r}
      PROVE  PoolIndInv'
  <2>1. UNCHANGED <<pc, lock>> /\ conns' \cap Req = conns \cap Req /\ conns' \subseteq Req \cup Reader
    BY <1>0, ReaderAssumption DEF vars, PoolIndInv, PoolInv
  <2>2. IsFiniteSet(conns') /\ Cardinality(conns') <= MaxOpen
    BY <1>0, Within DEF PoolIndInv, PoolInv
  <2> QED
    BY <2>1, <2>2 DEF PoolIndInv, PoolInv, InFlight, Holds
<1>1. ASSUME NEW r \in Reader, ReadNext(r) PROVE PoolIndInv'
  BY <1>0, <1>1, ReaderAssumption DEF ReadNext, BeginRead, Read, ReadFails
<1>2. ASSUME NEW s \in Submission, Record(s) PROVE PoolIndInv'
  BY <1>0, <1>2 DEF Record
<1>3. CASE AllAnswered \/ UNCHANGED activityVars
  BY <1>0, <1>3 DEF AllAnswered, activityVars
<1> QED
  BY <1>1, <1>2, <1>3, PoolStepInv DEF ActivityNext

\* Never more connections than the pool has, and no row is locked by a request that still
\* waits for one: Begin comes before the first statement and every end gives back.
THEOREM PoolHolds == ActivitySpec => []PoolInv
<1>1. Init /\ ActivityInit => PoolIndInv
  <2>1. IsFiniteSet({}) /\ Cardinality({}) = 0
    BY FS_EmptySet
  <2> QED
    BY <2>1, MaxOpenAssumption, NullAssumption DEF Init, ActivityInit, PoolIndInv, PoolInv, Holds
<1>2. PoolIndInv => PoolInv
  BY DEF PoolIndInv
<1> QED
  BY <1>1, <1>2, PoolNextInv, PoolKeepsFriendships, TypeCorrect, PTL DEF ActivitySpec
----------------------------------------------------------------------------
(* Whose check-ins are shown. *)

\* What FeedByConsent needs: the log holds submissions, and a read of the activity has a
\* reader and shows check-ins.
FeedIndInv ==
    /\ stored \in [CheckInId -> Submission \cup {None}]
    /\ view \in [Reader -> [op : ReadOps \cup {"none", "error"}, user : User \cup {None},
                            rows : SUBSET (Key \cup Req \cup CheckInId)]]
    /\ \A r \in Reader : view[r].op = "activity" =>
           view[r].user \in User /\ view[r].rows \subseteq CheckInId
    /\ FeedByConsent

\* The query shows check-ins of users the reader has agreed with.
LEMMA ActivityByConsent ==
    ASSUME IndInv, stored \in [CheckInId -> Submission \cup {None}],
           NEW u \in User, NEW i \in Activity(u)
    PROVE  /\ i \in CheckInId /\ stored[i] # None /\ stored[i].time >= Since
           /\ \E a, s \in Req : \/ Accepted(a, s, u, stored[i].user)
                                \/ Accepted(a, s, stored[i].user, u)
<1>1. /\ i \in CheckInId /\ stored[i] # None /\ stored[i].time >= Since
      /\ <<u, stored[i].user>> \in Key
      /\ friendships[<<u, stored[i].user>>].status = "accepted"
  BY DEF Activity, Friends
<1> QED
  BY <1>1 DEF IndInv, Consent

\* Every step of the composition keeps what was shown true.
LEMMA FeedNextInv == IndInv /\ FeedIndInv /\ [ActivityNext]_activityVars => FeedIndInv'
<1> SUFFICES ASSUME IndInv, FeedIndInv, [ActivityNext]_activityVars
             PROVE  FeedIndInv'
  OBVIOUS
<1>a. \A a, s \in Req, u, f \in User : Accepted(a, s, u, f) => Accepted(a, s, u, f)'
  BY ActivityStep, AgreementStays
<1>u. ASSUME NEW r \in Reader, view[r].op = "activity", NEW i \in view[r].rows
      PROVE  /\ i \in CheckInId /\ stored[i] \in Submission /\ stored[i].time >= Since
             /\ view[r].user \in User /\ stored[i].user \in User
             /\ \A u, f \in User : u = view[r].user /\ f = stored[i].user =>
                    \E a, s \in Req : Accepted(a, s, u, f)' \/ Accepted(a, s, f, u)'
  <2>1. i \in CheckInId /\ stored[i] # None /\ view[r].user \in User /\ stored[i].time >= Since
    BY <1>u DEF FeedIndInv, FeedByConsent
  <2>2. stored[i] \in Submission /\ stored[i].user \in User
    BY <2>1, SubmissionAssumption DEF FeedIndInv
  <2>3. ASSUME NEW u \in User, NEW f \in User, u = view[r].user, f = stored[i].user
        PROVE  \E a, s \in Req : Accepted(a, s, u, f)' \/ Accepted(a, s, f, u)'
    <3>1. PICK a \in Req, s \in Req : Accepted(a, s, u, f) \/ Accepted(a, s, f, u)
      BY <1>u, <2>3 DEF FeedIndInv, FeedByConsent
    <3> QED
      BY <1>a, <3>1
  <2> QED
    BY <2>1, <2>2, <2>3
<1> DEFINE Shown(r) ==
        view[r].op = "activity" =>
            /\ view[r].user \in User /\ view[r].rows \subseteq CheckInId
            /\ \A i \in view[r].rows :
                /\ stored[i] # None /\ stored[i].time >= Since
                /\ \E a, s \in Req : \/ Accepted(a, s, view[r].user, stored[i].user)
                                     \/ Accepted(a, s, stored[i].user, view[r].user)
<1>e. (\A r \in Reader : Shown(r)') => /\ FeedByConsent'
                                       /\ \A r \in Reader : view'[r].op = "activity" =>
                                              view'[r].user \in User /\ view'[r].rows \subseteq CheckInId
  BY DEF FeedByConsent
\* What was shown is still so where stored rows stay.
<1>v. ASSUME \A i \in CheckInId : stored[i] # None => stored'[i] = stored[i],
             NEW r \in Reader, view'[r] = view[r]
      PROVE  Shown(r)'
  <2> SUFFICES ASSUME view[r].op = "activity", NEW i \in view[r].rows
               PROVE  /\ view[r].user \in User /\ view[r].rows \subseteq CheckInId
                      /\ stored'[i] # None /\ stored'[i].time >= Since
                      /\ \E a, s \in Req : \/ Accepted(a, s, view[r].user, stored[i].user)'
                                           \/ Accepted(a, s, stored[i].user, view[r].user)'
    BY <1>v DEF FeedIndInv
  <2>1. stored'[i] = stored[i] /\ stored[i] # None /\ view[r].rows \subseteq CheckInId
    BY <1>u, <1>v, NoneAssumption DEF FeedIndInv
  <2>2. /\ \A u, f \in User : u = view'[r].user /\ f = stored'[i].user =>
               \E a, s \in Req : Accepted(a, s, u, f)' \/ Accepted(a, s, f, u)'
        /\ view'[r].user \in User /\ stored'[i].user \in User /\ stored[i].time >= Since
    BY <1>u, <1>v, <2>1
  <2>3. \E a, s \in Req : \/ Accepted(a, s, view[r].user, stored[i].user)'
                          \/ Accepted(a, s, stored[i].user, view[r].user)'
    BY <2>2
  <2> QED
    BY <1>v, <2>1, <2>2, <2>3
<1> HIDE DEF Shown
\* Steps that show nothing.
<1>1. ASSUME UNCHANGED view, stored' \in [CheckInId -> Submission \cup {None}],
             \A i \in CheckInId : stored[i] # None => stored'[i] = stored[i]
      PROVE  FeedIndInv'
  BY <1>1, <1>e, <1>v DEF FeedIndInv
<1>2. ASSUME NEW r \in Reader, ReadNext(r) PROVE FeedIndInv'
  <2>1. CASE BeginRead(r)
    BY <1>1, <2>1 DEF BeginRead, FeedIndInv
  <2>2. CASE ReadFails(r)
    <3>1. /\ view' = [view EXCEPT ![r].op = "error"] /\ UNCHANGED stored
          /\ view \in [Reader -> [op : ReadOps \cup {"none", "error"}, user : User \cup {None},
                                  rows : SUBSET (Key \cup Req \cup CheckInId)]]
      BY <2>2 DEF ReadFails, FeedIndInv
    <3>2. view' \in [Reader -> [op : ReadOps \cup {"none", "error"}, user : User \cup {None},
                                rows : SUBSET (Key \cup Req \cup CheckInId)]]
      BY <3>1
    <3>3. Shown(r)'
      BY <3>1 DEF Shown, ReadOps
    <3>4. ASSUME NEW q \in Reader \ {r} PROVE Shown(q)'
      BY <3>1, <1>v
    <3> QED
      BY <3>1, <3>2, <3>3, <3>4, <1>e DEF FeedIndInv
  <2>3. ASSUME NEW op \in ReadOps, NEW u \in User, Read(r, op, u) PROVE FeedIndInv'
    <3>1. PICK rows : /\ rows \in CASE op = "listFriends" -> SUBSET Friends(u)
                                    [] op = "listNotifications" -> SUBSET NotificationsOf(u)
                                    [] op = "activity" -> Latest(Activity(u))
                      /\ view' = [view EXCEPT ![r] = [op |-> op, user |-> u, rows |-> rows]]
                      /\ UNCHANGED <<vars, stored>>
      BY <2>3 DEF Read
    <3>2. /\ op = "listFriends" => rows \subseteq Key
          /\ op = "listNotifications" => rows \subseteq Req
          /\ op = "activity" => rows \subseteq Activity(u)
      BY <3>1 DEF ReadOps, Friends, NotificationsOf, Latest
    <3>3. Activity(u) \subseteq CheckInId
      BY DEF Activity
    <3>4. rows \in SUBSET (Key \cup Req \cup CheckInId)
      BY <3>2, <3>3 DEF ReadOps
    <3>5. view' \in [Reader -> [op : ReadOps \cup {"none", "error"}, user : User \cup {None},
                                rows : SUBSET (Key \cup Req \cup CheckInId)]]
      BY <3>1, <3>4 DEF FeedIndInv
    <3>6. view'[r] = [op |-> op, user |-> u, rows |-> rows]
      BY <3>1 DEF FeedIndInv
    <3>7. ASSUME op = "activity", NEW i \in rows
          PROVE  /\ i \in CheckInId /\ stored[i] # None /\ stored[i].time >= Since
                 /\ \E a, s \in Req : \/ Accepted(a, s, u, stored[i].user)
                                      \/ Accepted(a, s, stored[i].user, u)
      BY <3>2, <3>7, ActivityByConsent DEF FeedIndInv
    <3>8. Shown(r)'
      BY <3>1, <3>6, <3>7 DEF Shown, Accepted, Asked, Me, Them, vars
    <3>9. ASSUME NEW q \in Reader \ {r} PROVE Shown(q)'
      <4>1. view'[q] = view[q] /\ UNCHANGED stored
        BY <3>1 DEF FeedIndInv
      <4> QED
        BY <4>1, <1>v
    <3> QED
      BY <3>1, <3>5, <3>8, <3>9, <1>e DEF FeedIndInv
  <2> QED
    BY <1>2, <2>1, <2>2, <2>3 DEF ReadNext
<1>3. ASSUME NEW s \in Submission, Record(s) PROVE FeedIndInv'
  <2>1. stored[s.id] = None /\ stored' = [stored EXCEPT ![s.id] = s] /\ UNCHANGED view
    BY <1>3 DEF Record, Log!Record
  <2> QED
    BY <1>1, <2>1 DEF FeedIndInv
<1>4. CASE UNCHANGED <<stored, view>>
  BY <1>1, <1>4 DEF FeedIndInv
<1> QED
  BY <1>2, <1>3, <1>4 DEF ActivityNext, AllAnswered, activityVars

\* Nobody is ever shown a check-in of somebody who did not agree to it, whatever requests,
\* reads and check-ins interleave, wait for connections or fail.
THEOREM FeedConsented == ActivitySpec => []FeedByConsent
<1>1. Init /\ ActivityInit => FeedIndInv
  <2> SUFFICES ASSUME ActivityInit PROVE FeedIndInv
    OBVIOUS
  <2>1. stored \in [CheckInId -> Submission \cup {None}]
    BY EarlierAssumption DEF ActivityInit, Log!Init
  <2> QED
    BY <2>1 DEF ActivityInit, NotAsked, FeedIndInv, FeedByConsent, ReadOps
<1>2. FeedIndInv => FeedByConsent
  BY DEF FeedIndInv
<1> QED
  BY <1>1, <1>2, FeedNextInv, PoolKeepsFriendships, Inductive, PTL DEF ActivitySpec
=============================================================================
