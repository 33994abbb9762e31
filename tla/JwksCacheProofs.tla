-------------------------- MODULE JwksCacheProofs --------------------------
(***************************************************************************)
(* Proofs about JwksCache for any number of requests and keys, any tokens, *)
(* any Ttl and Timeout, and a clock of any length.  The argument: a        *)
(* document received at t held no key withdrawn before its GET was sent,   *)
(* at t - Timeout at the earliest (BodyInv, ClockInv); so a cache filled   *)
(* at t holds none withdrawn before t - Timeout (KeysInv); and it is       *)
(* believed for less than Ttl.                                             *)
(***************************************************************************)
EXTENDS JwksCache, TLAPS

USE DEF auth0, cache, locals

\* A handler that returns holds nothing any more.
LEMMA AnswerTypes ==
    ASSUME TypeOK, NEW p \in Req, NEW o \in {"served", "refused", "unavailable"}, Answer(p, o)
    PROVE  /\ pc' \in [Req -> {"idle", "lookup", "get", "body"}]
           /\ token' \in [Req -> Token]
           /\ startedAt' \in [Req -> Nat]
           /\ body' \in [Req -> SUBSET (Kid \cup Other)]
           /\ knew' \in [Req -> BOOLEAN]
           /\ outcome' \in [Req -> {"none", "served", "refused", "unavailable"}]
<1>1. NoToken \in Token
    BY DEF NoToken, Token
<1> QED
    BY <1>1 DEF Answer, Goto, TypeOK

\* What a judgement answers.
LEMMA JudgeAnswers ==
    ASSUME NEW p \in Req, Judge(p)
    PROVE  \E o \in {"served", "refused", "unavailable"} : Answer(p, o)
BY DEF Judge

\* The requests that stay where they are keep what the invariant says of them, and so does
\* the one that is answered, of which it says nothing.
LEMMA AnswerKeeps ==
    ASSUME IndInv, NEW p \in Req, NEW o \in {"served", "refused", "unavailable"}, Answer(p, o),
           UNCHANGED <<now, published, gone, goneAt>>
    PROVE  /\ \A q \in Req : pc'[q] \in {"get", "body"} =>
                  startedAt'[q] <= now' /\ now' <= startedAt'[q] + Timeout
           /\ BodyInv'
           /\ KnewInv'
           /\ OutcomeInv'
<1> USE DEF IndInv, TypeOK, Answer, Goto
<1>1. \A q \in Req : /\ q # p => /\ pc'[q] = pc[q] /\ token'[q] = token[q]
                                 /\ startedAt'[q] = startedAt[q] /\ body'[q] = body[q]
                                 /\ knew'[q] = knew[q] /\ outcome'[q] = outcome[q]
                     /\ q = p => pc'[q] = "idle" /\ knew'[q] = FALSE
    OBVIOUS
<1>2. \A q \in Req : pc'[q] \in {"get", "body"} =>
                  startedAt'[q] <= now' /\ now' <= startedAt'[q] + Timeout
    BY <1>1 DEF ClockInv
<1>3. BodyInv'
    BY <1>1 DEF BodyInv
<1>4. KnewInv'
    BY <1>1 DEF KnewInv
<1>5. OutcomeInv'
    BY <1>1 DEF OutcomeInv
<1> QED
    BY <1>2, <1>3, <1>4, <1>5

\* The empty cache of a new process.
LEMMA InitInv == Init => IndInv
<1> SUFFICES ASSUME Init PROVE IndInv
    OBVIOUS
<1> USE DEF Init
<1>1. NoToken \in Token
    BY DEF NoToken, Token
<1>2. TypeOK
    BY <1>1 DEF TypeOK
<1>3. ClockInv /\ KeysInv /\ BodyInv /\ KnewInv /\ OutcomeInv /\ LockInv
    BY DEF ClockInv, KeysInv, BodyInv, KnewInv, OutcomeInv, LockInv
<1> QED
    BY <1>2, <1>3 DEF IndInv

\* Auth0 and the clock.
LEMMA EnvironmentKeepsInv == IndInv /\ Environment => IndInv'
<1> SUFFICES ASSUME IndInv, Environment PROVE IndInv'
    OBVIOUS
<1> USE TimeAssumption DEF TypeOK
<1> TypeOK /\ ClockInv /\ KeysInv /\ BodyInv /\ KnewInv /\ OutcomeInv /\ LockInv
    BY DEF IndInv
<1>1. ASSUME NEW k \in Kid, Publish(k) PROVE IndInv'
  <2> USE <1>1 DEF Publish
  <2>1. TypeOK' /\ ClockInv' /\ LockInv' /\ KnewInv' /\ OutcomeInv'
      BY DEF ClockInv, LockInv, KnewInv, OutcomeInv
  <2>2. KeysInv'
      BY DEF KeysInv
  <2>3. BodyInv'
      BY DEF BodyInv, KnewInv
  <2> QED
      BY <2>1, <2>2, <2>3 DEF IndInv
<1>2. ASSUME NEW k \in Kid, Withdraw(k) PROVE IndInv'
  <2> USE <1>2 DEF Withdraw
  <2>1. TypeOK' /\ ClockInv' /\ LockInv' /\ KnewInv' /\ OutcomeInv'
      BY DEF ClockInv, LockInv, KnewInv, OutcomeInv
  <2>2. KeysInv'
      BY DEF KeysInv, ClockInv
  <2>3. BodyInv'
      BY DEF BodyInv, ClockInv
  <2> QED
      BY <2>1, <2>2, <2>3 DEF IndInv
<1>3. CASE Tick
  <2> USE <1>3 DEF Tick
  <2>1. TypeOK' /\ ClockInv' /\ LockInv' /\ KnewInv' /\ OutcomeInv'
      BY DEF ClockInv, LockInv, KnewInv, OutcomeInv
  <2>2. KeysInv' /\ BodyInv'
      BY DEF KeysInv, BodyInv
  <2> QED
      BY <2>1, <2>2 DEF IndInv
<1>4. CASE Restart
  <2> USE <1>4 DEF Restart
  <2>1. NoToken \in Token
      BY DEF NoToken, Token
  <2>2. TypeOK'
      BY <2>1
  <2>3. ClockInv' /\ KeysInv' /\ BodyInv' /\ KnewInv' /\ OutcomeInv' /\ LockInv'
      BY DEF ClockInv, KeysInv, BodyInv, KnewInv, OutcomeInv, LockInv
  <2> QED
      BY <2>2, <2>3 DEF IndInv
<1> QED
    BY <1>1, <1>2, <1>3, <1>4 DEF Environment

\* The steps of a request.
LEMMA RequestKeepsInv ==
    ASSUME IndInv, NEW p \in Req,
           \/ \E t \in Sent : Auth0Middleware(p, t)
           \/ Lookup(p)
           \/ FetchEnds(p)
           \/ Install(p)
    PROVE  IndInv'
<1> USE TimeAssumption, KidAssumption DEF TypeOK
<1> TypeOK /\ ClockInv /\ KeysInv /\ BodyInv /\ KnewInv /\ OutcomeInv /\ LockInv
    BY DEF IndInv
<1>1. ASSUME NEW t \in Sent, Auth0Middleware(p, t) PROVE IndInv'
  <2> USE <1>1 DEF Auth0Middleware
  <2>1. CASE t.kid = None
    <3>1. Answer(p, "refused")
        BY <2>1
    <3>2. TypeOK'
        BY <2>1, <3>1, AnswerTypes
    <3>3. ClockInv' /\ BodyInv' /\ KnewInv' /\ OutcomeInv'
        BY <3>1, AnswerKeeps DEF ClockInv
    <3>4. KeysInv' /\ LockInv'
        BY <2>1, <3>1 DEF KeysInv, LockInv, Answer, Goto
    <3> QED
        BY <3>2, <3>3, <3>4 DEF IndInv
  <2>2. CASE t.kid # None
    <3> USE <2>2 DEF Goto
    <3>1. TypeOK'
      <4>1. (t.kid \in published) \in BOOLEAN
          OBVIOUS
      <4>2. knew' \in [Req -> BOOLEAN]
          BY <4>1, Zenon
      <4>3. token' \in [Req -> Token]
          BY SentAssumption
      <4> QED
          BY <4>2, <4>3
    <3>2. ClockInv' /\ BodyInv' /\ KeysInv' /\ LockInv' /\ OutcomeInv'
        BY DEF ClockInv, BodyInv, KeysInv, LockInv, OutcomeInv
    <3>3. KnewInv'
        BY DEF KnewInv
    <3> QED
        BY <3>1, <3>2, <3>3 DEF IndInv
  <2> QED
      BY <2>1, <2>2
<1>2. CASE Lookup(p)
  <2> USE <1>2 DEF Lookup
  <2>1. CASE token[p].kid \in keys /\ Fresh
    <3>1. PICK o \in {"served", "refused", "unavailable"} : Answer(p, o)
        BY <2>1, JudgeAnswers
    <3>2. TypeOK'
        BY <3>1, AnswerTypes
    <3>3. ClockInv' /\ BodyInv' /\ KnewInv' /\ OutcomeInv'
        BY <3>1, AnswerKeeps DEF ClockInv
    <3>4. KeysInv' /\ LockInv'
        BY <3>1 DEF KeysInv, LockInv, Answer, Goto
    <3> QED
        BY <3>2, <3>3, <3>4 DEF IndInv
  <2>2. CASE ~ (token[p].kid \in keys /\ Fresh)
    <3> USE <2>2 DEF StartGet, Goto
    <3>1. TypeOK' /\ ClockInv' /\ BodyInv' /\ KeysInv' /\ LockInv' /\ KnewInv' /\ OutcomeInv'
        BY DEF ClockInv, BodyInv, KeysInv, LockInv, KnewInv, OutcomeInv
    <3> QED
        BY <3>1 DEF IndInv
  <2> QED
      BY <2>1, <2>2
<1>3. CASE Respond(p)
  <2> USE <1>3 DEF Respond, Goto
  <2>1. PICK doc \in {published \cup Other, {}} : body' = [body EXCEPT ![p] = doc]
      OBVIOUS
  <2>2. TypeOK'
      BY <2>1
  <2>3. ClockInv' /\ KeysInv' /\ LockInv' /\ KnewInv' /\ OutcomeInv'
      BY DEF ClockInv, KeysInv, LockInv, KnewInv, OutcomeInv
  <2>4. BodyInv'
    <3> SUFFICES ASSUME NEW q \in Req, pc'[q] = "body"
                 PROVE  /\ \A k \in body'[q] \cap Kid :
                               /\ k \in published \cup gone
                               /\ k \in gone => startedAt[q] <= goneAt[k]
                        /\ knew[q] /\ token[q].kid \in published =>
                               token[q].kid \in body'[q] \/ body'[q] = {}
        BY DEF BodyInv
    <3>1. CASE q = p
      <4>1. \A k \in Kid : k \in body'[p] => k \in published
          BY <2>1
      <4> QED
          BY <2>1, <3>1, <4>1
    <3>2. CASE q # p
        BY <3>2 DEF BodyInv
    <3> QED
        BY <3>1, <3>2
  <2> QED
      BY <2>2, <2>3, <2>4 DEF IndInv
<1>4. CASE FetchFails(p)
  <2> USE <1>4 DEF FetchFails
  <2>1. TypeOK'
      BY AnswerTypes
  <2>2. ClockInv' /\ BodyInv' /\ KnewInv' /\ OutcomeInv'
      BY AnswerKeeps DEF ClockInv
  <2>3. KeysInv' /\ LockInv'
      BY DEF KeysInv, LockInv, Answer, Goto
  <2> QED
      BY <2>1, <2>2, <2>3 DEF IndInv
<1>5. CASE Install(p)
  <2> USE <1>5 DEF Install
  <2>1. PICK o \in {"served", "refused", "unavailable"} : Answer(p, o)
      BY JudgeAnswers
  <2>2. TypeOK'
      BY <2>1, AnswerTypes DEF Usable
  <2>3. ClockInv' /\ BodyInv' /\ KnewInv' /\ OutcomeInv'
      BY <2>1, AnswerKeeps DEF ClockInv
  <2>4. KeysInv'
      BY DEF KeysInv, BodyInv, ClockInv, Usable
  <2>5. LockInv'
      BY <2>1 DEF LockInv, Answer, Goto
  <2> QED
      BY <2>2, <2>3, <2>4, <2>5 DEF IndInv
<1> QED
    BY <1>1, <1>2, <1>3, <1>4, <1>5 DEF FetchEnds

\* Every step keeps IndInv, and so does standing still.
LEMMA StepKeepsInv == IndInv /\ [Next]_vars => IndInv'
<1> SUFFICES ASSUME IndInv, [Next]_vars PROVE IndInv'
    OBVIOUS
<1>1. CASE UNCHANGED vars
    BY <1>1 DEF vars, IndInv, TypeOK, ClockInv, KeysInv, BodyInv, KnewInv, OutcomeInv, LockInv
<1> QED
    BY <1>1, EnvironmentKeepsInv, RequestKeepsInv DEF Next

\* IndInv holds at every moment of every run.
THEOREM Inductive == Spec => []IndInv
BY InitInv, StepKeepsInv, PTL DEF Spec

\* The cache, the locks and the requests stay within their types.
THEOREM TypeCorrect == Spec => []TypeOK
<1>1. IndInv => TypeOK
    BY DEF IndInv
<1> QED
    BY <1>1, Inductive, PTL

\* A request under way is judged by a hit in a fresh cache or from the document it received,
\* and by no step of another.
LEMMA WhoJudges ==
    ASSUME IndInv, [Next]_vars, NEW p \in Req, pc[p] # "idle",
           outcome'[p] \in {"served", "refused"}
    PROVE  \/ token[p].kid \in keys /\ Fresh /\ Judge(p)
           \/ /\ pc[p] = "body"
              /\ \/ token[p].kid \in Usable(body[p]) /\ Judge(p)
                 \/ token[p].kid \notin Usable(body[p]) /\ Answer(p, "refused")
<1> USE DEF IndInv, TypeOK
<1>0. outcome[p] = "none"
    BY DEF OutcomeInv
<1>1. ASSUME NEW q \in Req, NEW o, Answer(q, o), q # p PROVE FALSE
    BY <1>0, <1>1 DEF Answer
<1>2. ASSUME NEW q \in Req, Judge(q), q # p PROVE FALSE
    BY <1>0, <1>2 DEF Judge, Answer
<1>3. ASSUME UNCHANGED outcome PROVE FALSE
    BY <1>0, <1>3
<1>4. ASSUME NEW q \in Req, NEW t \in Sent, Auth0Middleware(q, t) PROVE FALSE
    BY <1>0, <1>1, <1>4 DEF Auth0Middleware
<1>5. ASSUME NEW q \in Req, Lookup(q)
      PROVE  token[p].kid \in keys /\ Fresh /\ Judge(p)
    BY <1>2, <1>3, <1>5 DEF Lookup, StartGet
<1>6. ASSUME NEW q \in Req, FetchEnds(q) PROVE FALSE
    BY <1>0, <1>3, <1>6 DEF FetchEnds, Respond, FetchFails, Answer
<1>7. ASSUME NEW q \in Req, Install(q)
      PROVE  /\ pc[p] = "body"
             /\ \/ token[p].kid \in Usable(body[p]) /\ Judge(p)
                \/ token[p].kid \notin Usable(body[p]) /\ Answer(p, "refused")
    BY <1>1, <1>2, <1>7 DEF Install
<1>8. ASSUME Environment PROVE FALSE
    BY <1>0, <1>3, <1>8 DEF Environment, Publish, Withdraw, Tick, Restart
<1>9. ASSUME UNCHANGED vars PROVE FALSE
    BY <1>3, <1>9 DEF vars
<1> QED
    BY <1>4, <1>5, <1>6, <1>7, <1>8, <1>9 DEF Next

\* A withdrawn key is accepted for less than Ttl + Timeout.
THEOREM StalenessIsBounded == Spec => BoundedStaleness
<1> DEFINE Bounded == \A p \in Req : pc[p] # "idle" /\ outcome'[p] = "served" =>
                          LET k == token[p].signer IN
                          /\ k \in published \cup gone
                          /\ k \in gone => now < goneAt[k] + Ttl + Timeout
<1>1. IndInv /\ [Next]_vars => [Bounded]_vars
  <2> SUFFICES ASSUME IndInv, [Next]_vars, NEW p \in Req, pc[p] # "idle", outcome'[p] = "served"
               PROVE  /\ token[p].signer \in published \cup gone
                      /\ token[p].signer \in gone =>
                             now < goneAt[token[p].signer] + Ttl + Timeout
      OBVIOUS
  <2> USE TimeAssumption DEF IndInv, TypeOK
  <2>1. ASSUME Judge(p) PROVE token[p].signer = token[p].kid
      BY <2>1 DEF Judge, Answer
  <2>2. CASE token[p].kid \in keys /\ Fresh /\ Judge(p)
      BY <2>1, <2>2 DEF KeysInv, ClockInv, Fresh
  <2>3. CASE pc[p] = "body" /\ token[p].kid \in Usable(body[p]) /\ Judge(p)
      BY <2>1, <2>3 DEF BodyInv, ClockInv, Usable
  <2>4. ~ Answer(p, "refused")
      BY DEF Answer
  <2> QED
      BY <2>2, <2>3, <2>4, WhoJudges
<1> QED
    BY <1>1, Inductive, PTL DEF Spec, BoundedStaleness

\* A proper token whose key is and was published is refused only when Auth0 answers with an
\* error document.
THEOREM RefusalsHaveReasons == Spec => RefusedForAReason
<1> DEFINE Reasoned == \A p \in Req :
           (/\ pc[p] # "idle" /\ outcome'[p] = "refused"
            /\ knew[p] /\ token[p].kid \in published
            /\ token[p].signer = token[p].kid /\ token[p].claims)
           => pc[p] = "body" /\ body[p] = {}
<1>1. IndInv /\ [Next]_vars => [Reasoned]_vars
  <2> SUFFICES ASSUME IndInv, [Next]_vars, NEW p \in Req, pc[p] # "idle",
                      outcome'[p] = "refused", knew[p], token[p].kid \in published,
                      token[p].signer = token[p].kid, token[p].claims
               PROVE  pc[p] = "body" /\ body[p] = {}
      OBVIOUS
  <2> USE DEF IndInv, TypeOK
  <2>1. ~ Judge(p)
      BY DEF Judge, Answer
  <2>2. pc[p] = "body" /\ token[p].kid \notin Usable(body[p])
      BY <2>1, WhoJudges
  <2> QED
      BY <2>2 DEF BodyInv, Usable
<1> QED
    BY <1>1, Inductive, PTL DEF Spec, RefusedForAReason
=============================================================================
