-------------------------- MODULE DirectoryProofs --------------------------
(***************************************************************************)
(* Proofs about Directory for any number of requests, users and places:    *)
(* IndInv is inductive, so that answers are true, and every behaviour is   *)
(* one of Catalog.                                                         *)
(*                                                                         *)
(* Only Commit changes the tables.  Every other step is of one request and *)
(* keeps the invariant of all others; GiveUp and Write, in which most of   *)
(* them end, have their lemmas.                                            *)
(***************************************************************************)
EXTENDS Directory, TLAPS

\* The arguments of a call, told by its endpoint.
LEMMA CallFields ==
    ASSUME NEW c \in Call
    PROVE  /\ c.op = "register" => c.user \in UserId /\ c.email \in Email
           /\ c.op = "create" => c.place \in Place /\ c = [op |-> "create", place |-> c.place]
           /\ c.op \in FavoriteOps =>
                  /\ c.user \in UserId /\ c.loc \in LocationId
                  /\ c = [op |-> c.op, user |-> c.user, loc |-> c.loc]
           /\ c.op \in {"register", "create", "add", "remove", "check", "none"}
<1>1. CASE c \in [op : {"register"}, user : UserId, email : Email]
    BY <1>1 DEF FavoriteOps
<1>2. CASE c \in [op : {"create"}, place : Place]
    BY <1>2 DEF FavoriteOps
<1>3. CASE c \in [op : FavoriteOps, user : UserId, loc : LocationId]
    BY <1>3 DEF FavoriteOps
<1>4. CASE c = NoCall
    BY <1>4 DEF FavoriteOps, NoCall
<1> QED
    BY <1>1, <1>2, <1>3, <1>4 DEF Call

\* The initial state, with what was there before.
LEMMA InitInv == Init => IndInv
<1> SUFFICES ASSUME Init PROVE IndInv
    OBVIOUS
<1> USE NullAssumption, OldUsersAssumption, OldPlacesAssumption, OldFavoritesAssumption DEF Init
<1>1. TypeOK
  <2>1. \A k \in DOMAIN OldFavorites : OldFavorites[k] \in OldRow
      BY DEF OldRow
  <2>2. \A l \in DOMAIN OldPlaces : OldPlaces[l] \in LocationId
      BY DEF OldId, LocationId
  <2>3. NoCall \in Call /\ Told("none") \in Reply
      BY DEF Call, Told, Reply, Status
  <2> QED
      BY <2>1, <2>2, <2>3 DEF TypeOK
<1>2. CallInv
    BY DEF CallInv
<1>3. RowInv
  <2>1. \A l \in DOMAIN OldPlaces : OldPlaces[l] \in LocationId /\ OldPlaces[l] # None
      BY DEF OldId, LocationId
  <2>2. \A u, v \in UserId : users[u] # None /\ users[u] = users[v] => u = v
      OBVIOUS
  <2>3. \A l, m \in Place : locations[l] # None /\ locations[l] = locations[m] => l = m
      BY <2>1
  <2>4. \A l \in Place : locations[l] \notin Req
      BY DEF LocationId
  <2>5. ASSUME NEW k \in Favorite, favorites[k] # None
        PROVE  users[k[1]] # None /\ Exists(k[2]) /\ RowFor(favorites[k], k)
    <3>1. k \in DOMAIN OldFavorites /\ k[1] \in DOMAIN OldUsers /\ k[2] \in OldId
        BY <2>5
    <3>2. users[k[1]] # None
        BY <3>1
    <3>3. Exists(k[2])
        BY <3>1 DEF Exists, OldId
    <3> QED
        BY <2>5, <3>1, <3>2, <3>3 DEF RowFor
  <2> QED
      BY <2>2, <2>3, <2>4, <2>5 DEF RowInv
<1>4. LockInv
    BY DEF LockInv
<1>5. MomentInv /\ AnswersAreTrue
    BY DEF MomentInv, AnswersAreTrue, AnswerIsTrue, NoCall, FavoriteOps
<1> QED
    BY <1>1, <1>2, <1>3, <1>4, <1>5 DEF IndInv

\* A step that answers nobody and leaves the tables alone keeps every answer true.
LEMMA SameAnswers ==
    ASSUME AnswersAreTrue, UNCHANGED <<tables, call, seen, moments, reply>>
    PROVE  AnswersAreTrue'
<1> SUFFICES ASSUME NEW p \in Req PROVE AnswerIsTrue(p)'
    BY DEF AnswersAreTrue
<1>1. AnswerIsTrue(p)
    BY DEF AnswersAreTrue
<1> QED
    BY <1>1 DEF AnswerIsTrue, tables

\* A request that gives up keeps IndInv when it has a reason.
LEMMA GiveUpKeepsInv ==
    ASSUME IndInv, NEW p \in Req, InFlight(p), NEW status \in Status \ {"none", "ok"},
           GiveUp(p, status),
           status = "refused" => LET c == call[p] IN
               /\ c.op = "register" => \E v \in UserId \ {c.user} : users[v] = c.email
               /\ c.op = "add" => FALSE \in moments[p],
           status = "exists" /\ call[p].op = "create" =>
               locations[call[p].place] \notin {None, p},
           status = "notFound" /\ call[p].op = "remove" => FALSE \in moments[p]
    PROVE  IndInv'
<1> USE DEF GiveUp, Answer, Goto, tables, TypeOK
<1> TypeOK
    BY DEF IndInv
<1>1. TypeOK'
    BY DEF Reply
<1>2. CallInv'
    BY DEF IndInv, CallInv, InFlight, Statement
<1>3. RowInv'
    BY DEF IndInv, RowInv, RowFor, Exists, InFlight, Statement
<1>4. LockInv'
    BY DEF IndInv, LockInv, Exists, Named
<1>5. MomentInv'
    BY DEF IndInv, MomentInv, RowFor, Named, InFlight, Statement
<1>6. AnswersAreTrue'
  <2>1. reply'[p].status = status /\ \A q \in Req \ {p} : reply'[q] = reply[q]
      OBVIOUS
  <2>2. AnswerIsTrue(p)'
      BY <2>1 DEF AnswerIsTrue, Status
  <2>3. ASSUME NEW q \in Req \ {p} PROVE AnswerIsTrue(q)'
    <3>1. AnswerIsTrue(q)
        BY DEF IndInv, AnswersAreTrue
    <3>2. reply'[p].status # "ok"
        BY <2>1 DEF Status
    <3> QED
        BY <2>1, <3>1, <3>2 DEF AnswerIsTrue
  <2> QED
      BY <2>2, <2>3 DEF AnswersAreTrue
<1> QED
    BY <1>1, <1>2, <1>3, <1>4, <1>5, <1>6 DEF IndInv

\* The clashes of two calls do not depend on their order.
LEMMA ClashSymmetric == ASSUME NEW c, NEW d PROVE Clash(c, d) <=> Clash(d, c)
BY DEF Clash

\* A statement that writes a row keeps IndInv when the row is one that may be written.
LEMMA WriteKeepsInv ==
    ASSUME IndInv, NEW p \in Req, pc[p] \in Statement \ {"commit"}, Write(p), ~ Waits(p),
           call[p].op \in {"register", "create", "add", "remove"},
           call[p].op = "register" => /\ users[call[p].user] = None
                                      /\ \A v \in UserId : users[v] # call[p].email,
           call[p].op = "create" => locations[call[p].place] = None,
           call[p].op = "add" => users[call[p].user] # None /\ Exists(call[p].loc),
           call[p].op = "remove" => seen[p] # None /\ favorites[Named(p)] = seen[p]
    PROVE  IndInv'
<1> USE DEF Write, Goto, tables, TypeOK
<1> TypeOK
    BY DEF IndInv
<1>1. TypeOK'
    BY DEF Statement
<1>2. CallInv'
    BY DEF IndInv, CallInv, Statement
<1>3. RowInv'
    BY DEF IndInv, RowInv, RowFor, Exists, Statement
<1>4. LockInv'
  <2>1. \A q \in wrote : q # p /\ ~ Clash(call[p], call[q]) /\ ~ Clash(call[q], call[p])
      BY ClashSymmetric DEF IndInv, LockInv, Waits
  <2> QED
      BY <2>1 DEF IndInv, LockInv, Exists, Named
<1>5. MomentInv'
    BY DEF IndInv, MomentInv, RowFor, Named, InFlight, Statement
<1>6. AnswersAreTrue'
    BY SameAnswers DEF IndInv
<1> QED
    BY <1>1, <1>2, <1>3, <1>4, <1>5, <1>6 DEF IndInv

\* A request that is answered from a query, or told that its token is not Auth0's.
LEMMA AnswerKeepsInv ==
    ASSUME IndInv, NEW p \in Req, pc[p] = "idle", NEW status \in Status \ {"none"},
           NEW rows \in SUBSET (UserId \cup LocationId \cup OldRow \cup BOOLEAN),
           Answer(p, status, rows), UNCHANGED <<tables, call, seen, wrote, moments>>
    PROVE  IndInv'
<1> USE DEF Answer, Goto, tables, TypeOK
<1> TypeOK
    BY DEF IndInv
<1>0. call[p] = NoCall
    BY DEF IndInv, CallInv
<1>1. TypeOK'
    BY DEF Reply
<1>2. CallInv'
    BY DEF IndInv, CallInv
<1>3. RowInv'
    BY DEF IndInv, RowInv, RowFor, Exists
<1>4. LockInv'
    BY DEF IndInv, LockInv, Exists, Named
<1>5. MomentInv'
    BY <1>0 DEF IndInv, MomentInv, RowFor, Named, InFlight, Statement, NoCall, FavoriteOps
<1>6. AnswersAreTrue'
  <2>1. call[p].op = "none"
      BY <1>0 DEF NoCall
  <2>2. AnswerIsTrue(p)'
      BY <2>1 DEF AnswerIsTrue
  <2>3. ASSUME NEW q \in Req \ {p} PROVE AnswerIsTrue(q)'
    <3>1. AnswerIsTrue(q) /\ reply'[q] = reply[q]
        BY DEF IndInv, AnswersAreTrue
    <3> QED
        BY <2>1, <3>1 DEF AnswerIsTrue
  <2> QED
      BY <2>2, <2>3 DEF AnswersAreTrue
<1> QED
    BY <1>1, <1>2, <1>3, <1>4, <1>5, <1>6 DEF IndInv

\* A request about a favorite begins, or is answered at once: with the moment it has seen.
LEMMA NamesKeepsInv ==
    ASSUME IndInv, NEW p \in Req, NEW op \in FavoriteOps, NEW u \in UserId, NEW i \in LocationId,
           Names(p, op, u, i), UNCHANGED <<tables, wrote>>,
           \/ op = "add" /\ Goto(p, "upsertFavorite") /\ UNCHANGED <<seen, reply>>
           \/ op = "remove" /\ Goto(p, "deleteFavorite") /\ UNCHANGED reply
              /\ seen' = [seen EXCEPT ![p] = favorites[<<u, i>>]]
           \/ op = "check" /\ Answer(p, "ok", {favorites[<<u, i>>] # None}) /\ UNCHANGED seen
    PROVE  IndInv'
<1> USE DEF Names, Goto, tables, TypeOK
<1> TypeOK
    BY DEF IndInv
<1> DEFINE k == <<u, i>>
           c == [op |-> op, user |-> u, loc |-> i]
<1>0. /\ pc[p] = "idle" /\ call[p] = NoCall /\ seen[p] = None /\ k \in Favorite
      /\ c \in Call /\ call' = [call EXCEPT ![p] = c]
      /\ moments' = [moments EXCEPT ![p] = {favorites[k] # None}]
      /\ p \notin wrote
    BY DEF IndInv, CallInv, LockInv, Favorite, Call, FavoriteOps
<1>1. TypeOK'
  <2> DEFINE b == {favorites[k] # None}
  <2>1. b \in SUBSET BOOLEAN
      OBVIOUS
  <2> HIDE DEF b
  <2>2. [status |-> "ok", rows |-> b] \in Reply
      BY <2>1 DEF Reply, Status
  <2>3. reply' \in [Req -> Reply]
      BY <2>2 DEF Answer, b
  <2>4. moments' \in [Req -> SUBSET BOOLEAN]
      BY <1>0, <2>1 DEF b
  <2>5. call' \in [Req -> Call] /\ seen' \in [Req -> Req \cup OldRow \cup {None}]
      BY <1>0
  <2>6. pc' \in [Req -> {"idle", "done"} \cup Statement]
      BY DEF Statement, Answer
  <2> QED
      BY <2>3, <2>4, <2>5, <2>6
<1>2. \A q \in Req : q # p => /\ pc'[q] = pc[q] /\ call'[q] = call[q] /\ seen'[q] = seen[q]
                              /\ moments'[q] = moments[q] /\ reply'[q] = reply[q]
                              /\ Named(q)' = Named(q)
    BY <1>0 DEF Answer, Named
<1>3. /\ call'[p].op = op /\ Named(p)' = k /\ moments'[p] = {favorites[k] # None}
      /\ seen'[p] = IF op = "remove" THEN favorites[k] ELSE None
      /\ \/ op = "add" /\ pc'[p] = "upsertFavorite" /\ reply'[p] = reply[p]
         \/ op = "remove" /\ pc'[p] = "deleteFavorite" /\ reply'[p] = reply[p]
         \/ op = "check" /\ pc'[p] = "done"
    BY <1>0 DEF Answer, Named
<1> wrote \subseteq Req
    OBVIOUS
<1> HIDE DEF Names, Goto, TypeOK, c, k
<1>4. CallInv'
  <2> SUFFICES ASSUME NEW q \in Req
               PROVE  (/\ pc[q] = "idle" => call[q] = NoCall /\ seen[q] = None
                       /\ pc[q] # "done" => reply[q] = Told("none")
                       /\ pc[q] = "insertUser" => call[q].op = "register"
                       /\ pc[q] = "insertLocation" => call[q].op = "create"
                       /\ pc[q] = "upsertFavorite" => call[q].op = "add"
                       /\ pc[q] = "deleteFavorite" => call[q].op = "remove"
                       /\ pc[q] = "commit" => \/ q \in wrote
                                              \/ call[q].op = "register" /\ users[call[q].user] # None)'
      BY DEF CallInv
  <2>1. CASE q = p
      BY <2>1, <1>0, <1>3 DEF IndInv, CallInv
  <2>2. CASE q # p
      BY <2>2, <1>2, <1>3 DEF IndInv, CallInv
  <2> QED
      BY <2>1, <2>2
<1>5. RowInv'
  <2>1. \A j \in Req : pc[j] = "done" => pc'[j] = "done" /\ call'[j] = call[j]
      BY <1>0, <1>2, <1>3
  <2> QED
      BY <2>1 DEF IndInv, RowInv, RowFor, Exists
<1>6. LockInv'
  <2> SUFFICES ASSUME NEW q \in wrote
               PROVE  /\ pc'[q] = "commit" /\ call'[q] = call[q] /\ seen'[q] = seen[q]
                      /\ \A j \in wrote : call'[j] = call[j]
      BY DEF IndInv, LockInv, Exists, Named
  <2> QED
      BY <1>0, <1>2, <1>3 DEF IndInv, LockInv
<1>7. MomentInv'
  <2> SUFFICES ASSUME NEW q \in Req, call'[q].op \in FavoriteOps
               PROVE  (/\ InFlight(q) => (favorites[Named(q)] # None) \in moments[q]
                       /\ call[q].op = "remove" /\ seen[q] = None => FALSE \in moments[q]
                       /\ seen[q] # None =>
                              /\ TRUE \in moments[q] /\ RowFor(seen[q], Named(q))
                              /\ InFlight(q) /\ favorites[Named(q)] # seen[q]
                                     => FALSE \in moments[q])'
      BY DEF MomentInv
  <2>1. \A j \in Req : pc[j] = "done" => pc'[j] = "done" /\ call'[j] = call[j]
      BY <1>0, <1>2, <1>3
  <2>2. CASE q = p
    <3>1. favorites[k] # None => RowFor(favorites[k], k)'
        BY <1>0, <2>1 DEF IndInv, RowInv, RowFor
    <3> QED
        BY <2>2, <3>1, <1>0, <1>2, <1>3
  <2>3. CASE q # p
    <3>0. seen[q] # None => RowFor(seen[q], Named(q))
        BY <2>3, <1>2 DEF IndInv, MomentInv
    <3>1. seen[q] # None => RowFor(seen[q], Named(q))'
        BY <2>1, <2>3, <3>0, <1>2 DEF RowFor
    <3> QED
        BY <2>3, <3>1, <1>2, <1>3 DEF IndInv, MomentInv, InFlight
  <2> QED
      BY <2>2, <2>3
<1>8. AnswersAreTrue'
  <2>1. reply[p] = Told("none")
      BY <1>0 DEF IndInv, CallInv
  <2>2. call'[p].op = "check" \/ (call'[p].op \in FavoriteOps /\ reply'[p].status = "none")
    <3>1. Told("none").status = "none"
        BY DEF Told
    <3>2. op # "check" => reply'[p].status = "none"
        BY <2>1, <1>3, <3>1
    <3> QED
        BY <1>3, <3>2
  <2>3. AnswerIsTrue(p)'
      BY <2>2 DEF AnswerIsTrue, FavoriteOps
  <2>4. ASSUME NEW q \in Req \ {p} PROVE AnswerIsTrue(q)'
    <3>1. AnswerIsTrue(q)
        BY DEF IndInv, AnswersAreTrue
    <3>2. call'[p].op # "remove" \/ reply'[p].status # "ok"
        BY <2>2
    <3>3. /\ call'[q] = call[q] /\ reply'[q] = reply[q] /\ seen'[q] = seen[q]
          /\ moments'[q] = moments[q] /\ UNCHANGED <<users, locations, favorites>>
        BY <1>2, <1>3 DEF tables
    <3>4. \A j \in Req : call'[j].op = "remove" /\ reply'[j].status = "ok" =>
              call[j].op = "remove" /\ reply[j].status = "ok" /\ seen'[j] = seen[j]
        BY <1>2, <1>3, <3>2
    <3> QED
        BY <3>1, <3>3, <3>4 DEF AnswerIsTrue
  <2> QED
      BY <2>3, <2>4 DEF AnswersAreTrue
<1> QED
    BY <1>1, <1>4, <1>5, <1>6, <1>7, <1>8 DEF IndInv

\* A registration or a creation begins.
LEMMA BeginKeepsInv ==
    ASSUME IndInv, NEW p \in Req, pc[p] = "idle", NEW c \in Call,
           call' = [call EXCEPT ![p] = c], UNCHANGED <<tables, seen, wrote, moments, reply>>,
           \/ c.op = "register" /\ Goto(p, "insertUser")
           \/ c.op = "create" /\ Goto(p, "insertLocation")
    PROVE  IndInv'
<1> USE DEF Goto, tables, TypeOK
<1> TypeOK
    BY DEF IndInv
<1>0. /\ seen[p] = None /\ reply[p] = Told("none") /\ Told("none").status = "none"
      /\ p \notin wrote /\ wrote \subseteq Req /\ c.op \notin FavoriteOps
    BY DEF IndInv, CallInv, LockInv, FavoriteOps, Told
<1>1. TypeOK'
    BY DEF Statement
<1>2. \A q \in Req : q # p => pc'[q] = pc[q] /\ call'[q] = call[q] /\ Named(q)' = Named(q)
    BY DEF Named
<1>3. call'[p] = c
    OBVIOUS
<1> HIDE DEF Goto, TypeOK
<1>4. CallInv'
    BY <1>0, <1>1, <1>2, <1>3 DEF IndInv, CallInv, Goto, TypeOK
<1>5. \A j \in Req : pc[j] = "done" => pc'[j] = "done" /\ call'[j] = call[j]
    BY <1>2
<1>6. RowInv'
    BY <1>5 DEF IndInv, RowInv, RowFor, Exists
<1>7. LockInv'
  <2> SUFFICES ASSUME NEW q \in wrote
               PROVE  /\ pc'[q] = "commit" /\ call'[q] = call[q] /\ seen'[q] = seen[q]
                      /\ \A j \in wrote : call'[j] = call[j]
      BY DEF IndInv, LockInv, Exists, Named
  <2> QED
      BY <1>0, <1>2 DEF IndInv, LockInv
<1>8. MomentInv'
  <2> SUFFICES ASSUME NEW q \in Req, call'[q].op \in FavoriteOps
               PROVE  (/\ InFlight(q) => (favorites[Named(q)] # None) \in moments[q]
                       /\ call[q].op = "remove" /\ seen[q] = None => FALSE \in moments[q]
                       /\ seen[q] # None =>
                              /\ TRUE \in moments[q] /\ RowFor(seen[q], Named(q))
                              /\ InFlight(q) /\ favorites[Named(q)] # seen[q]
                                     => FALSE \in moments[q])'
      BY DEF MomentInv
  <2>1. q # p
      BY <1>0, <1>3
  <2>2. seen[q] # None => RowFor(seen[q], Named(q))
      BY <2>1, <1>2 DEF IndInv, MomentInv
  <2>3. seen[q] # None => RowFor(seen[q], Named(q))'
      BY <2>1, <2>2, <1>2, <1>5 DEF RowFor
  <2> QED
      BY <2>1, <2>3, <1>2 DEF IndInv, MomentInv, InFlight
<1>9. AnswersAreTrue'
  <2>1. AnswerIsTrue(p)'
      BY <1>0 DEF AnswerIsTrue
  <2>2. ASSUME NEW q \in Req \ {p} PROVE AnswerIsTrue(q)'
    <3>1. AnswerIsTrue(q)
        BY DEF IndInv, AnswersAreTrue
    <3> QED
        BY <1>0, <1>2, <3>1 DEF AnswerIsTrue
  <2> QED
      BY <2>1, <2>2 DEF AnswersAreTrue
<1> QED
    BY <1>1, <1>4, <1>6, <1>7, <1>8, <1>9 DEF IndInv

\* What begins a request or answers it at once.
LEMMA ReceiveKeepsInv ==
    ASSUME IndInv, NEW p \in Req, Receive(p) PROVE IndInv'
<1> pc[p] = "idle" /\ TypeOK
    BY DEF IndInv, Receive, RegisterUser, SearchUserByEmail, CreateLocation, SearchLocations,
           AddFavorite, RemoveFavorite, ListFavorites, CheckFavorite, Names, Refuse
<1>1. ASSUME NEW u \in UserId, NEW e \in Email, NEW token \in Token, RegisterUser(p, u, e, token)
      PROVE  IndInv'
  <2>1. CASE ~ ValidateTriggerToken(token)
      BY <1>1, <2>1, AnswerKeepsInv DEF RegisterUser, Status
  <2>2. CASE ValidateTriggerToken(token)
    <3> DEFINE c == [op |-> "register", user |-> u, email |-> e]
    <3>1. c \in Call /\ c.op = "register"
        BY DEF Call
    <3>2. call' = [call EXCEPT ![p] = c] /\ Goto(p, "insertUser")
          /\ UNCHANGED <<tables, seen, wrote, moments, reply>>
        BY <1>1, <2>2 DEF RegisterUser
    <3> HIDE DEF c
    <3> QED
        BY <3>1, <3>2, BeginKeepsInv
  <2> QED
      BY <2>1, <2>2
<1>2. ASSUME NEW e \in Email, SearchUserByEmail(p, e) PROVE IndInv'
    BY <1>2, AnswerKeepsInv DEF SearchUserByEmail, Status
<1>3. ASSUME NEW l \in Place, CreateLocation(p, l) PROVE IndInv'
  <2> DEFINE c == [op |-> "create", place |-> l]
  <2>1. c \in Call /\ c.op = "create"
      BY DEF Call
  <2>2. call' = [call EXCEPT ![p] = c] /\ Goto(p, "insertLocation")
        /\ UNCHANGED <<tables, seen, wrote, moments, reply>>
      BY <1>3 DEF CreateLocation
  <2> HIDE DEF c
  <2> QED
      BY <2>1, <2>2, BeginKeepsInv
<1>4. ASSUME NEW conditions \in SUBSET Condition, SearchLocations(p, conditions) PROVE IndInv'
  <2> DEFINE found == {l \in Place : locations[l] # None /\ \A d \in conditions : l \in d}
  <2>1. PICK page \in FirstByName(found) : Answer(p, "ok", {locations[l] : l \in page})
      BY <1>4 DEF SearchLocations
  <2>2. page \in SUBSET {l \in Place : locations[l] # None}
      BY DEF FirstByName
  <2>3. {locations[l] : l \in page} \in SUBSET (UserId \cup LocationId \cup OldRow \cup BOOLEAN)
      BY <2>2 DEF TypeOK
  <2> QED
      BY <1>4, <2>1, <2>3, AnswerKeepsInv DEF SearchLocations, Status
<1>5. ASSUME NEW u \in UserId, NEW i \in LocationId,
             AddFavorite(p, u, i) \/ RemoveFavorite(p, u, i) \/ CheckFavorite(p, u, i)
      PROVE  IndInv'
    BY <1>5, NamesKeepsInv DEF AddFavorite, RemoveFavorite, CheckFavorite, FavoriteOps
<1>6. ASSUME NEW u \in UserId, ListFavorites(p, u) PROVE IndInv'
  <2>1. PICK rows \in SUBSET LocationId : Answer(p, "ok", rows)
      BY <1>6 DEF ListFavorites
  <2> QED
      BY <1>6, <2>1, AnswerKeepsInv DEF ListFavorites, Status
<1>7. ASSUME NEW status \in {"badRequest", "error"}, Refuse(p, status) PROVE IndInv'
    BY <1>7, AnswerKeepsInv DEF Refuse, Status
<1> QED
    BY <1>1, <1>2, <1>3, <1>4, <1>5, <1>6, <1>7 DEF Receive

\* What a request in flight has seen of its favorite.
LEMMA MomentsOf ==
    ASSUME IndInv, NEW p \in Req, InFlight(p), call[p].op \in FavoriteOps
    PROVE  /\ favorites[Named(p)] = None => FALSE \in moments[p]
           /\ call[p].op = "remove" /\ seen[p] \notin {favorites[Named(p)]} \ {None}
                  => FALSE \in moments[p]
<1>1. (favorites[Named(p)] # None) \in moments[p]
    BY DEF IndInv, MomentInv
<1>2. favorites[Named(p)] = None => (favorites[Named(p)] # None) = FALSE
    OBVIOUS
<1> QED
    BY <1>1, <1>2 DEF IndInv, MomentInv

\* The statements before COMMIT.
LEMMA StatementKeepsInv ==
    ASSUME IndInv, NEW p \in Req,
           InsertUser(p) \/ InsertLocation(p) \/ UpsertFavorite(p) \/ DeleteFavorite(p)
    PROVE  IndInv'
<1> TypeOK /\ CallInv /\ RowInv
    BY DEF IndInv
<1> InFlight(p) /\ pc[p] \in Statement \ {"commit"}
    BY DEF InFlight, Statement, InsertUser, InsertLocation, UpsertFavorite, DeleteFavorite
<1> call[p] \in Call
    BY DEF TypeOK
<1>1. CASE InsertUser(p)
  <2> USE <1>1 DEF InsertUser
  <2>0. call[p].op = "register" /\ call[p].user \in UserId /\ call[p].email \in Email
      BY CallFields DEF CallInv
  <2>1. CASE users[call[p].user] # None
    <3> USE <2>1 DEF Goto, tables
    <3>1. TypeOK'
        BY DEF TypeOK, Statement
    <3>2. CallInv'
        BY <2>0 DEF TypeOK, CallInv
    <3>3. RowInv'
        BY DEF TypeOK, RowInv, RowFor, Exists
    <3>4. LockInv'
        BY DEF TypeOK, IndInv, LockInv, Exists, Named
    <3>5. MomentInv'
      <4>1. \A q \in Req : (InFlight(q)' => InFlight(q)) /\ (pc[q] = "done" => pc'[q] = "done")
          BY DEF TypeOK, InFlight, Statement
      <4>2. \A i, k : RowFor(i, k) => RowFor(i, k)'
          BY <4>1 DEF RowFor
      <4> QED
          BY <4>1, <4>2 DEF IndInv, MomentInv, Named
    <3>6. AnswersAreTrue'
        BY SameAnswers DEF IndInv
    <3> QED
        BY <3>1, <3>2, <3>3, <3>4, <3>5, <3>6 DEF IndInv
  <2>2. CASE users[call[p].user] = None /\ \E v \in UserId : users[v] = call[p].email
    <3>1. \E v \in UserId \ {call[p].user} : users[v] = call[p].email
        BY <2>0, <2>2, NullAssumption
    <3> QED
        BY <2>0, <2>2, <3>1, GiveUpKeepsInv DEF Status
  <2>3. CASE users[call[p].user] = None /\ ~ \E v \in UserId : users[v] = call[p].email
      BY <2>0, <2>3, WriteKeepsInv
  <2> QED
      BY <2>1, <2>2, <2>3
<1>2. CASE InsertLocation(p)
  <2> USE <1>2 DEF InsertLocation
  <2>0. call[p].op = "create" /\ call[p].place \in Place
      BY CallFields DEF CallInv
  <2>1. CASE locations[call[p].place] # None
    <3>1. locations[call[p].place] # p
        BY <2>0 DEF RowInv
    <3> QED
        BY <2>0, <2>1, <3>1, GiveUpKeepsInv DEF Status
  <2>2. CASE locations[call[p].place] = None
      BY <2>0, <2>2, WriteKeepsInv
  <2> QED
      BY <2>1, <2>2
<1>3. CASE UpsertFavorite(p)
  <2> USE <1>3 DEF UpsertFavorite
  <2> DEFINE there == users[call[p].user] # None /\ Exists(call[p].loc)
  <2>0. call[p].op = "add" /\ call[p].op \in FavoriteOps /\ Named(p) \in Favorite
      BY CallFields DEF CallInv, FavoriteOps, Named, Favorite
  <2>1. CASE favorites[Named(p)] = None /\ ~ there
    <3>1. FALSE \in moments[p]
        BY <2>0, <2>1, MomentsOf
    <3> QED
        BY <2>0, <2>1, <3>1, GiveUpKeepsInv DEF Status
  <2>2. CASE ~ (favorites[Named(p)] = None /\ ~ there)
    <3>1. there
        BY <2>0, <2>2 DEF RowInv, Named
    <3> QED
        BY <2>0, <2>2, <3>1, WriteKeepsInv
  <2> QED
      BY <2>1, <2>2
<1>4. CASE DeleteFavorite(p)
  <2> USE <1>4 DEF DeleteFavorite
  <2>0. call[p].op = "remove" /\ call[p].op \in FavoriteOps
      BY DEF CallInv, FavoriteOps
  <2>1. CASE seen[p] \notin {favorites[Named(p)]} \ {None} /\ GiveUp(p, "notFound")
    <3>1. FALSE \in moments[p]
        BY <2>0, <2>1, MomentsOf
    <3> QED
        BY <2>0, <2>1, <3>1, GiveUpKeepsInv DEF Status
  <2>2. CASE seen[p] # None /\ favorites[Named(p)] = seen[p] /\ ~ Waits(p) /\ Write(p)
      BY <2>0, <2>2, WriteKeepsInv
  <2> QED
      BY <2>1, <2>2
<1> QED
    BY <1>1, <1>2, <1>3, <1>4

\* What a commit does to the tables: at most one row, which nobody had or which was seen.
LEMMA CommitFacts ==
    ASSUME IndInv, NEW p \in Req, Commit(p)
    PROVE  LET c == call[p] IN
           /\ pc[p] = "commit"
           /\ users' \in [UserId -> Email \cup {None}]
           /\ locations' \in [Place -> LocationId \cup {None}]
           /\ favorites' \in [Favorite -> Req \cup OldRow \cup {None}]
           /\ p \notin wrote => c.op = "register" /\ users[c.user] # None /\ UNCHANGED tables
           /\ p \in wrote /\ c.op = "register" =>
                  /\ c.user \in UserId /\ c.email \in Email /\ users[c.user] = None
                  /\ users' = [users EXCEPT ![c.user] = c.email]
                  /\ UNCHANGED <<locations, favorites>>
           /\ p \in wrote /\ c.op = "create" =>
                  /\ c.place \in Place /\ c = [op |-> "create", place |-> c.place]
                  /\ locations[c.place] = None
                  /\ locations' = [locations EXCEPT ![c.place] = p]
                  /\ UNCHANGED <<users, favorites>>
           /\ p \in wrote /\ c.op = "add" =>
                  /\ Named(p) \in Favorite /\ c = [op |-> "add", user |-> c.user, loc |-> c.loc]
                  /\ users[c.user] # None /\ Exists(c.loc)
                  /\ favorites' = IF favorites[Named(p)] = None
                                  THEN [favorites EXCEPT ![Named(p)] = p] ELSE favorites
                  /\ UNCHANGED <<users, locations>>
           /\ p \in wrote /\ c.op = "remove" =>
                  /\ Named(p) \in Favorite /\ seen[p] # None /\ favorites[Named(p)] = seen[p]
                  /\ favorites' = [favorites EXCEPT ![Named(p)] = None]
                  /\ UNCHANGED <<users, locations>>
           /\ p \in wrote => c.op \in {"register", "create", "add", "remove"}
<1> TypeOK /\ LockInv /\ CallInv
    BY DEF IndInv
<1> USE DEF TypeOK
<1> DEFINE c == call[p]
<1>0. c \in Call /\ pc[p] = "commit" /\ call' = call
    BY DEF Commit
<1>1. CASE p \notin wrote
    BY <1>0, <1>1 DEF Commit, CallInv, tables
<1>2. CASE p \in wrote /\ c.op = "register"
  <2>1. Publish(p) /\ c.user \in UserId /\ c.email \in Email /\ users[c.user] = None
      BY <1>0, <1>2, CallFields DEF Commit, LockInv
  <2>2. users' = [users EXCEPT ![c.user] = c.email] /\ UNCHANGED <<locations, favorites>>
      BY <1>2, <2>1 DEF Publish
  <2> QED
      BY <1>0, <1>2, <2>1, <2>2
<1>3. CASE p \in wrote /\ c.op = "create"
  <2>1. /\ Publish(p) /\ c.place \in Place /\ locations[c.place] = None
        /\ c = [op |-> "create", place |-> c.place]
      BY <1>0, <1>3, CallFields DEF Commit, LockInv
  <2>2. locations' = [locations EXCEPT ![c.place] = p] /\ UNCHANGED <<users, favorites>>
      BY <1>3, <2>1 DEF Publish
  <2> QED
      BY <1>0, <1>3, <2>1, <2>2 DEF LocationId
<1>4. CASE p \in wrote /\ c.op = "add"
  <2>1. /\ Publish(p) /\ Named(p) \in Favorite /\ users[c.user] # None /\ Exists(c.loc)
        /\ c = [op |-> "add", user |-> c.user, loc |-> c.loc]
      BY <1>0, <1>4, CallFields DEF Commit, LockInv, FavoriteOps, Named, Favorite
  <2>2. /\ favorites' = IF favorites[Named(p)] = None
                        THEN [favorites EXCEPT ![Named(p)] = p] ELSE favorites
        /\ UNCHANGED <<users, locations>>
      BY <1>4, <2>1 DEF Publish
  <2> QED
      BY <1>0, <1>4, <2>1, <2>2
<1>5. CASE p \in wrote /\ c.op = "remove"
  <2>1. /\ Publish(p) /\ Named(p) \in Favorite
        /\ seen[p] # None /\ favorites[Named(p)] = seen[p]
      BY <1>0, <1>5, CallFields DEF Commit, LockInv, FavoriteOps, Named, Favorite
  <2>2. favorites' = [favorites EXCEPT ![Named(p)] = None] /\ UNCHANGED <<users, locations>>
      BY <1>5, <2>1 DEF Publish
  <2> QED
      BY <1>0, <1>5, <2>1, <2>2
<1>6. p \in wrote => c.op \in {"register", "create", "add", "remove"}
    BY DEF LockInv
<1> QED
    BY <1>1, <1>2, <1>3, <1>4, <1>5, <1>6

\* The row with an id is that of one favorite, and not of a request that has not ended.
LEMMA RowForOne ==
    ASSUME TypeOK, NEW i, NEW k \in Favorite, RowFor(i, k)
    PROVE  /\ \A j \in Favorite : RowFor(i, j) => j = k
           /\ \A p \in Req : pc[p] # "done" => i # p
<1>1. CASE k \in DOMAIN OldFavorites /\ OldFavorites[k] = i
    BY <1>1, OldFavoritesAssumption DEF RowFor
<1>2. CASE i \in Req /\ call[i] = [op |-> "add", user |-> k[1], loc |-> k[2]] /\ pc[i] = "done"
  <2>1. ASSUME NEW j \in Favorite, RowFor(i, j) PROVE j = k
    <3>1. call[i] = [op |-> "add", user |-> j[1], loc |-> j[2]]
        BY <1>2, <2>1, OldFavoritesAssumption DEF RowFor
    <3>2. j[1] = k[1] /\ j[2] = k[2]
      <4>1. call[i].user = j[1] /\ call[i].loc = j[2]
          BY <3>1
      <4>2. call[i].user = k[1] /\ call[i].loc = k[2]
          BY <1>2
      <4> QED
          BY <4>1, <4>2
    <3> QED
        BY <3>2 DEF Favorite
  <2> QED
      BY <1>2, <2>1
<1> QED
    BY <1>1, <1>2 DEF RowFor

\* A commit keeps IndInv: what it publishes is new, or is the row it has locked.
LEMMA CommitKeepsInv ==
    ASSUME IndInv, NEW p \in Req, Commit(p) PROVE IndInv'
<1> DEFINE c == call[p]
<1> TypeOK /\ CallInv /\ RowInv /\ LockInv /\ MomentInv /\ AnswersAreTrue
    BY DEF IndInv
<1>1. /\ pc[p] = "commit" /\ call' = call /\ seen' = seen /\ wrote' = wrote \ {p}
      /\ pc' = [pc EXCEPT ![p] = "done"]
      /\ moments' = [q \in Req |-> IF call[q].op \in {"add", "remove"} /\ InFlight(q)
                                   THEN moments[q] \cup {favorites'[Named(q)] # None}
                                   ELSE moments[q]]
      /\ \A q \in Req : q # p => reply'[q] = reply[q]
    BY DEF Commit, Answer, Goto, TypeOK
<1>2. reply' \in [Req -> Reply] /\ reply'[p].status \in {"ok", "error"}
  <2>1. c \in Call
      BY DEF TypeOK
  <2>2. PICK st \in {"ok", "error"}, rows \in {Returned(p), {}} : Answer(p, st, rows)
      BY DEF Commit
  <2>3. rows \in SUBSET (UserId \cup LocationId \cup OldRow \cup BOOLEAN)
    <3>1. c.op = "register" => c.user \in UserId
        BY <2>1, CallFields
    <3>2. ASSUME c.op = "add" PROVE favorites'[Named(p)] \in Req \cup OldRow
      <4>1. p \in wrote /\ Named(p) \in Favorite
          BY <3>2, CommitFacts
      <4>2. favorites'[Named(p)] # None
          BY <3>2, <4>1, CommitFacts, NullAssumption DEF LocationId, TypeOK
      <4> QED
          BY <4>1, <4>2, CommitFacts
    <3>3. c.op \in {"register", "create", "add", "remove"}
        BY <1>1 DEF CallInv, LockInv
    <3> QED
        BY <3>1, <3>2, <3>3 DEF Returned, LocationId
  <2> QED
      BY <2>2, <2>3 DEF Answer, TypeOK, Reply, Status
<1>3. TypeOK'
  <2>1. \A q \in Req : {favorites'[Named(q)] # None} \in SUBSET BOOLEAN
      OBVIOUS
  <2>2. moments' \in [Req -> SUBSET BOOLEAN]
      BY <1>1, <2>1 DEF TypeOK
  <2> QED
      BY <1>1, <1>2, <2>2, CommitFacts DEF TypeOK
<1>4. \A u \in UserId : users[u] # None => users'[u] = users[u]
    BY CommitFacts DEF TypeOK, tables
<1>5. \A l \in Place : locations[l] # None => locations'[l] = locations[l]
    BY CommitFacts DEF TypeOK, tables
<1>6. \A i \in LocationId : Exists(i) => Exists(i)'
    BY <1>5, NullAssumption DEF Exists
<1>7. \A k \in Favorite : favorites'[k] # favorites[k] =>
          /\ p \in wrote /\ k = Named(p)
          /\ \/ c.op = "add" /\ favorites[k] = None /\ favorites'[k] = p
             \/ c.op = "remove" /\ favorites[k] = seen[p] /\ favorites'[k] = None
    BY CommitFacts DEF TypeOK, tables
<1>8. \A i, k : RowFor(i, k) => RowFor(i, k)'
    BY <1>1 DEF RowFor, TypeOK
<1>9. CallInv'
    BY <1>1, <1>4, CallFields DEF CallInv, TypeOK
<1> users \in [UserId -> Email \cup {None}] /\ locations \in [Place -> LocationId \cup {None}]
    BY DEF TypeOK
<1> wrote \subseteq Req
    BY DEF TypeOK
<1>10. \/ users' = users
       \/ /\ p \in wrote /\ c.op = "register" /\ c.user \in UserId /\ c.email \in Email
          /\ users[c.user] = None /\ \A v \in UserId : users[v] # c.email
          /\ users' = [users EXCEPT ![c.user] = c.email]
    BY CommitFacts DEF LockInv, tables
<1>11. \/ locations' = locations
       \/ /\ p \in wrote /\ c.op = "create" /\ c.place \in Place
          /\ c = [op |-> "create", place |-> c.place] /\ locations[c.place] = None
          /\ locations' = [locations EXCEPT ![c.place] = p]
    BY CommitFacts DEF tables
<1> HIDE DEF c
<1>12. RowInv'
  <2>1. \A u, v \in UserId : users'[u] # None /\ users'[u] = users'[v] => u = v
    <3>0. \A u, v \in UserId : users[u] # None /\ users[u] = users[v] => u = v
        BY DEF RowInv
    <3>1. CASE users' = users
        BY <3>0, <3>1
    <3>2. CASE users' # users
        BY <1>10, <3>0, <3>2
    <3> QED
        BY <3>1, <3>2
  <2>2. \A l \in Place : locations[l] # p
      BY <1>1 DEF RowInv
  <2>3. \A l, m \in Place : locations'[l] # None /\ locations'[l] = locations'[m] => l = m
    <3>0. \A l, m \in Place : locations[l] # None /\ locations[l] = locations[m] => l = m
        BY DEF RowInv
    <3>1. CASE locations' = locations
        BY <3>0, <3>1
    <3>2. CASE locations' # locations
        BY <1>11, <2>2, <3>0, <3>2
    <3> QED
        BY <3>1, <3>2
  <2>4. ASSUME NEW l \in Place, locations'[l] \in Req
        PROVE  /\ call'[locations'[l]] = [op |-> "create", place |-> l]
               /\ pc'[locations'[l]] = "done"
    <3>1. CASE locations'[l] = locations[l]
        BY <1>1, <2>4, <3>1 DEF RowInv, TypeOK
    <3>2. CASE locations'[l] # locations[l]
      <4>1. l = c.place /\ locations'[l] = p /\ c = [op |-> "create", place |-> l]
          BY <1>11, <3>2
      <4> QED
          BY <1>1, <4>1 DEF TypeOK, c
    <3> QED
        BY <3>1, <3>2
  <2>5. ASSUME NEW k \in Favorite, favorites'[k] # None
        PROVE  (users[k[1]] # None /\ Exists(k[2]) /\ RowFor(favorites[k], k))'
    <3> DEFINE i == favorites'[k]
    <3>0. k[1] \in UserId /\ k[2] \in LocationId
        BY DEF Favorite
    <3>1. CASE favorites'[k] = favorites[k]
      <4>1. users[k[1]] # None /\ Exists(k[2]) /\ RowFor(favorites[k], k)
          BY <2>5, <3>1 DEF RowInv
      <4>2. \/ k \in DOMAIN OldFavorites /\ OldFavorites[k] = i
            \/ i \in Req /\ call[i] = [op |-> "add", user |-> k[1], loc |-> k[2]] /\ pc[i] = "done"
          BY <3>1, <4>1 DEF RowFor
      <4>3. \/ k \in DOMAIN OldFavorites /\ OldFavorites[k] = i
            \/ i \in Req /\ call'[i] = [op |-> "add", user |-> k[1], loc |-> k[2]] /\ pc'[i] = "done"
          BY <1>1, <4>2 DEF TypeOK
      <4>4. users'[k[1]] # None /\ Exists(k[2])'
          BY <1>4, <1>6, <3>0, <4>1
      <4> QED
          BY <4>3, <4>4 DEF RowFor
    <3>2. CASE favorites'[k] # favorites[k]
      <4>1. c.op = "add" /\ p \in wrote /\ k = Named(p) /\ i = p
          BY <1>7, <2>5, <3>2
      <4>2. /\ users[k[1]] # None /\ Exists(k[2])
            /\ c = [op |-> "add", user |-> k[1], loc |-> k[2]]
          BY <4>1, CommitFacts DEF Named, c
      <4>3. i \in Req /\ call'[i] = [op |-> "add", user |-> k[1], loc |-> k[2]] /\ pc'[i] = "done"
          BY <1>1, <4>1, <4>2 DEF TypeOK, c
      <4>4. users'[k[1]] # None /\ Exists(k[2])'
          BY <1>4, <1>6, <3>0, <4>2
      <4> QED
          BY <4>3, <4>4 DEF RowFor
    <3> QED
        BY <3>1, <3>2
  <2> QED
      BY <2>1, <2>3, <2>4, <2>5 DEF RowInv
<1>13. LockInv'
  <2> SUFFICES ASSUME NEW q \in wrote, q # p
               PROVE  (LET d == call[q] IN
                       /\ pc[q] = "commit" /\ d.op \in {"register", "create", "add", "remove"}
                       /\ \A j \in wrote \ {q} : ~ Clash(d, call[j])
                       /\ d.op = "register" => users[d.user] = None /\ \A v \in UserId : users[v] # d.email
                       /\ d.op = "create" => locations[d.place] = None
                       /\ d.op = "add" => users[d.user] # None /\ Exists(d.loc)
                       /\ d.op = "remove" => seen[q] # None /\ favorites[Named(q)] = seen[q])'
      BY <1>1 DEF LockInv
  <2> DEFINE d == call[q]
  <2>1. /\ q \in Req /\ d \in Call /\ pc'[q] = "commit" /\ (p \in wrote => ~ Clash(d, c))
        /\ d.op \in {"register", "create", "add", "remove"}
        /\ \A j \in wrote \ {q} : ~ Clash(d, call[j])
        /\ d.op = "register" => users[d.user] = None /\ \A v \in UserId : users[v] # d.email
        /\ d.op = "create" => locations[d.place] = None
        /\ d.op = "add" => users[d.user] # None /\ Exists(d.loc)
        /\ d.op = "remove" => seen[q] # None /\ favorites[Named(q)] = seen[q]
      BY <1>1 DEF LockInv, TypeOK, c
  <2>0. /\ d.op = "register" => d.user \in UserId
        /\ d.op = "create" => d.place \in Place
        /\ d.op = "add" => d.user \in UserId /\ d.loc \in LocationId
      BY <2>1, CallFields DEF FavoriteOps
  <2> HIDE DEF d
  <2>2. d.op = "register" => users'[d.user] = None /\ \A v \in UserId : users'[v] # d.email
    <3>1. CASE users' = users
        BY <2>1, <3>1
    <3>2. CASE users' # users
        BY <1>10, <2>0, <2>1, <3>2 DEF Clash
    <3> QED
        BY <3>1, <3>2
  <2>3. d.op = "create" => locations'[d.place] = None
    <3>1. CASE locations' = locations
        BY <2>1, <3>1
    <3>2. CASE locations' # locations
        BY <1>11, <2>0, <2>1, <3>2 DEF Clash
    <3> QED
        BY <3>1, <3>2
  <2>4. d.op = "add" => users'[d.user] # None /\ Exists(d.loc)'
    <3>1. ASSUME d.op = "add" PROVE users[d.user] # None /\ Exists(d.loc) /\ d.user \in UserId /\ d.loc \in LocationId
        BY <2>0, <2>1, <3>1
    <3>2. ASSUME d.op = "add" PROVE users'[d.user] # None
        BY <1>4, <3>1, <3>2
    <3>3. ASSUME d.op = "add" PROVE Exists(d.loc)'
        <4>1. \A i \in LocationId : Exists(i) => Exists(i)'
            BY <1>6
        <4>2. d' = d
            BY <1>1 DEF d
        <4>3. PICK l \in Place : locations[l] = d.loc
            BY <3>1, <3>3 DEF Exists
        <4>4. locations[l] # None
            BY <3>1, <3>3, <4>3, NullAssumption
        <4>5. locations'[l] = d.loc
            BY <1>5, <4>3, <4>4
        <4> QED
            BY <4>2, <4>5 DEF Exists
    <3> QED
        BY <3>2, <3>3
  <2>5. d.op = "remove" => seen[q] # None /\ favorites'[Named(q)] = seen[q]
    <3>1. ASSUME d.op = "remove" PROVE Named(q) \in Favorite /\ favorites'[Named(q)] = favorites[Named(q)]
      <4>1. Named(q) \in Favorite
          BY <2>1, <3>1, CallFields DEF Named, Favorite, FavoriteOps, d
      <4>2. p \in wrote /\ c.op \in {"add", "remove"} => Named(p) # Named(q)
          BY <2>1, <3>1 DEF Clash, Named, c, d
      <4> QED
          BY <1>7, <4>1, <4>2
    <3> QED
        BY <2>1, <3>1
  <2> QED
    <3>1. d' = d /\ Named(q)' = Named(q) /\ seen'[q] = seen[q] /\ wrote' \subseteq wrote
        BY <1>1 DEF d, Named
    <3> QED
        BY <1>1, <2>1, <2>2, <2>3, <2>4, <2>5, <3>1 DEF d
<1>14. ASSUME NEW q \in Req
       PROVE  /\ Named(q)' = Named(q) /\ moments[q] \subseteq moments'[q]
              /\ InFlight(q)' => InFlight(q)
              /\ InFlight(q) => call[q].op # "check"
              /\ seen'[q] = seen[q] /\ call'[q] = call[q]
  <2>1. Named(q)' = Named(q) /\ moments[q] \subseteq moments'[q] /\ seen'[q] = seen[q]
        /\ call'[q] = call[q]
      BY <1>1 DEF Named
  <2>2. InFlight(q)' => InFlight(q)
      BY <1>1 DEF InFlight, Statement, TypeOK
  <2>3. InFlight(q) => call[q].op # "check"
      BY DEF InFlight, Statement, CallInv, LockInv
  <2> QED
      BY <2>1, <2>2, <2>3
<1>15. MomentInv'
  <2> SUFFICES ASSUME NEW q \in Req, call[q].op \in FavoriteOps
               PROVE  (/\ InFlight(q) => (favorites[Named(q)] # None) \in moments[q]
                       /\ call[q].op = "remove" /\ seen[q] = None => FALSE \in moments[q]
                       /\ seen[q] # None =>
                              /\ TRUE \in moments[q] /\ RowFor(seen[q], Named(q))
                              /\ InFlight(q) /\ favorites[Named(q)] # seen[q]
                                     => FALSE \in moments[q])'
      BY <1>1 DEF MomentInv
  <2>1. /\ InFlight(q) => (favorites[Named(q)] # None) \in moments[q]
        /\ call[q].op = "remove" /\ seen[q] = None => FALSE \in moments[q]
        /\ seen[q] # None =>
               /\ TRUE \in moments[q] /\ RowFor(seen[q], Named(q))
               /\ InFlight(q) /\ favorites[Named(q)] # seen[q] => FALSE \in moments[q]
      BY DEF MomentInv
  <2>2. Named(q) \in Favorite
      BY CallFields DEF TypeOK, Named, Favorite
  <2>3. InFlight(q) => (favorites'[Named(q)] # None) \in moments'[q]
    <3>1. CASE InFlight(q)
      <4>1. call[q].op \in {"add", "remove"}
          BY <1>14, <3>1 DEF FavoriteOps
      <4> QED
          BY <1>1, <3>1, <4>1
    <3> QED
        BY <3>1
  <2>4. ASSUME seen[q] # None, InFlight(q), favorites'[Named(q)] # seen[q]
        PROVE  FALSE \in moments'[q]
    <3>1. CASE favorites[Named(q)] # seen[q]
      <4>1. FALSE \in moments[q]
          BY <2>1, <2>4, <3>1
      <4> QED
          BY <1>14, <4>1
    <3>2. CASE favorites[Named(q)] = seen[q]
      <4>1. favorites'[Named(q)] = None
          BY <1>7, <2>2, <2>4, <3>2
      <4> QED
          BY <2>3, <2>4, <4>1
    <3> QED
        BY <3>1, <3>2
  <2>5. ASSUME seen[q] # None PROVE (RowFor(seen[q], Named(q)))'
    <3>1. RowFor(seen[q], Named(q))
        BY <2>1, <2>5
    <3> QED
        BY <1>1, <1>14, <3>1 DEF RowFor, TypeOK
  <2>6. /\ call[q].op = "remove" /\ seen[q] = None => FALSE \in moments'[q]
        /\ seen[q] # None => TRUE \in moments'[q]
    <3>1. moments[q] \subseteq moments'[q]
        BY <1>14
    <3> QED
        BY <2>1, <3>1
  <2> QED
    <3>1. InFlight(q)' => InFlight(q)
        BY <1>14
    <3>2. Named(q)' = Named(q) /\ seen'[q] = seen[q] /\ call'[q] = call[q]
        BY <1>14
    <3> QED
        BY <2>3, <2>4, <2>5, <2>6, <3>1, <3>2
<1>16. ASSUME p \in wrote, c.op = "remove", NEW q \in Req \ {p}, call[q].op = "remove",
              reply[q].status = "ok"
       PROVE  seen[q] # seen[p]
  <2>1. AnswerIsTrue(q)
      BY DEF AnswersAreTrue
  <2>2. \A k \in Favorite : favorites[k] # seen[q]
      BY <1>16, <2>1 DEF AnswerIsTrue
  <2>3. Named(p) \in Favorite /\ favorites[Named(p)] = seen[p]
      BY <1>16, CommitFacts DEF c
  <2> QED
      BY <2>2, <2>3
<1>17. ASSUME reply'[p].status = "ok" PROVE AnswerIsTrue(p)'
  <2>1. c.op = "register" => users'[c.user] # None
    <3>1. ASSUME p \in wrote, c.op = "register" PROVE users'[c.user] # None
      <4>1. c.user \in UserId /\ c.email \in Email /\ users' = [users EXCEPT ![c.user] = c.email]
          BY <3>1, CommitFacts DEF c
      <4>2. users'[c.user] = c.email
          BY <4>1
      <4> QED
          BY <4>1, <4>2, NullAssumption
    <3>2. CASE p \notin wrote
        BY <3>2, CommitFacts DEF c, tables
    <3> QED
        BY <3>1, <3>2
  <2>2. c.op = "create" => locations'[c.place] = p
      BY CommitFacts DEF c
  <2>3. ASSUME c.op = "add" PROVE TRUE \in moments'[p]
    <3>1. Named(p) \in Favorite /\ favorites'[Named(p)] # None
        BY <2>3, CommitFacts, NullAssumption DEF c, LocationId, TypeOK
    <3>2. InFlight(p)
        BY <1>1 DEF InFlight, Statement
    <3> QED
        BY <1>1, <2>3, <3>1, <3>2 DEF c
  <2>4. ASSUME c.op = "remove"
        PROVE  /\ seen[p] # None /\ moments'[p] = BOOLEAN
               /\ \A k \in Favorite : favorites'[k] # seen[p]
    <3>1. /\ p \in wrote /\ Named(p) \in Favorite /\ seen[p] # None
          /\ favorites[Named(p)] = seen[p] /\ favorites'[Named(p)] = None
        BY <2>4, CommitFacts DEF c, TypeOK
    <3>2. TRUE \in moments[p] /\ RowFor(seen[p], Named(p))
        BY <2>4, <3>1 DEF MomentInv, FavoriteOps, c
    <3>3. FALSE \in moments'[p]
      <4>1. InFlight(p)
          BY <1>1 DEF InFlight, Statement
      <4> QED
          BY <1>1, <2>4, <3>1, <4>1 DEF c
    <3>4. moments'[p] = BOOLEAN
      <4>1. moments'[p] \in SUBSET BOOLEAN
          BY <1>3 DEF TypeOK
      <4>2. TRUE \in moments'[p]
          BY <1>14, <3>2
      <4> QED
          BY <3>3, <4>1, <4>2
    <3>5. ASSUME NEW k \in Favorite PROVE favorites'[k] # seen[p]
      <4>1. CASE k = Named(p)
          BY <3>1, <4>1
      <4>2. CASE k # Named(p)
        <5>1. favorites'[k] = favorites[k]
            BY <1>7, <4>2
        <5>2. favorites[k] # None => RowFor(favorites[k], k)
            BY DEF RowInv
        <5>3. RowFor(seen[p], k) => k = Named(p)
            BY <3>1, <3>2, RowForOne
        <5> QED
            BY <3>1, <4>2, <5>1, <5>2, <5>3
      <4> QED
          BY <4>1, <4>2
    <3> QED
        BY <3>1, <3>4, <3>5
  <2>5. call'[p] = c /\ seen'[p] = seen[p]
      BY <1>1 DEF c
  <2>6. c.op = "remove" => p \in wrote
      BY CommitFacts DEF c
  <2>7. \A q \in Req \ {p} : call'[q] = call[q] /\ seen'[q] = seen[q] /\ reply'[q] = reply[q]
      BY <1>1
  <2> QED
      BY <1>16, <1>17, <2>1, <2>2, <2>3, <2>4, <2>5, <2>6, <2>7 DEF AnswerIsTrue
<1>18. ASSUME NEW q \in Req \ {p} PROVE AnswerIsTrue(q)'
  <2> DEFINE d == call[q]
             told == reply[q].status
  <2>1. AnswerIsTrue(q)
      BY DEF AnswersAreTrue
  <2>2. call'[q] = d /\ reply'[q].status = told /\ seen'[q] = seen[q]
      BY <1>1
  <2>3. moments[q] \subseteq moments'[q] /\ moments'[q] \subseteq BOOLEAN
      BY <1>14, <1>3 DEF TypeOK
  <2>0. /\ d.op = "register" => d.user \in UserId /\ d.email \in Email
        /\ d.op = "create" => d.place \in Place
      BY CallFields DEF TypeOK
  <2>4. ASSUME d.op = "register"
        PROVE  /\ told = "ok" => users'[d.user] # None
               /\ told = "refused" => \E v \in UserId \ {d.user} : users'[v] = d.email
    <3>1. told = "ok" => users[d.user] # None
        BY <2>1, <2>4 DEF AnswerIsTrue
    <3>2. told = "refused" => \E v \in UserId \ {d.user} : users[v] = d.email
        BY <2>1, <2>4 DEF AnswerIsTrue
    <3> QED
        BY <1>4, <2>0, <2>4, <3>1, <3>2, NullAssumption
  <2>5. ASSUME d.op = "create"
        PROVE  /\ told = "ok" => locations'[d.place] = q
               /\ told = "exists" => locations'[d.place] \notin {None, q}
    <3>1. told = "ok" => locations[d.place] = q
        BY <2>1, <2>5 DEF AnswerIsTrue
    <3>2. told = "exists" => locations[d.place] \notin {None, q}
        BY <2>1, <2>5 DEF AnswerIsTrue
    <3>3. q # None
        BY NullAssumption DEF LocationId
    <3> QED
        BY <1>5, <2>0, <2>5, <3>1, <3>2, <3>3
  <2>6. ASSUME d.op = "remove", told = "ok"
        PROVE  /\ seen[q] # None /\ moments'[q] = BOOLEAN
               /\ \A j \in Req \ {q} : call'[j].op = "remove" /\ reply'[j].status = "ok" =>
                     seen'[j] # seen[q]
               /\ \A k \in Favorite : favorites'[k] # seen[q]
    <3>1. /\ seen[q] # None /\ moments[q] = BOOLEAN
          /\ \A j \in Req \ {q} : call[j].op = "remove" /\ reply[j].status = "ok" =>
                     seen[j] # seen[q]
          /\ \A k \in Favorite : favorites[k] # seen[q]
        BY <2>1, <2>6 DEF AnswerIsTrue
    <3>2. ASSUME NEW j \in Req \ {q}, call'[j].op = "remove", reply'[j].status = "ok"
          PROVE  seen'[j] # seen[q]
      <4>1. CASE j = p
        <5>1. c.op = "remove" /\ p \in wrote
            BY <1>1, <3>2, <4>1, CommitFacts DEF c
        <5> QED
            BY <1>1, <1>16, <2>6, <4>1, <5>1
      <4>2. CASE j # p
          BY <1>1, <3>1, <3>2, <4>2
      <4> QED
          BY <4>1, <4>2
    <3>3. ASSUME NEW k \in Favorite PROVE favorites'[k] # seen[q]
      <4>1. RowFor(seen[q], Named(q)) /\ Named(q) \in Favorite
        <5>1. d \in Call /\ d.op \in FavoriteOps
            BY <2>6 DEF TypeOK, FavoriteOps
        <5>2. Named(q) \in Favorite
            BY <5>1, CallFields DEF Named, Favorite
        <5> QED
            BY <3>1, <5>1, <5>2 DEF MomentInv
      <4>2. seen[q] # p
          BY <1>1, <4>1, RowForOne
      <4> QED
          BY <1>7, <3>1, <4>2
    <3> QED
        BY <2>3, <3>1, <3>2, <3>3
  <2>7. /\ d.op = "add" /\ told = "ok" => TRUE \in moments'[q]
        /\ d.op = "add" /\ told = "refused" => FALSE \in moments'[q]
        /\ d.op = "remove" /\ told = "notFound" => FALSE \in moments'[q]
      BY <2>1, <2>3 DEF AnswerIsTrue
  <2> HIDE DEF d, told
  <2> QED
      BY <2>2, <2>4, <2>5, <2>6, <2>7 DEF AnswerIsTrue
<1>19. AnswersAreTrue'
  <2>1. CASE reply'[p].status = "ok"
      BY <1>17, <1>18, <2>1 DEF AnswersAreTrue
  <2>2. CASE reply'[p].status # "ok"
    <3>1. reply'[p].status = "error"
        BY <1>2, <2>2
    <3>2. AnswerIsTrue(p)'
        BY <3>1 DEF AnswerIsTrue
    <3> QED
        BY <1>18, <3>2 DEF AnswersAreTrue
  <2> QED
      BY <2>1, <2>2
<1> QED
    BY <1>3, <1>9, <1>12, <1>13, <1>15, <1>19 DEF IndInv

\* Every step of a request keeps IndInv.
LEMMA StepKeepsInv ==
    ASSUME IndInv, [Next]_vars PROVE IndInv'
<1>1. ASSUME NEW p \in Req, Receive(p) PROVE IndInv'
    BY <1>1, ReceiveKeepsInv
<1>2. ASSUME NEW p \in Req, Proceed(p) PROVE IndInv'
    BY <1>2, StatementKeepsInv, CommitKeepsInv DEF Proceed
<1>3. ASSUME NEW p \in Req, Fail(p) PROVE IndInv'
    BY <1>3, GiveUpKeepsInv DEF Fail, Status
<1>4. ASSUME UNCHANGED vars PROVE IndInv'
  <2> UNCHANGED tables /\ UNCHANGED <<users, locations, favorites, pc, call, seen, wrote, moments, reply>>
      BY <1>4 DEF vars, tables
  <2>1. TypeOK' /\ CallInv'
      BY DEF IndInv, TypeOK, CallInv
  <2>2. RowInv' /\ LockInv'
      BY DEF IndInv, RowInv, LockInv, RowFor, Exists, Named
  <2>3. MomentInv'
      BY DEF IndInv, MomentInv, RowFor, Named, InFlight
  <2>4. AnswersAreTrue'
      BY SameAnswers DEF IndInv
  <2> QED
      BY <2>1, <2>2, <2>3, <2>4 DEF IndInv
<1> QED
    BY <1>1, <1>2, <1>3, <1>4 DEF Next, AllServed

\* The inductive invariant holds: emails and place ids stay unique, a favorite has its user
\* and its place, no two uncommitted rows clash (handler/user_register.go, location.go,
\* favorites.go with the constraints of docs/init.sql).
THEOREM Inductive == Spec => []IndInv
BY InitInv, StepKeepsInv, PTL DEF Spec

\* For any number of requests, users and places, what a request is told was true at a moment
\* of its life (the error branches of RegisterUser, CreateLocation, AddFavorite and
\* RemoveFavorite).
THEOREM AnswersTrue == Spec => []AnswersAreTrue
<1>1. IndInv => AnswersAreTrue
    BY DEF IndInv
<1> QED
    BY <1>1, Inductive, PTL

\* The favorites as Catalog sees them: the pairs with a row.
Favored == {k \in Favorite : favorites[k] # None}

\* What was there before is there in Catalog.
LEMMA InitRefines == Init => Abstract!Init
<1> SUFFICES ASSUME Init PROVE Abstract!Init
    OBVIOUS
<1>1. \A k \in DOMAIN OldFavorites : OldFavorites[k] # None /\ k \in Favorite
    BY NullAssumption, OldUsersAssumption, OldFavoritesAssumption
       DEF OldRow, Favorite, LocationId
<1>2. Favored = DOMAIN OldFavorites
    BY <1>1 DEF Init, Favored
<1> QED
    BY <1>2 DEF Init, Abstract!Init, Favored

\* A favorite added or removed is a step of Catalog.
LEMMA FavoriteStep ==
    ASSUME NEW u \in UserId, NEW i \in LocationId, Abstract!Favor(u, i) \/ Abstract!Unfavor(u, i)
    PROVE  Abstract!Next
BY DEF Abstract!Next

\* A commit is the step of Catalog its request asked for, or changes nothing there.
LEMMA CommitRefines ==
    ASSUME IndInv, NEW p \in Req, Commit(p)
    PROVE  Abstract!Next \/ UNCHANGED <<users, locations, Favored>>
<1> DEFINE c == call[p]
           who == c.user
           which == c.loc
<1> TypeOK /\ RowInv /\ LockInv
    BY DEF IndInv
<1>1. CASE p \notin wrote
    BY <1>1, CommitFacts DEF tables, Favored
<1>2. CASE p \in wrote /\ c.op = "register"
  <2>1. /\ who \in UserId /\ c.email \in Email /\ users[who] = None
        /\ users' = [users EXCEPT ![who] = c.email] /\ UNCHANGED <<locations, favorites>>
      BY <1>2, CommitFacts
  <2>2. \A v \in UserId : users[v] # c.email
      BY <1>2 DEF LockInv
  <2>3. Abstract!Register(who, c.email)
      BY <2>1, <2>2 DEF Abstract!Register
  <2> QED
      BY <2>1, <2>3 DEF Abstract!Next
<1>3. CASE p \in wrote /\ c.op = "create"
  <2>1. /\ c.place \in Place /\ locations[c.place] = None
        /\ locations' = [locations EXCEPT ![c.place] = p] /\ UNCHANGED <<users, favorites>>
      BY <1>3, CommitFacts
  <2>2. \A l \in Place : locations[l] # p
      BY DEF Commit, RowInv
  <2>3. Abstract!AddPlace(c.place, p)
      BY <2>1, <2>2 DEF Abstract!AddPlace
  <2> QED
      BY <2>1, <2>3 DEF Abstract!Next, LocationId
<1>4. CASE p \in wrote /\ c.op = "add"
  <2>1. /\ <<who, which>> \in Favorite /\ users[who] # None /\ Exists(which)
        /\ favorites' = IF favorites[<<who, which>>] = None
                        THEN [favorites EXCEPT ![<<who, which>>] = p] ELSE favorites
        /\ UNCHANGED <<users, locations>>
      BY <1>4, CommitFacts DEF Named
  <2>2. p # None /\ who \in UserId /\ which \in LocationId
      BY <2>1, NullAssumption DEF LocationId, Favorite
  <2>3. Favored' = Favored \cup {<<who, which>>}
      BY <2>1, <2>2 DEF Favored, TypeOK
  <2>4. PICK v \in UserId, j \in LocationId : v = who /\ j = which
      BY <2>2
  <2>5. Abstract!Favor(v, j)
      BY <2>1, <2>3, <2>4 DEF Abstract!Favor, Exists, Favored
  <2> QED
      BY <2>5, FavoriteStep
<1>5. CASE p \in wrote /\ c.op = "remove"
  <2>1. /\ <<who, which>> \in Favorite /\ favorites[<<who, which>>] # None
        /\ favorites' = [favorites EXCEPT ![<<who, which>>] = None]
        /\ UNCHANGED <<users, locations>>
      BY <1>5, CommitFacts DEF Named
  <2>2. Favored' = Favored \ {<<who, which>>} /\ <<who, which>> \in Favored
      BY <2>1 DEF Favored, TypeOK
  <2>3. PICK v \in UserId, j \in LocationId : v = who /\ j = which
      BY <2>1 DEF Favorite
  <2>4. Abstract!Unfavor(v, j)
      BY <2>1, <2>2, <2>3 DEF Abstract!Unfavor, Favored
  <2> QED
      BY <2>4, FavoriteStep
<1> QED
    BY <1>1, <1>2, <1>3, <1>4, <1>5, CommitFacts

\* Every other step leaves the tables as they are.
LEMMA StepRefines ==
    ASSUME IndInv, [Next]_vars
    PROVE  [Abstract!Next]_(Abstract!vars)
<1>1. ASSUME UNCHANGED tables PROVE UNCHANGED Abstract!vars
    BY <1>1 DEF Abstract!vars, tables
<1>2. ASSUME NEW p \in Req, Receive(p) PROVE UNCHANGED tables
    BY <1>2 DEF Receive, RegisterUser, SearchUserByEmail, CreateLocation, SearchLocations,
                AddFavorite, RemoveFavorite, ListFavorites, CheckFavorite, Refuse
<1>3. ASSUME NEW p \in Req, Proceed(p), ~ Commit(p) PROVE UNCHANGED tables
    BY <1>3 DEF Proceed, InsertUser, InsertLocation, UpsertFavorite, DeleteFavorite, Write, GiveUp
<1>4. ASSUME NEW p \in Req, Commit(p) PROVE [Abstract!Next]_(Abstract!vars)
    BY <1>4, CommitRefines DEF Abstract!vars, Favored
<1>5. ASSUME NEW p \in Req, Fail(p) PROVE UNCHANGED tables
    BY <1>5 DEF Fail, GiveUp
<1>6. ASSUME UNCHANGED vars PROVE UNCHANGED tables
    BY <1>6 DEF vars, tables
<1> QED
    BY <1>1, <1>2, <1>3, <1>4, <1>5, <1>6 DEF Next, AllServed

\* The handlers of accounts, places and favorites implement Catalog: whatever statements wait,
\* repeat or fail, nothing but whole registrations, places, favorites and removals happens.
THEOREM RefinesCatalog == Spec => ImplementsCatalog
<1>1. Spec => Abstract!Init
    BY InitRefines DEF Spec
<1> QED
    BY <1>1, InitRefines, StepRefines, Inductive, PTL DEF Spec, ImplementsCatalog, Abstract!Spec
=============================================================================
