----------------------------- MODULE Directory -----------------------------
(***************************************************************************)
(* Accounts, places and favorites as concurrent requests over PostgreSQL:  *)
(* handler/user_register.go and user_search.go, location.go, favorites.go. *)
(*                                                                         *)
(* Every write is one statement, in a transaction of its own: it waits for *)
(* an uncommitted row it clashes with, then writes or is refused, then     *)
(* commits.  Every read is one statement over committed rows.  Any request *)
(* may fail, or take effect and lose its answer, after which the client    *)
(* repeats it: a retry is another request with the same arguments.         *)
(*                                                                         *)
(* A table is a function from its natural key.  A location or favorite     *)
(* keeps as its id the request that inserted it.  Nothing deletes a user   *)
(* or a location.                                                          *)
(***************************************************************************)
EXTENDS Integers, FiniteSets

CONSTANTS
    UserId,     \* Auth0's user ids
    Email,      \* spellings of email addresses
    Lower,      \* Lower[e]: LOWER(e), the same for two spellings of one address
    Place,      \* records [name, at]: name is its rank by ORDER BY name
    Req,        \* the requests served
    OldUsers,   \* the accounts of before, a function from ids to emails
    OldPlaces,  \* the places of before, a function from places to ids
    OldFavorites,  \* the favorites of before, a function from pairs to ids
    Condition,  \* what SearchLocations can ask for, each as the places that have it
    Limit,      \* its LIMIT, 50
    None

OldId == {OldPlaces[l] : l \in DOMAIN OldPlaces}
LocationId == Req \cup OldId

OldRow == {OldFavorites[k] : k \in DOMAIN OldFavorites}

ASSUME NullAssumption == None \notin Email \cup LocationId \cup OldRow
ASSUME LowerAssumption == DOMAIN Lower = Email
ASSUME OldUsersAssumption ==
    /\ DOMAIN OldUsers \subseteq UserId
    /\ \A u, v \in DOMAIN OldUsers : OldUsers[u] \in Email
                                     /\ (OldUsers[u] = OldUsers[v] => u = v)
ASSUME OldPlacesAssumption ==
    /\ DOMAIN OldPlaces \subseteq Place
    /\ \A l, m \in DOMAIN OldPlaces : OldPlaces[l] \notin Req
                                      /\ (OldPlaces[l] = OldPlaces[m] => l = m)
ASSUME OldFavoritesAssumption ==
    /\ DOMAIN OldFavorites \subseteq (DOMAIN OldUsers) \X OldId
    /\ \A k, j \in DOMAIN OldFavorites : OldFavorites[k] \notin Req
                                          /\ (OldFavorites[k] = OldFavorites[j] => k = j)
ASSUME LimitAssumption == Limit \in Nat

VARIABLES
    users,      \* users[u]: the email of the row with id u, or None
    locations,  \* locations[l]: the id of the row of place l, or None
    favorites,  \* favorites[<<u, i>>]: the id of that row, or None
    pc,         \* the next statement of each request
    call,       \* its arguments
    seen,       \* the row a DELETE found in its snapshot
    wrote,      \* the requests with an uncommitted row
    moments,    \* whether the favorite named was there, over the life of a request
    reply       \* the HTTP reply

vars == <<users, locations, favorites, pc, call, seen, wrote, moments, reply>>
tables == <<users, locations, favorites>>

----------------------------------------------------------------------------
(* The data. *)

Favorite == UserId \X LocationId
FavoriteOps == {"add", "remove", "check"}
NoCall == [op |-> "none"]
Call == [op : {"register"}, user : UserId, email : Email]
        \cup [op : {"create"}, place : Place]
        \cup [op : FavoriteOps, user : UserId, loc : LocationId]
        \cup {NoCall}

\* "exists" is the 400 of a place that is there; "refused" is the 500 of any other
\* constraint, "error" of any other failure.
Status == {"none", "ok", "badRequest", "unauthorized", "exists", "notFound", "refused", "error"}
Reply == [status : Status, rows : SUBSET (UserId \cup LocationId \cup OldRow \cup BOOLEAN)]
Told(status) == [status |-> status, rows |-> {}]

Statement == {"insertUser", "insertLocation", "upsertFavorite", "deleteFavorite", "commit"}
InFlight(p) == pc[p] \in Statement

Named(p) == <<call[p].user, call[p].loc>>

\* A row of c and one of d cannot both be written: users(id), users(email),
\* uq_locations_name_coords, or the same row of user_favorite_locations.
Clash(c, d) ==
    \/ c.op = "register" /\ d.op = "register" /\ (c.user = d.user \/ c.email = d.email)
    \/ c.op = "create" /\ d.op = "create" /\ c.place = d.place
    \/ /\ c.op \in {"add", "remove"} /\ d.op \in {"add", "remove"}
       /\ c.user = d.user /\ c.loc = d.loc

Waits(p) == \E q \in wrote : Clash(call[p], call[q])

Init ==
    /\ users = [u \in UserId |-> IF u \in DOMAIN OldUsers THEN OldUsers[u] ELSE None]
    /\ locations = [l \in Place |-> IF l \in DOMAIN OldPlaces THEN OldPlaces[l] ELSE None]
    /\ favorites = [k \in Favorite |-> IF k \in DOMAIN OldFavorites THEN OldFavorites[k] ELSE None]
    /\ pc = [p \in Req |-> "idle"]
    /\ call = [p \in Req |-> NoCall]
    /\ seen = [p \in Req |-> None]
    /\ wrote = {}
    /\ moments = [p \in Req |-> {}]
    /\ reply = [p \in Req |-> Told("none")]

----------------------------------------------------------------------------

Goto(p, s) == pc' = [pc EXCEPT ![p] = s]

Answer(p, status, rows) ==
    /\ Goto(p, "done")
    /\ reply' = [reply EXCEPT ![p] = [status |-> status, rows |-> rows]]

\* The statement failed, or changed no row.
GiveUp(p, status) == /\ Answer(p, status, {})
                     /\ wrote' = wrote \ {p}
                     /\ UNCHANGED <<tables, call, seen, moments>>

Write(p) == /\ wrote' = wrote \cup {p}
            /\ Goto(p, "commit")
            /\ UNCHANGED <<tables, call, seen, moments, reply>>

----------------------------------------------------------------------------
(* POST /user/register and GET /api/v1/users/search *)

\* Auth0 signs with HMAC and the shared secret, which the server must have been given.
ValidateTriggerToken(token) ==
    token.secretSet /\ token.method = "HMAC" /\ token.key = "secret" /\ token.live

\* What is missing or does not parse, a transaction that does not begin or a query that fails:
\* nothing has happened yet.
Refuse(p, status) ==
    /\ pc[p] = "idle"
    /\ Answer(p, status, {})
    /\ UNCHANGED <<tables, call, seen, wrote, moments>>

Token == [secretSet : BOOLEAN, method : {"HMAC", "RSA"}, key : {"secret", "other"}, live : BOOLEAN]

RegisterUser(p, u, e, token) ==
    /\ pc[p] = "idle"
    /\ \/ ~ ValidateTriggerToken(token) /\ Answer(p, "unauthorized", {}) /\ UNCHANGED call
       \/ /\ ValidateTriggerToken(token)
          /\ call' = [call EXCEPT ![p] = [op |-> "register", user |-> u, email |-> e]]
          /\ Goto(p, "insertUser") /\ UNCHANGED reply
    /\ UNCHANGED <<tables, seen, wrote, moments>>

\* Mutant: ON CONFLICT (id) DO UPDATE SET email = EXCLUDED.email.
InsertUser_Upsert(p) ==
    /\ pc[p] = "insertUser"
    /\ ~ Waits(p)
    /\ IF \E v \in UserId \ {call[p].user} : users[v] = call[p].email
       THEN GiveUp(p, "refused")
       ELSE Write(p)

\* INSERT ... ON CONFLICT (id) DO NOTHING: a known id is no error and no row, a known
\* email under a new id is refused by idx_users_email.
InsertUser(p) ==
    /\ pc[p] = "insertUser"
    /\ \/ /\ users[call[p].user] # None
          /\ Goto(p, "commit")
          /\ UNCHANGED <<tables, call, seen, wrote, moments, reply>>
       \/ /\ users[call[p].user] = None /\ ~ Waits(p)
          /\ IF \E v \in UserId : users[v] = call[p].email
             THEN GiveUp(p, "refused")
             ELSE Write(p)

\* WHERE LOWER(email) = LOWER($1): emails are unique as they are spelled, so that several
\* rows may match; the first is taken, and a query that fails is a 404 too.
SearchUserByEmail(p, e) ==
    /\ pc[p] = "idle"
    /\ \/ Answer(p, "notFound", {})
       \/ \E u \in UserId : /\ users[u] # None /\ Lower[users[u]] = Lower[e]
                            /\ Answer(p, "ok", {u})
    /\ UNCHANGED <<tables, call, seen, wrote, moments>>

----------------------------------------------------------------------------
(* POST /api/v1/locations and GET /api/v1/locations/search *)

CreateLocation(p, l) ==
    /\ pc[p] = "idle"
    /\ call' = [call EXCEPT ![p] = [op |-> "create", place |-> l]]
    /\ Goto(p, "insertLocation")
    /\ UNCHANGED <<tables, seen, wrote, moments, reply>>

\* Mutant: "already exists" is said of a creation that has not been committed.
InsertLocation_NoWait(p) ==
    /\ pc[p] = "insertLocation"
    /\ IF locations[call[p].place] # None \/ Waits(p)
       THEN GiveUp(p, "exists")
       ELSE Write(p)

\* The name of the violated constraint in the error's text makes it a 400.
InsertLocation(p) ==
    /\ pc[p] = "insertLocation"
    /\ ~ Waits(p)
    /\ IF locations[call[p].place] # None THEN GiveUp(p, "exists") ELSE Write(p)

\* ORDER BY name LIMIT Limit, or the rows of it that were read before the connection was
\* lost, which nobody asks rows.Err() about: no row left out comes before one that is shown.
FirstByName(found) ==
    {page \in SUBSET found :
        /\ Cardinality(page) <= Limit
        /\ \A l \in page, m \in found \ page : l.name <= m.name}

\* Conditions are joined by AND; without any the request is refused.
SearchLocations(p, conditions) ==
    /\ pc[p] = "idle"
    /\ conditions # {}
    /\ \E page \in FirstByName({l \in Place : /\ locations[l] # None
                                             /\ \A c \in conditions : l \in c}) :
          Answer(p, "ok", {locations[l] : l \in page})
    /\ UNCHANGED <<tables, call, seen, wrote, moments>>

----------------------------------------------------------------------------
(* POST, DELETE and GET /api/v1/favorites *)

\* A request about the favorite <<u, i>> begins.
Names(p, op, u, i) ==
    /\ pc[p] = "idle"
    /\ call' = [call EXCEPT ![p] = [op |-> op, user |-> u, loc |-> i]]
    /\ moments' = [moments EXCEPT ![p] = {favorites[<<u, i>>] # None}]

AddFavorite(p, u, i) ==
    /\ Names(p, "add", u, i)
    /\ Goto(p, "upsertFavorite")
    /\ UNCHANGED <<tables, seen, wrote, reply>>

Exists(i) == \E l \in Place : locations[l] = i

\* Mutant: the table has no foreign keys.
UpsertFavorite_NoForeignKey(p) ==
    /\ pc[p] = "upsertFavorite"
    /\ ~ Waits(p)
    /\ Write(p)

\* INSERT ... ON CONFLICT DO UPDATE ... RETURNING: a row that is there is locked and
\* returned; a new one needs its user and its location.
UpsertFavorite(p) ==
    /\ pc[p] = "upsertFavorite"
    /\ ~ Waits(p)
    /\ IF favorites[Named(p)] = None /\ ~ (users[call[p].user] # None /\ Exists(call[p].loc))
       THEN GiveUp(p, "refused")
       ELSE Write(p)

\* The DELETE takes its snapshot.
RemoveFavorite(p, u, i) ==
    /\ Names(p, "remove", u, i)
    /\ seen' = [seen EXCEPT ![p] = favorites[<<u, i>>]]
    /\ Goto(p, "deleteFavorite")
    /\ UNCHANGED <<tables, wrote, reply>>

\* It waits for the row it saw, if any, and looks again: gone, or replaced by a new row, is
\* no row affected, a 404.
DeleteFavorite(p) ==
    /\ pc[p] = "deleteFavorite"
    /\ \/ seen[p] \notin {favorites[Named(p)]} \ {None} /\ GiveUp(p, "notFound")
       \/ seen[p] # None /\ favorites[Named(p)] = seen[p] /\ ~ Waits(p) /\ Write(p)

\* Here too the rows may be cut off.
ListFavorites(p, u) ==
    /\ pc[p] = "idle"
    /\ \E rows \in SUBSET {i \in LocationId : favorites[<<u, i>>] # None} :
          Answer(p, "ok", rows)
    /\ UNCHANGED <<tables, call, seen, wrote, moments>>

CheckFavorite(p, u, i) ==
    /\ Names(p, "check", u, i)
    /\ Answer(p, "ok", {favorites[<<u, i>>] # None})
    /\ UNCHANGED <<tables, seen, wrote>>

----------------------------------------------------------------------------
(* The end of a transaction. *)

Publish(p) ==
    LET c == call[p] IN
    /\ users' = IF c.op = "register" THEN [users EXCEPT ![c.user] = c.email] ELSE users
    /\ locations' = IF c.op = "create" THEN [locations EXCEPT ![c.place] = p] ELSE locations
    /\ favorites' = CASE c.op = "add" /\ favorites[Named(p)] = None ->
                             [favorites EXCEPT ![Named(p)] = p]
                      [] c.op = "remove" -> [favorites EXCEPT ![Named(p)] = None]
                      [] OTHER -> favorites

\* The ids an answer gives, RETURNING or as they were sent.
Returned(p) ==
    CASE call[p].op = "register" -> {call[p].user}
      [] call[p].op = "create"   -> {p}
      [] call[p].op = "add"      -> {favorites'[Named(p)]}
      [] call[p].op = "remove"   -> {}

\* The commit takes effect; its answer may still be lost.
Commit(p) ==
    /\ pc[p] = "commit"
    /\ IF p \in wrote THEN Publish(p) ELSE UNCHANGED tables
    /\ wrote' = wrote \ {p}
    /\ moments' = [q \in Req |-> IF call[q].op \in {"add", "remove"} /\ InFlight(q)
                                 THEN moments[q] \cup {favorites'[Named(q)] # None}
                                 ELSE moments[q]]
    /\ \/ Answer(p, "ok", Returned(p))
       \/ Answer(p, "error", {})
    /\ UNCHANGED <<call, seen>>

\* The statement or the commit fails, or the connection is lost before it took effect.
Fail(p) == InFlight(p) /\ GiveUp(p, "error")

----------------------------------------------------------------------------

Receive(p) ==
    \/ \E u \in UserId, e \in Email, token \in Token : RegisterUser(p, u, e, token)
    \/ \E status \in {"badRequest", "error"} : Refuse(p, status)
    \/ \E e \in Email : SearchUserByEmail(p, e)
    \/ \E l \in Place : CreateLocation(p, l)
    \/ \E conditions \in SUBSET Condition : SearchLocations(p, conditions)
    \/ \E u \in UserId, i \in LocationId : \/ AddFavorite(p, u, i)
                                           \/ RemoveFavorite(p, u, i)
                                           \/ CheckFavorite(p, u, i)
    \/ \E u \in UserId : ListFavorites(p, u)

Proceed(p) ==
    \/ InsertUser(p)
    \/ InsertLocation(p)
    \/ UpsertFavorite(p)
    \/ DeleteFavorite(p)
    \/ Commit(p)

\* Every request has been served: nothing more happens.
AllServed == (\A p \in Req : pc[p] = "done") /\ UNCHANGED vars

Next == (\E p \in Req : Receive(p) \/ Proceed(p) \/ Fail(p)) \/ AllServed

Spec == Init /\ [][Next]_vars

----------------------------------------------------------------------------
(* Correctness. *)

TypeOK ==
    /\ users \in [UserId -> Email \cup {None}]
    /\ locations \in [Place -> LocationId \cup {None}]
    /\ favorites \in [Favorite -> Req \cup OldRow \cup {None}]
    /\ pc \in [Req -> {"idle", "done"} \cup Statement]
    /\ call \in [Req -> Call]
    /\ seen \in [Req -> Req \cup OldRow \cup {None}]
    /\ wrote \subseteq Req
    /\ moments \in [Req -> SUBSET BOOLEAN]
    /\ reply \in [Req -> Reply]

AnswerIsTrue(p) ==
    LET c == call[p]
        told == reply[p].status
    IN
    /\ c.op = "register" /\ told = "ok" => users[c.user] # None
    /\ c.op = "register" /\ told = "refused" => \E v \in UserId \ {c.user} : users[v] = c.email
    /\ c.op = "create" /\ told = "ok" => locations[c.place] = p
    /\ c.op = "create" /\ told = "exists" => locations[c.place] \notin {None, p}
    /\ c.op = "add" /\ told = "ok" => TRUE \in moments[p]
    /\ c.op = "add" /\ told = "refused" => FALSE \in moments[p]
    /\ c.op = "remove" /\ told = "ok" =>
           /\ seen[p] # None /\ moments[p] = BOOLEAN
           /\ \A q \in Req \ {p} : call[q].op = "remove" /\ reply[q].status = "ok" =>
                  seen[q] # seen[p]
           /\ \A k \in Favorite : favorites[k] # seen[p]
    /\ c.op = "remove" /\ told = "notFound" => FALSE \in moments[p]

\* Whatever else was registered, created, added and removed meanwhile, what a request is
\* told held at some moment of its life: "already exists" is said only of a place another
\* request has stored for good, a registration is refused only for an email that is
\* another user's, "removed" is told to one request for each row, and a 404 is a removal
\* that at some moment had nothing to remove.
AnswersAreTrue == \A p \in Req : AnswerIsTrue(p)

----------------------------------------------------------------------------
(* Why these hold: the inductive invariant of the proofs. *)

\* A statement runs with the arguments of its endpoint, and an answer ends it.
CallInv ==
    \A p \in Req :
        /\ pc[p] = "idle" => call[p] = NoCall /\ seen[p] = None
        /\ pc[p] # "done" => reply[p] = Told("none")
        /\ pc[p] = "insertUser" => call[p].op = "register"
        /\ pc[p] = "insertLocation" => call[p].op = "create"
        /\ pc[p] = "upsertFavorite" => call[p].op = "add"
        /\ pc[p] = "deleteFavorite" => call[p].op = "remove"
        /\ pc[p] = "commit" => \/ p \in wrote
                               \/ call[p].op = "register" /\ users[call[p].user] # None

\* The row with id i was inserted for the favorite k.
RowFor(i, k) ==
    \/ k \in DOMAIN OldFavorites /\ OldFavorites[k] = i
    \/ i \in Req /\ call[i] = [op |-> "add", user |-> k[1], loc |-> k[2]] /\ pc[i] = "done"

\* Emails and location ids are unique, a row keeps the id of a request that inserted it,
\* and a favorite has its user and its location.
RowInv ==
    /\ \A u, v \in UserId : users[u] # None /\ users[u] = users[v] => u = v
    /\ \A l, m \in Place : locations[l] # None /\ locations[l] = locations[m] => l = m
    /\ \A l \in Place : locations[l] \in Req =>
           /\ call[locations[l]] = [op |-> "create", place |-> l]
           /\ pc[locations[l]] = "done"
    /\ \A k \in Favorite : favorites[k] # None =>
           users[k[1]] # None /\ Exists(k[2]) /\ RowFor(favorites[k], k)

\* Uncommitted rows do not clash with each other or with committed ones.
LockInv ==
    \A p \in wrote :
        LET c == call[p] IN
        /\ pc[p] = "commit" /\ c.op \in {"register", "create", "add", "remove"}
        /\ \A q \in wrote \ {p} : ~ Clash(c, call[q])
        /\ c.op = "register" => users[c.user] = None /\ \A v \in UserId : users[v] # c.email
        /\ c.op = "create" => locations[c.place] = None
        /\ c.op = "add" => users[c.user] # None /\ Exists(c.loc)
        /\ c.op = "remove" => seen[p] # None /\ favorites[Named(p)] = seen[p]

\* What a request about a favorite has seen of it, and what became of the row it saw: it
\* was the row of its favorite, and one that has gone does not come back.
MomentInv ==
    \A p \in Req : call[p].op \in FavoriteOps =>
        /\ InFlight(p) => (favorites[Named(p)] # None) \in moments[p]
        /\ call[p].op = "remove" /\ seen[p] = None => FALSE \in moments[p]
        /\ seen[p] # None =>
               /\ TRUE \in moments[p] /\ RowFor(seen[p], Named(p))
               /\ InFlight(p) /\ favorites[Named(p)] # seen[p] => FALSE \in moments[p]

IndInv == TypeOK /\ CallInv /\ RowInv /\ LockInv /\ MomentInv /\ AnswersAreTrue

----------------------------------------------------------------------------
(* The abstract catalog. *)

Abstract == INSTANCE Catalog WITH
    account  <- users,
    place    <- locations,
    favorite <- {k \in Favorite : favorites[k] # None}

\* The statements, interleaved, repeated and interrupted, keep the catalog of Catalog.
ImplementsCatalog == Abstract!Spec
=============================================================================
