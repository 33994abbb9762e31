----------------------------- MODULE JwksCache -----------------------------
(***************************************************************************)
(* Token validation in middleware/auth.go: requests that share the process-*)
(* wide cache of Auth0's signing keys, refilled from the JWKS endpoint with *)
(* no lock held during the HTTP call.                                      *)
(*                                                                         *)
(* A kid stands for its key: Auth0 gives a new key a new kid and does not  *)
(* bring a withdrawn one back.  A token names a kid and is signed with     *)
(* some key, or with none of Auth0's.  Time passes in ticks: Ttl is the    *)
(* hour of cache.ttl, Timeout the ten seconds of the HTTP client.  What    *)
(* the code computes between a response and the cache takes no tick.       *)
(***************************************************************************)
EXTENDS Integers

CONSTANTS
    Kid,      \* the RSA signing keys Auth0 has at one time or another
    Other,    \* entries of the JWKS document getPublicKey skips
    Ttl,      \* cache.ttl
    Timeout,  \* the timeout of http.Client
    MaxTime,  \* the bound of the clock
    Sent,     \* the tokens requests carry
    Req,      \* the requests being authenticated
    None      \* no kid in the header; no key of Auth0 signed the token

ASSUME KidAssumption == None \notin Kid \cup Other /\ Kid \cap Other = {}
ASSUME TimeAssumption == Ttl \in Nat \ {0} /\ Timeout \in Nat /\ MaxTime \in Nat

Token == [kid : Kid \cup Other \cup {None},
          signer : Kid \cup {None},
          claims : BOOLEAN]  \* issuer, audience, expiry and sub are in order
NoToken == [kid |-> None, signer |-> None, claims |-> FALSE]

ASSUME SentAssumption == Sent \subseteq Token

VARIABLES
    now,        \* the clock
    published,  \* the keys in Auth0's JWKS document
    gone,       \* those withdrawn from it
    goneAt,     \* when
    keys,       \* cache.keys
    fetchedAt,  \* cache.fetchedAt
    readers,    \* the requests that hold cache.mu for reading
    pc,         \* where each request is
    token,      \* the token it carries
    startedAt,  \* when its HTTP call began
    body,       \* the entries of the document it received
    knew,       \* whether its kid was published when it arrived
    outcome     \* "served", "refused", or "unavailable" when Auth0 was: both a 401

auth0 == <<published, gone, goneAt>>
cache == <<keys, fetchedAt>>
locals == <<token, startedAt, body, knew>>
vars == <<now, auth0, cache, readers, pc, locals, outcome>>

Init ==
    /\ now = 0
    /\ published \in SUBSET Kid
    /\ gone = {}
    /\ goneAt = [k \in Kid |-> 0]
    /\ keys = {}
    /\ fetchedAt = 0
    /\ readers = {}
    /\ pc = [p \in Req |-> "idle"]
    /\ token = [p \in Req |-> NoToken]
    /\ startedAt = [p \in Req |-> 0]
    /\ body = [p \in Req |-> {}]
    /\ knew = [p \in Req |-> FALSE]
    /\ outcome = [p \in Req |-> "none"]

----------------------------------------------------------------------------
(* Auth0. *)

Publish(k) == /\ k \in Kid \ (published \cup gone)
              /\ published' = published \cup {k}
              /\ UNCHANGED <<now, gone, goneAt, cache, readers, pc, locals, outcome>>

Withdraw(k) == /\ k \in published
               /\ published' = published \ {k}
               /\ gone' = gone \cup {k}
               /\ goneAt' = [goneAt EXCEPT ![k] = now]
               /\ UNCHANGED <<now, cache, readers, pc, locals, outcome>>

----------------------------------------------------------------------------
(* Auth0Middleware. *)

Goto(p, s) == pc' = [pc EXCEPT ![p] = s]

\* The handler returns; what the request held is forgotten.
Answer(p, o) == /\ Goto(p, "idle")
                /\ outcome' = [outcome EXCEPT ![p] = o]
                /\ token' = [token EXCEPT ![p] = NoToken]
                /\ startedAt' = [startedAt EXCEPT ![p] = 0]
                /\ body' = [body EXCEPT ![p] = {}]
                /\ knew' = [knew EXCEPT ![p] = FALSE]

\* getPublicKey has returned the key of the token's kid: jwt.Parse checks the signature
\* and the claims.
Judge(p) == Answer(p, IF token[p].signer = token[p].kid /\ token[p].claims
                      THEN "served" ELSE "refused")

\* A request arrives.  Without a bearer token, or with one that is not an RSA token or
\* names no kid, it is refused; otherwise getPublicKey takes the read lock.
Auth0Middleware(p, t) ==
    /\ pc[p] = "idle"
    /\ IF t.kid = None
       THEN Answer(p, "refused") /\ UNCHANGED readers
       ELSE /\ Goto(p, "lookup")
            /\ readers' = readers \cup {p}
            /\ token' = [token EXCEPT ![p] = t]
            /\ knew' = [knew EXCEPT ![p] = t.kid \in published]
            /\ outcome' = [outcome EXCEPT ![p] = "none"]
            /\ UNCHANGED <<startedAt, body>>
    /\ UNCHANGED <<now, auth0, cache>>

Fresh == now - fetchedAt < Ttl

StartGet(p) == /\ Goto(p, "get")
               /\ startedAt' = [startedAt EXCEPT ![p] = now]
               /\ UNCHANGED <<token, body, knew, outcome>>

\* Mutant: a fresh cache is taken to be complete.
Lookup_FreshIsComplete(p) ==
    /\ pc[p] = "lookup"
    /\ readers' = readers \ {p}
    /\ \/ Fresh /\ token[p].kid \in keys /\ Judge(p)
       \/ Fresh /\ token[p].kid \notin keys /\ Answer(p, "refused")
       \/ ~ Fresh /\ StartGet(p)
    /\ UNCHANGED <<now, auth0, cache>>

\* Mutant: the read lock is released on the return in the if only.
Lookup_KeepsLock(p) ==
    /\ pc[p] = "lookup"
    /\ IF token[p].kid \in keys /\ Fresh
       THEN Judge(p) /\ readers' = readers \ {p}
       ELSE StartGet(p) /\ UNCHANGED readers
    /\ UNCHANGED <<now, auth0, cache>>

\* The cache has the key and is fresh, or the read lock is given back and client.Get
\* called.
Lookup(p) ==
    /\ pc[p] = "lookup"
    /\ readers' = readers \ {p}
    /\ IF token[p].kid \in keys /\ Fresh THEN Judge(p) ELSE StartGet(p)
    /\ UNCHANGED <<now, auth0, cache>>

\* Auth0 answers with its document of the moment, or with an error document, whose status
\* is not looked at and which holds no keys.
Respond(p) ==
    /\ pc[p] = "get"
    /\ Goto(p, "body")
    /\ \E doc \in {published \cup Other, {}} : body' = [body EXCEPT ![p] = doc]
    /\ UNCHANGED <<now, auth0, cache, readers, token, startedAt, knew, outcome>>

\* No answer, none within Timeout, or one that is not JSON.
FetchFails(p) ==
    /\ pc[p] \in {"get", "body"}
    /\ Answer(p, "unavailable")
    /\ UNCHANGED <<now, auth0, cache, readers>>

\* The entries with kty "RSA", use "sig" and a modulus and exponent that parse.
Usable(entries) == entries \cap Kid

\* Mutant: the map is not made anew.
Install_KeepsOld(p) ==
    /\ pc[p] = "body"
    /\ readers = {}
    /\ keys' = keys \cup Usable(body[p])
    /\ fetchedAt' = now
    /\ IF token[p].kid \in Usable(body[p]) THEN Judge(p) ELSE Answer(p, "refused")
    /\ UNCHANGED <<now, auth0, readers>>

\* Under the write lock the map is replaced and stamped with the time, and the kid is
\* looked up in it.
Install(p) ==
    /\ pc[p] = "body"
    /\ readers = {}
    /\ keys' = Usable(body[p])
    /\ fetchedAt' = now
    /\ IF token[p].kid \in Usable(body[p]) THEN Judge(p) ELSE Answer(p, "refused")
    /\ UNCHANGED <<now, auth0, readers>>

\* A new process starts with an empty cache; the requests of the old one are lost.
Restart ==
    /\ keys' = {}
    /\ fetchedAt' = 0
    /\ readers' = {}
    /\ pc' = [p \in Req |-> "idle"]
    /\ token' = [p \in Req |-> NoToken]
    /\ startedAt' = [p \in Req |-> 0]
    /\ body' = [p \in Req |-> {}]
    /\ knew' = [p \in Req |-> FALSE]
    /\ outcome' = [p \in Req |-> "none"]
    /\ UNCHANGED <<now, auth0>>

\* The HTTP client gives up after Timeout, body included.
Tick == /\ now < MaxTime
        /\ \A p \in Req : pc[p] \in {"get", "body"} => now < startedAt[p] + Timeout
        /\ now' = now + 1
        /\ UNCHANGED <<auth0, cache, readers, pc, locals, outcome>>

----------------------------------------------------------------------------

FetchEnds(p) == Respond(p) \/ FetchFails(p)

Environment == (\E k \in Kid : Publish(k) \/ Withdraw(k)) \/ Tick \/ Restart

Next == \/ Environment
        \/ \E p \in Req : \/ \E t \in Sent : Auth0Middleware(p, t)
                          \/ Lookup(p)
                          \/ FetchEnds(p)
                          \/ Install(p)

Spec == Init /\ [][Next]_vars

\* Goroutines run, the lock is given to those who wait for it, and the client's timeout
\* ends a call Auth0 leaves open.  Nothing else ends the wait for the lock, so a failure
\* after the answer has begun to arrive is possible and not assumed.
FairSpec == Spec /\ \A p \in Req : /\ WF_vars(Lookup(p))
                                   /\ WF_vars(pc[p] = "get" /\ FetchEnds(p))
                                   /\ SF_vars(Install(p))

----------------------------------------------------------------------------
(* Correctness. *)

TypeOK ==
    /\ now \in Nat
    /\ published \subseteq Kid
    /\ gone \subseteq Kid \ published
    /\ goneAt \in [Kid -> Nat]
    /\ keys \subseteq Kid
    /\ fetchedAt \in Nat
    /\ readers \subseteq Req
    /\ pc \in [Req -> {"idle", "lookup", "get", "body"}]
    /\ token \in [Req -> Token]
    /\ startedAt \in [Req -> Nat]
    /\ body \in [Req -> SUBSET (Kid \cup Other)]
    /\ knew \in [Req -> BOOLEAN]
    /\ outcome \in [Req -> {"none", "served", "refused", "unavailable"}]

\* A withdrawn key opens the door for less than Ttl + Timeout after its withdrawal, however
\* fetches overtake each other: a slow fetch may put an older document over a newer one
\* and stamp it with the time it is stored.  A key that was never Auth0's opens nothing.
BoundedStaleness ==
    [][\A p \in Req : pc[p] # "idle" /\ outcome'[p] = "served" =>
           LET k == token[p].signer IN
           /\ k \in published \cup gone
           /\ k \in gone => now < goneAt[k] + Ttl + Timeout]_vars

\* A proper token whose key has been published since before the request, and still is, is
\* refused only if Auth0 answered this very request with an error document: a cache filled
\* before the key existed is no reason, nor is what other requests fetched meanwhile.
RefusedForAReason ==
    [][\A p \in Req :
           (/\ pc[p] # "idle" /\ outcome'[p] = "refused"
            /\ knew[p] /\ token[p].kid \in published
            /\ token[p].signer = token[p].kid /\ token[p].claims)
           => pc[p] = "body" /\ body[p] = {}]_vars

\* Every request is judged: no request waits for the lock or for Auth0 for ever, unless
\* the process is restarted under it.
EveryRequestIsJudged == \A p \in Req : pc[p] # "idle" ~> pc[p] = "idle"

\* What makes BoundedStaleness hold through every step.
ClockInv ==
    /\ fetchedAt <= now
    /\ \A k \in gone : goneAt[k] <= now
    /\ \A p \in Req : pc[p] \in {"get", "body"} =>
           startedAt[p] <= now /\ now <= startedAt[p] + Timeout

\* A cached key was withdrawn, if at all, at most Timeout before the cache was filled.
KeysInv ==
    \A k \in keys : /\ k \in published \cup gone
                    /\ k \in gone => fetchedAt <= goneAt[k] + Timeout

\* A key received was withdrawn, if at all, after the request for it was sent.
BodyInv ==
    \A p \in Req : pc[p] = "body" =>
        /\ \A k \in body[p] \cap Kid : /\ k \in published \cup gone
                                       /\ k \in gone => startedAt[p] <= goneAt[k]
        /\ knew[p] /\ token[p].kid \in published => token[p].kid \in body[p] \/ body[p] = {}

KnewInv == \A p \in Req : knew[p] => token[p].kid \in published \cup gone

OutcomeInv == \A p \in Req : pc[p] # "idle" => outcome[p] = "none"

LockInv == readers = {p \in Req : pc[p] = "lookup"}

IndInv ==
    /\ TypeOK
    /\ ClockInv
    /\ KeysInv
    /\ BodyInv
    /\ KnewInv
    /\ OutcomeInv
    /\ LockInv
=============================================================================
