# howsworkingthere-api: models, checks and proofs

The service is a Go REST API (GoFr, pgx through `database/sql`) over one PostgreSQL
database, with tokens issued by Auth0. It has no tests. Its logic lies in what concurrent
requests do to shared rows, in a cache shared by all requests, in a scoring function
that exists twice, and in reports that compute the same figures by different queries. This
directory models those parts in TLA+, checks them with TLC and proves the safety properties
with TLAPS.

## 1. Inventory

| Part (source) | State | Operations | What is hard | What makes it correct |
|---|---|---|---|---|
| Friendships (`handler/friends.go`) | table `friendships`, UNIQUE (user_id, friend_id) | send, accept, deny, remove, list | checks are read outside the transaction that acts on them; READ COMMITTED; crossed requests; deadlocks; errors ignored inside a transaction | consent of both; denial is final; an acceptance is atomic; rows and notices agree; every request is answered |
| Notifications (`handler/notifications.go`) | table `notifications` | inserted by send and accept, marked by deny and mark-read, listed | same transactions as the above | notices are true; read only by their user |
| Check-ins (`handler/checkin.go`) | `check_ins` and three child tables | two POST endpoints with a client-generated id | retries, concurrent duplicates, six statements that may fail one by one | stored whole, once, and reported truly |
| Work score (`scoring/work_score.go`, `docs/backfill-work-scores.sql`) | columns `work_score`, `time_of_day` | compute in the handler; one-time script | two copies of one table of thresholds; rounding; time zones | fits the column; copies agree; monotone |
| JWKS cache (`middleware/auth.go`) | keys, fetch time, RWMutex | look up, fetch, install | no lock during the fetch; rotation; failing or slow Auth0 | a withdrawn key dies in bounded time; a good token is not refused for a stale cache; nobody waits for ever |
| Trigger token (`middleware/auth0_trigger.go`) | none | validate | – | nobody registers without it |
| Accounts (`handler/user_register.go`, `user_search.go`) | table `users`, unique email | register, search | repeated and concurrent triggers, a known email under a new id; search ignores case, uniqueness does not | one account per id and email; a refusal has a reason |
| Favorites (`handler/favorites.go`) | `user_favorite_locations`, two foreign keys | add, remove, list, check | retries, a removal racing an addition | a set per user of places that exist; a row is removed once; a 404 is true |
| Locations (`handler/location.go`) | `locations`, `uq_locations_name_coords` | create, search | concurrent creation; the loser is told by the text of an error | no duplicate place; "already exists" is said of stored places only |
| Reports (`handler/views.go`, `trending.go`, `location_detail.go`) | none of their own | aggregates over check-ins | the same figures by several queries; NULL aggregates, skipped tests, unscored rows; rounding; ties in paged orders | reports agree; parts add up; nothing leaks between users or places |
| Friend activity (`handler/friend_activity.go`) | none | friends' check-ins | reads two components in every intermediate state | nobody is shown without an agreement |
| Connection pool (`database/database.go`) | 25 connections | one per statement or transaction | exhaustion while rows are waited for; `Begin()` without the request's context | at most 25; who waits for one locks no row |

How they interact: `main.go` puts `Auth0Middleware` in front of every route; it hands the
token's `sub` to the handlers, which is the user of every action below. Handlers share
nothing but the database. Friendships writes notifications in its own transactions; the
check-in handlers call `scoring`; reports and friend activity only read. All of them share
the pool.

The hazards of the code, with the line where each bites and the properties that cover it,
are in `PROJECT.json` under `hazards`; those without a property say why.

## 2. Modules

| Module | Models | Used by |
|---|---|---|
| `FriendGraph` | the promise of the friendship endpoints: ask, agree, part as atomic operations | refined by `Friendships` |
| `Friendships` | `friends.go` and `MarkNotificationRead`, one action per SQL statement | `MCFriendships`, `FriendshipsProofs`, `FriendshipsSerialProofs` |
| `CheckInLog` | the promise of the check-in endpoints: a write-once log | refined by `CheckIns` |
| `CheckIns` | `checkin.go` and the backfill's UPDATE, one action per statement | `MCCheckIns`, `CheckInsProofs` |
| `WorkScore` | `work_score.go` and `backfill-work-scores.sql` over the life of a check-in | `MCWorkScore`, `WorkScoreProofs` |
| `JwksCache` | `Auth0Middleware` and `getPublicKey` over a clock | `MCJwksCache`, `JwksCacheProofs` |
| `Catalog` | the promise of registration, places and favorites | refined by `Directory` |
| `Directory` | `auth0_trigger.go`, `user_register.go`, `user_search.go`, `location.go`, `favorites.go`, one action per statement | `MCDirectory`, `DirectoryProofs` |
| `Reports` | the two averages views, `views.go`, `location_detail.go`, `trending.go` as operators over the state of `CheckInLog` | `MCReports`, `ReportsProofs` |
| `ConnectionPool` | `Friendships` over the pool of `database.go` | `FriendActivity` |
| `FriendActivity` | the composition of `Friendships`, `ConnectionPool` and `CheckInLog` with the reads of `friend_activity.go`, `ListFriends` and `ListNotifications` | `MCFriendActivity`, `FriendActivityProofs` |

The modules named `*Proofs` hold the theorems. Definitions whose name ends in `_Something`
after the name of another definition are mutants: that definition with a plausible bug.
`PROJECT.json` (`mutants`) pairs each property with one that violates it.

### Friendships and PostgreSQL

A request is an element of `Req`; its life is `pc`. The `Receive` actions are the part of a
handler before `Begin`: they read committed rows and decide on the reply or the first
statement. Every later action is one SQL statement, `Commit` the commit, `RollBack` the
deferred `tx.Rollback()`. The table is a function of the UNIQUE key; a row keeps the request
that inserted it as its id, a notification likewise. Since a request may be answered
`"error"` at every point (`Fail`), and a commit may take effect while its answer is lost,
a retry is just another request.

PostgreSQL is modelled as READ COMMITTED as far as the handlers can tell: `lock` and
`dirty` hold the uncommitted versions; a statement that meets another's lock waits and then
sees the committed version (`Found`, `CanWrite`); a `DELETE` visits the rows its snapshot
saw and re-checks each (`RowsBetween`, `DeleteTarget`); an `INSERT` waits on the unique key;
a failed statement aborts the transaction, so that `COMMIT` rolls back (`CommitAborted`);
a cycle of waits aborts a member (`DeadlockVictim`). The statement that writes
`notifications` takes effect at the commit: nobody else writes those rows' other columns, and
the model needs no lock for them (a concurrent mark of the same notification only sets the
same flag). `NotificationCancelled` is a statement never sent because the request's context
ended, after which `Commit`, which ignores the context, still goes through. The one UPDATE of
`MarkNotificationRead` is part of its receipt: it waits for nobody, and may fail.

Users are never deleted and registered users are a constant. The names in notification
messages are left out.

### CheckIns

A submission is an id, user, location, timestamp and body. A body stands for the
measurements, told apart by what the CHECK constraints say of them: two that are accepted,
a skipped noise step, and one refused by each of the other two children. `draft[p]` is what
the transaction of `p` has written. The `INSERT` of a check-in is two actions, since PostgreSQL
enters its two unique keys one after the other: `InsertCheckIn` the primary key, `InsertVisit`
that of user, location and time. Each waits while an uncommitted check-in holds the same key,
the second while it holds the first, so that chains of waiting submissions are those of the
database; that they never close to a cycle is checked (`EveryRequestIsAnswered`).
Both endpoints run the same statements; that of a location takes the location from its path.
`Legacy` are check-ins stored before the score column existed, for which `Backfill` is the
script.

### WorkScore

The tables are the code's, in integers: a tenth of the last digit the column keeps, so
that rounding (`Kept`) and the unrounded value the handler scores can both be told. A
behaviour stores one check-in after another, scored or not, and the script scores those that
are not.

### JwksCache

A key is its kid. `Publish` and `Withdraw` are Auth0's (external); `Lookup` is the part of
`getPublicKey` under the read lock, `Respond` and `FetchFails` the HTTP call with nothing
locked, `Install` the part under the write lock. `Tick` moves the clock, never past the
client's timeout of a call in flight; what is computed between a response and the cache
takes no tick. The error document is an empty list of keys: the status code is not read.

### Directory

Every write is one statement in a transaction of its own, so a request has two steps after
it is received: the statement, which waits while an uncommitted row clashes with its own
(`Waits`: an id, an email, a place, or the same favorite), and the commit. `wrote` are the
requests with an uncommitted row; the tables hold committed rows only. A `DELETE` has its
snapshot when it is received (`seen`) and looks at the row again when it is its turn
(`DeleteFavorite`). `moments` is a history variable: whether the favorite a request names was
there at some moment of its life, which is what its answer is measured against. Reads are
one step. No list asks `rows.Err()` after its loop, so the lists of favorites and of places may
be cut off and still answered "ok" (`FirstByName`, `ListFavorites`). What a search condition
matches, and which spellings of an email are the same in lower case, are constants.

### Reports

The state is that of `CheckInLog`, of which `CheckIns` is shown to be a refinement, so a
report may meet any log it allows. The four endpoints and the views under them are
operators. Since a check-in has exactly one row in each child table (`CheckIns!StoredWhole`),
a join of the views is one row per check-in. Decimals are integers, `None` is NULL, a page
is one of the set of pages that `ORDER BY` with ties allows (`Pages`). One measurement
stands for those that are averaged in the same way. The operators give the answers read to
the end: a list that was cut off, which `views.go` and `trending.go` do not notice either,
holds fewer rows, and what the properties say of a row holds of each that is there. Of ids
that are not locations, one that is a UUID is a 404 and any other a failed query
(`GetLocationDetail`).

### ConnectionPool and FriendActivity

A statement outside a transaction needs a free connection at that moment; `Begin` takes one
and the last statement gives it back, whatever became of it. Check-ins are recorded by the
atomic action of `CheckInLog`. The reads begin a transaction, run one query and roll back; what
they show is any part of the result that may have been read before the connection was lost,
since nobody asks `rows.Err()`.

## 3. Runs

| Run | Question | Bounds |
|---|---|---|
| `friends_safety` | consent, notices, replies, IndInv, and the refinement of `FriendGraph` | 2 users, 4 requests, all endpoints |
| `friends_serial` | is the schema's comment true of one request at a time, and can a third user touch a row? | 3 users, one without account, 3 requests |
| `activity` | who is shown whose check-ins; is everybody answered when requests wait for rows and for connections? | 2 users who have asked each other, 2 requests (accept, deny, remove), 1 reader, 3 check-ins, one recorded meanwhile, 2 connections |
| `checkins` | whole, once, truly reported; the refinement of `CheckInLog`; are submissions and retries answered? | 2 requests, 7 submissions, 3 ids, 2 locations |
| `jwks` | how long does a withdrawn key work; who is refused; does anybody wait for ever? | 1 key, 2 requests, Ttl 2, Timeout 1, clock to 3 |
| `work_score` | the five score properties | 5 points around each threshold, all ratings, 8 hours, 3 corners |
| `directory` | were answers true; the refinement of `Catalog` | 3 requests, 2 user ids, 3 spellings of 2 emails, 2 places, one account, place and favorite from before |
| `reports` | do the reports agree, add up and keep to themselves? | 2 check-ins of before, 7 recorded in any order, by 2 users at 2 of 3 places |

Why these bounds are enough to be interesting. An anomaly of the friendship table needs the
request to be answered, the answer, and one rival (3 requests); the fourth lets a notice be
read or a request be repeated afterwards. Locks only ever join two users, since every
statement names one pair, so a third user matters for authorisation only; `OnlyTheTwoChangeTheirRows`, checked with one
request at a time, is proved for all interleavings. Two submissions
cover a check-in and its retry or its rival, in any order; that a third adds nothing is
proved, not only checked: `IndInv` and the safety properties of `CheckIns`, `JwksCache` and
`Directory` are theorems for any number of requests, which is why those runs are small and
check safety and liveness at once. The JWKS clock reaches the latest
moment a stale key can be served (`Ttl + Timeout` after its withdrawal); with
`Ttl + Timeout - 1` TLC finds a violation. The score bounds −2 and +10 are tight in the same
sense, at the corners of `MCWorkScore`. In `activity` two connections are fewer than the
three that want one, and enough for two transactions that hold rows the other wants. The
check-ins of `reports` are chosen for the corners of the queries: each test is skipped by
some, an ISP is not given or is called "Unknown", times lie on both sides of every window
and ahead of `NOW()`, three visitors share a place so that percentages do not divide evenly,
two came before the score and one of those says "both", and one place has no visitor.
Every set of them is reached, and every one of those two unscored and scored. Symmetry is used in safety runs over
requests (and users, where none is special), never in liveness runs.

Deadlock checking is on everywhere: `AllServed` (`AllAnswered`) is the only way to stop.

### Where the code and its words differ

Four runs expect a violation; `PROJECT.json` (`findings`) quotes the line each contradicts.

| Run | What TLC shows |
|---|---|
| `friends_one_sided` | accept reads the request, remove deletes it, accept's UPDATE changes nothing and its INSERT leaves one accepted row |
| `friends_accept_notification` | the "non-critical" notification takes the acceptance down with it |
| `checkins_concurrent_retry` | a retry that overtakes the first commit is refused instead of answered |
| `checkins_skipped_noise` | a skipped noise step fails `chk_duration` |

`friends_serial` is the other half of the first: with one request at a time the table is what
the words say. Under `Spec` instead of `SerialSpec` `OneRowWhilePending` and
`RemoveRemovesBothRows` fail as well: two users who ask each other at once leave two pending
rows (`friends.go:46` counts before the transaction), and a removal whose DELETE begins before
an acceptance commits misses the new row (`friends.go:275`). A denial, too, deletes a row that
has been accepted since it was read (`friends.go:236`); `FriendGraph` allows it, as nothing
promises otherwise. Some differences need no run to
be seen:

- `ListFriends` does not list incoming requests, against its comment (`friends.go:296`);
- the answer to a taken check-in id carries the request's location and timestamp, not the
  record's (`checkin.go:62`);
- a known location without ratings has no detail: its percentages are NULL, which the scan
  refuses, a 500 that `docs/location-detail-endpoint-spec.md:18` does not list
  (`GetLocationDetail`; `ReportsAgree` says exactly when there is a detail);
- `GetAllLocations` "returns all tested locations" (`views.go:86`), but its view is a
  `LEFT JOIN` and lists untested ones too (`LocationAverages`);
- `docs/api-design-plan.md:123` has a second creation find the existing place;
  `CreateLocation` answers 400 without its id;
- `RegisterUser` answers "created" when nothing was inserted (`user_register.go:48`).

## 4. Fairness

- `Friendships`, `CheckIns`: weak fairness of each request's own next statement
  (`Proceed`): PostgreSQL executes what it can execute, grants a lock once it is free and
  resolves a deadlock. Nothing is assumed of failures, and none is needed. A statement
  that is waiting becomes enabled for good once the lock is free, except when another waiter
  takes it; each request takes finitely many steps, so weak fairness suffices.
- `FriendActivity`: the same for a statement whose transaction has a connection, for `Begin`
  while a connection is free, and for the query of a read. Weak fairness suffices for `Begin`
  in the run, where requests are finitely many; `database/sql` hands connections out in the
  order of the waiters.
- `JwksCache`: weak fairness of the look-up and of the end of the HTTP call, which the client's
  timeout guarantees; strong fairness of `Install`, because readers come and go while it
  waits: Go's `RWMutex` keeps new readers out while a writer waits.

## 5. Proofs

TLAPS checks each theorem for every value of the constants, under the named assumptions of
the modules (NULL is none of the values, operations are among those that exist, legacy
check-ins respect the UNIQUE constraints, `Ttl > 0`, measurements satisfy the CHECKs,
`Id`, `Location` and the pool are finite).

- **Friendships.** Consent alone is not inductive: a commit publishes `dirty`, about which it
  says nothing. `IndInv` adds that a row's id tells its key and request (`RowInv`), that each
  lock belongs to a request in flight and its uncommitted version is `Justified` by the
  committed one and by what the request was asked for (`LockInv`), what has been written by
  the time of each later statement (`ProgressInv`), that a request that answers another has
  read one that took effect (`CallInv`), and whose notifications are whose (`NoticeInv`).
  It is proved action by action; the state properties follow from it, the action
  properties from it and the fact that only `Commit` changes the tables. For `RefinesGraph` a
  commit is `Ask`, `Agree` or `Part` by what its request asked for (a denial or removal that
  finds nothing changes nothing), since the rows it publishes are exactly those it locked.
- **One request at a time.** `SerialInv`: at most one request runs, what it read before its
  transaction is still so (`ReadStays`), and the rows come in pairs. `CommitLeaves` computes
  from these and `IndInv` what a commit leaves of the two rows. Where the proof uses
  `ReadStays` is where concurrency breaks the words of the schema.
- **CheckIns.** `IndInv` says that `draft` is exactly what the statements before `pc` have
  written and that an uncommitted check-in shares no key it has entered with another or with
  a stored one (`LockInv`): so a commit cannot overwrite. From it follow the state properties and `RefinesLog`, in which `Commit`
  is `Record` and every other statement a stutter.
- **JwksCache.** `KeysInv`: a cached key was withdrawn, if at all, at most `Timeout` before
  the cache was filled, because (`BodyInv`) a key received was withdrawn after its fetch
  began and (`ClockInv`) a fetch lasts at most `Timeout`. With freshness below `Ttl` this
  bounds staleness, for any number of overlapping fetches.
- **WorkScore.** Bounds of each table give the column's range; the script's disjoint branches
  equal the handler's cascade; rounding moves a value by half a step and crosses at most one
  threshold of a table. These hold for every measurement, not only those of the run.
- **Directory.** `AnswersAreTrue` needs to know that rows are never lost or replaced.
  `LockInv`: uncommitted rows clash neither with each other nor with committed ones, so a
  commit adds a row nobody has, or acts on the row its statement saw. `RowInv`: emails and
  place ids are unique and a favorite's row names the request that inserted it, so a row that
  has gone does not come back (`RowForOne`) and two removals cannot both have it.
  `MomentInv` ties the history to the table. Only `Commit` changes the tables
  (`CommitFacts`); every other step ends in `GiveUp`, `Write` or an answer, for which there
  are lemmas. The refinement maps `Commit` to the step of `Catalog` its request asked for.
- **FriendActivity.** `PoolKeepsFriendships`: to the tables the pool and the reads are
  stuttering, so `IndInv` carries over. `PoolInv` needs only that the connections are a finite
  set; that no waiter locks a row follows from every last statement releasing both. What a
  read showed stays true (`FeedNextInv`) because the log is write-once and an agreement is a
  fact about requests that took effect, whose arguments are fixed (`AgreementStays`).
- **Reports.** The invariant is small (`LogInv`: the log holds submissions and only stored
  ones are scored); the work is in the arithmetic of the queries, for any number of rows.
  `SUM` and `COUNT` are folds over sets of rows. The induction theorems of the library take
  an operator and cannot be used, but a fact about one sum can be proved without them: of the
  sets for which it fails a smallest exists (`SmallestSet`, from the well-founded order of
  the subsets of a finite set), and removing a row from that contradicts it. So a sum does
  not depend on the order of its rows (`SumRemove`), splits over disjoint sets (`SumUnion`)
  and counts by a column (`SumCounts`), on which the ISPs of a detail and the visitors of a
  place rest. A rounded percentage is off by at most half a tenth and their sum is whole,
  hence 99.9 to 100.1 (`TenthsAddUp`). A score lies between those of its times of day
  because the average of a whole lies between the averages of its parts (`Mediant`,
  `PartsOfAverage`) and rounding is monotone (`RoundedMonotone`), so rounding each does not
  put them out of order. `KeepToThemselves` is the congruence of every report in the rows of
  its location or user (`Kept`), which a step leaves alone unless one of them is its own.

  For every value of the constants, `TrendingAgrees` is true of pages of up to 50 places
  only: `trending.go` takes a limit above 50 for 5, `views.go` one above 200 for 50, so that
  trending for 60 places gives 5 of them and the list 60. Three places do not show that, the
  proof does; the property says up to 50.

The list is in `PROJECT.json` (`theorems`). Every invariant and every action property of the
passing runs, and the three refinements of handlers to what they promise, are theorems. Only
model-checked are the liveness properties, whose proof needs fairness and ENABLED, which are
outside the prover.

## 6. What is not modelled, and why

Wording, JSON, HTTP and logging; names and messages; which rows a category or a distance
matches; database failures other than what a request can observe (a lost statement, a lost
commit, a lost answer); `ON DELETE CASCADE`, as no handler deletes a user or a location;
idle connections and their lifetimes, the connection string, tools and deployment files. The
order in which migrations are applied is in no code. `ListNotifications` returns the newest
50, more than any instance here has.

## 7. Plan

What is left, in the order of importance:

1. A larger `activity`: a third user, and both sides reading.
2. The migrations as a sequence of steps over stored rows (`both` before or after the
   backfill).
