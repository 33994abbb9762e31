------------------------------ MODULE Reports ------------------------------
(***************************************************************************)
(* What the reading endpoints compute from the stored check-ins: the views *)
(* v_location_averages and v_user_location_averages                        *)
(* (docs/migrate-add-work-score.sql) with the endpoints over them          *)
(* (handler/views.go), handler/location_detail.go and handler/trending.go. *)
(*                                                                         *)
(* The state is the log of CheckInLog, which the handlers of CheckIns      *)
(* implement: a report is one statement and sees one state of it.  These   *)
(* are the answers read to the end: the lists of views.go and trending.go  *)
(* do not look at rows.Err() and may be cut off.  Every                    *)
(* check-in has one row in each child table (CheckIns!StoredWhole), with   *)
(* the check-in's location, so that a join of the views gives one row per  *)
(* check-in and child rows are named by their check-in.                    *)
(*                                                                         *)
(* One measurement stands for those that are averaged alike, one rating    *)
(* for those that are counted alike.  Decimals are integers: ROUND(x, 1)   *)
(* is in tenths.  None is NULL.                                            *)
(***************************************************************************)
EXTENDS CheckInLog, Integers, FiniteSets, FiniteSetsExt, Functions

CONSTANTS
    User,
    Uuid,      \* what parses as a location_id
    Location,  \* the rows of locations
    Named,     \* Named[l]: the rank of its name by ORDER BY
    Unknown,   \* the label of speed tests without an ISP
    Now        \* NOW(), in hours

Bucket == {"morning", "afternoon", "evening"}
Period == {"today", "week", "month"}

\* download, decibels: None when that test was skipped; isp: None when not given.
ASSUME SubmissionAssumption ==
    \A s \in Submission :
        /\ s.id \in Id /\ s.user \in User /\ s.loc \in Location
        /\ s.time \in Nat /\ s.score \in 0..100 /\ s.bucket \in Bucket
        /\ s.download \in Nat \cup {None} /\ s.decibels \in Nat \cup {None}
        /\ s.crowdedness \in 1..3 /\ s.work \in {"solo", "team", "both"}
ASSUME LegacyAssumption == Legacy \subseteq Submission
ASSUME UuidAssumption == Location \subseteq Uuid
ASSUME NoneAssumption == None \notin Nat \cup Submission
ASSUME FiniteAssumption == IsFiniteSet(Id) /\ IsFiniteSet(Location)
ASSUME NowAssumption == Now \in Nat

----------------------------------------------------------------------------
(* The rows and the aggregate functions. *)

Rows == {i \in Id : stored[i] # None}
At(l) == {i \in Rows : stored[i].loc = l}
Of(u) == {i \in Rows : stored[i].user = u}

\* The columns work_score and time_of_day are NULL until the check-in is scored.
In(b) == {i \in scored : stored[i].bucket = b}

\* ROUND(numerator / count), half away from zero.
Rounded(numerator, count) == (2 * numerator + count) \div (2 * count)

\* SUM(column), a function of rows.
Total(column) == FoldFunction(+, 0, column)

\* ROUND(AVG(column), 0): NULL over no rows.
Average(column) ==
    LET S == DOMAIN column IN
    IF S = {} THEN None ELSE Rounded(Total(column), Cardinality(S))

\* Mutant: ROUND(..., 0), whatever is asked for.
Share_Whole(part, S, digits) ==
    IF S = {} THEN None ELSE digits * Rounded(100 * Cardinality(part), Cardinality(S))

\* ROUND(100.0 * part / NULLIF(COUNT(*), 0), ...), in units of 1/digits.
Share(part, S, digits) ==
    IF S = {} THEN None ELSE Rounded(100 * digits * Cardinality(part), Cardinality(S))

AverageScore(S) == Average([i \in S \cap scored |-> stored[i].score])
AverageDownload(S) == Average([i \in S |-> stored[i].download])
AverageDecibels(S) == Average([i \in S |-> 10 * stored[i].decibels])
Times(S) == {stored[i].time : i \in S}
First(S) == IF S = {} THEN None ELSE Min(Times(S))
Last(S) == IF S = {} THEN None ELSE Max(Times(S))
Users(S) == {stored[i].user : i \in S}

\* WHERE skipped = FALSE
SpeedTests(S) == {i \in S : stored[i].download # None}
NoiseTests(S) == {i \in S : stored[i].decibels # None}

Crowded(S, level) == {i \in S : stored[i].crowdedness = level}
WorkType(S, type) == {i \in S : stored[i].work = type}

\* MODE() over 'solo' and 'team': any of the most frequent.
MostCommon(S) == {t \in {"solo", "team"} :
    /\ WorkType(S, t) # {}
    /\ \A o \in {"solo", "team"} : Cardinality(WorkType(S, o)) <= Cardinality(WorkType(S, t))}

----------------------------------------------------------------------------
(* The views, a row over the check-ins S of a location, or of a user there. *)

\* Mutant: the noise rows are joined by INNER JOIN.
Averages_InnerJoin(S) ==
    LET T == NoiseTests(S) IN
    [total |-> Cardinality(T), users |-> Cardinality(Users(T)),
     first |-> First(T), last |-> Last(T),
     download |-> AverageDownload(SpeedTests(T)), speedTests |-> Cardinality(SpeedTests(T)),
     decibels |-> AverageDecibels(T), noiseTests |-> Cardinality(T),
     ratings |-> Cardinality(T), commonWork |-> MostCommon(T),
     score |-> AverageScore(T), byTime |-> [b \in Bucket |-> AverageScore(T \cap In(b))]]

Averages(S) ==
    [total |-> Cardinality(S), users |-> Cardinality(Users(S)),
     first |-> First(S), last |-> Last(S),
     download |-> AverageDownload(SpeedTests(S)), speedTests |-> Cardinality(SpeedTests(S)),
     decibels |-> AverageDecibels(NoiseTests(S)), noiseTests |-> Cardinality(NoiseTests(S)),
     ratings |-> Cardinality(S), commonWork |-> MostCommon(S),
     score |-> AverageScore(S), byTime |-> [b \in Bucket |-> AverageScore(S \cap In(b))]]

\* v_location_averages has a row for every location, one never checked in included.
LocationAverages(l) == Averages(At(l))

\* ORDER BY several columns, each DESC.
Precedes(a, b) == \E n \in DOMAIN a : a[n] > b[n] /\ \A k \in 1..(n - 1) : a[k] = b[k]

\* LIMIT and OFFSET over the order of rank, which may leave ties: PostgreSQL breaks them as
\* it likes.
Pages(found, rank, limit, offset) ==
    {page \in SUBSET found :
        \E skipped \in SUBSET (found \ page) :
            /\ Cardinality(skipped) = Min({offset, Cardinality(found)})
            /\ Cardinality(page) = Min({limit, Cardinality(found) - Cardinality(skipped)})
            /\ \A x \in skipped, y \in found \ skipped : ~ Precedes(rank[y], rank[x])
            /\ \A x \in page, y \in found \ (skipped \cup page) : ~ Precedes(rank[y], rank[x])}

\* GET /api/v1/locations: the rows that pass the filters; a limit outside 1..200 is taken
\* for 50, an offset below 0 for 0.
GetAllLocations(matching, limit, offset) ==
    Pages(matching, [l \in matching |-> <<LocationAverages(l).total>>],
          IF limit \in 1..200 THEN limit ELSE 50, IF offset >= 0 THEN offset ELSE 0)

\* GET /api/v1/users/{user_id}/locations: the user's own rows of v_user_location_averages.
GetUserLocations(authed, u) ==
    IF u # authed THEN "forbidden"
    ELSE [l \in {m \in Location : At(m) \cap Of(u) # {}} |-> Averages(At(l) \cap Of(u))]

----------------------------------------------------------------------------
(* GET /api/v1/locations/{location_id}/detail *)

\* GROUP BY isp_name, labelled COALESCE(isp_name, 'Unknown').
isp_speeds(l) ==
    LET T == SpeedTests(At(l)) IN
    [isp \in {stored[i].isp : i \in T} |->
        LET G == {i \in T : stored[i].isp = isp} IN
        [label |-> IF isp = None THEN Unknown ELSE isp,
         download |-> AverageDownload(G), tests |-> Cardinality(G)]]

\* Mutant: WHERE location_id is forgotten.
score_agg_Everywhere(l) ==
    [overall |-> AverageScore(Rows), scoredCheckIns |-> Cardinality(scored),
     byTime |-> [b \in Bucket |->
         [score |-> AverageScore(In(b)), checkIns |-> Cardinality(In(b))]]]

\* Mutant: the evening is left out of the answer.
score_agg_NoEvening(l) ==
    [overall |-> AverageScore(At(l)), scoredCheckIns |-> Cardinality(At(l) \cap scored),
     byTime |-> [b \in {c \in {"morning", "afternoon"} : At(l) \cap In(c) # {}} |->
         [score |-> AverageScore(At(l) \cap In(b)), checkIns |-> Cardinality(At(l) \cap In(b))]]]

score_agg(l) ==
    [overall |-> AverageScore(At(l)), scoredCheckIns |-> Cardinality(At(l) \cap scored),
     byTime |-> [b \in {c \in Bucket : At(l) \cap In(c) # {}} |->
         [score |-> AverageScore(At(l) \cap In(b)), checkIns |-> Cardinality(At(l) \cap In(b))]]]

ws(l) == [crowdedness |-> [level \in 1..3 |-> Share(Crowded(At(l), level), At(l), 10)],
          work |-> [t \in {"solo", "team"} |-> Share(WorkType(At(l), t), At(l), 10)]]

\* An id that is no UUID makes the query fail.  The percentages are scanned into float64,
\* which cannot hold NULL: a location without ratings is a 500, too.
GetLocationDetail(l) ==
    CASE l \notin Uuid -> [status |-> "error"]
      [] l \in Uuid \ Location -> [status |-> "notFound"]
      [] l \in Location /\ ws(l).crowdedness[1] = None -> [status |-> "error"]
      [] OTHER ->
         [status |-> "ok",
          total |-> Cardinality(At(l)), users |-> Cardinality(Users(At(l))),
          first |-> First(At(l)), last |-> Last(At(l)),
          decibels |-> AverageDecibels(NoiseTests(At(l))),
          noiseTests |-> Cardinality(NoiseTests(At(l))),
          isps |-> isp_speeds(l), ratings |-> ws(l), score |-> score_agg(l)]

----------------------------------------------------------------------------
(* GET /api/v1/locations/trending *)

\* CURRENT_DATE is the last midnight; a timestamp is the client's, and may lie ahead.
Since(period) == CASE period = "today" -> Now - (Now % 24)
                   [] period = "week"  -> Now - (7 * 24)
                   [] period = "month" -> Now - (30 * 24)

Recent(l, period) == {i \in At(l) : stored[i].time >= Since(period)}

\* check_ins DESC, avg_work_score DESC NULLS LAST, unique_users DESC, name ASC.
Rank(l, period) == LET S == Recent(l, period) IN
    <<Cardinality(S), IF AverageScore(S) = None THEN -1 ELSE AverageScore(S),
      Cardinality(Users(S)), - Named[l]>>

GetTrendingLocations(period, limit) ==
    LET found == {l \in Location : Recent(l, period) # {}} IN
    Pages(found, [l \in found |-> Rank(l, period)], IF limit \in 1..50 THEN limit ELSE 5, 0)

----------------------------------------------------------------------------
(* Correctness. *)

\* The detail of a location and its row in the list are two queries over different tables:
\* there is a detail when the list shows ratings, and what both show is the same.
DetailAgrees(l) ==
    LET row == LocationAverages(l)
        detail == GetLocationDetail(l)
    IN
    /\ detail.status = "ok" <=> row.ratings > 0
    /\ detail.status = "ok" =>
           /\ <<detail.total, detail.users, detail.first, detail.last>>
                  = <<row.total, row.users, row.first, row.last>>
           /\ <<detail.decibels, detail.noiseTests>> = <<row.decibels, row.noiseTests>>
           /\ detail.score.overall = row.score
           /\ DOMAIN detail.score.byTime = {b \in Bucket : row.byTime[b] # None}
           /\ \A b \in DOMAIN detail.score.byTime : detail.score.byTime[b].score = row.byTime[b]
           /\ Total([isp \in DOMAIN detail.isps |-> detail.isps[isp].tests]) = row.speedTests
           /\ \A t \in row.commonWork, o \in {"solo", "team"} :
                  detail.ratings.work[o] <= detail.ratings.work[t]

\* The users' own rows add up to the row of the location.
UserRowsAgree(l) ==
    LET visitors == {u \in User : l \in DOMAIN GetUserLocations(u, u)}
        own(u) == GetUserLocations(u, u)[l]
        row == LocationAverages(l)
    IN
    /\ Cardinality(visitors) = row.users /\ Total([u \in visitors |-> own(u).total]) = row.total
    /\ visitors # {} => /\ Min({own(u).first : u \in visitors}) = row.first
                        /\ Max({own(u).last : u \in visitors}) = row.last

\* The wider window of trending shows no fewer check-ins, and never more than the list.
WindowsNest(l) ==
    LET count(period) == Cardinality(Recent(l, period)) IN
    /\ count("today") <= count("week") /\ count("week") <= count("month")
    /\ count("month") <= LocationAverages(l).total

\* A trending page over a window that leaves nothing out is a first page of the list: one of
\* at most 50 places, for a limit above that is taken for 5 there and not here.
TrendingAgrees ==
    (\A i \in Rows : stored[i].time >= Since("month")) =>
        \A n \in 1..Min({50, Cardinality({stored[i].loc : i \in Rows})}) :
            GetTrendingLocations("month", n) \subseteq GetAllLocations(Location, n, 0)

\* However check-ins are recorded and scored, the reports, each computed by a query of its
\* own, tell the same of a location.
ReportsAgree ==
    /\ \A l \in Location : DetailAgrees(l) /\ UserRowsAgree(l) /\ WindowsNest(l)
    /\ TrendingAgrees

\* The check-ins scored are those of the times of day, and the score of a location lies
\* between the best and the worst of them, unscored check-ins left out of all.
ScoresAddUp ==
    \A l \in Location : GetLocationDetail(l).status = "ok" =>
        LET score == GetLocationDetail(l).score
            IN
        /\ Total([b \in DOMAIN score.byTime |-> score.byTime[b].checkIns]) = score.scoredCheckIns
        /\ score.overall = None <=> score.scoredCheckIns = 0
        /\ score.overall # None =>
               \E b, c \in DOMAIN score.byTime :
                   score.byTime[b].score <= score.overall /\ score.overall <= score.byTime[c].score

\* The percentages of a rating, each rounded to a tenth, are 100 within a tenth; those of
\* the work types are less only for ratings that still say "both".
PercentagesAddUp ==
    \A l \in Location : GetLocationDetail(l).status = "ok" =>
        LET c == ws(l).crowdedness
            w == ws(l).work
        IN
        /\ c[1] + c[2] + c[3] \in 999..1001
        /\ w["solo"] + w["team"] \in (IF WorkType(At(l), "both") = {} THEN 999 ELSE 0)..1001

\* A check-in, or its score, changes what is reported of its own location and to its own
\* user, and of nothing and to nobody else.
OnlyItsOwnReports ==
    [][LET Changed == {i \in Id : stored'[i] # stored[i] \/ i \in scored' \ scored} IN
       /\ \A l \in Location :
              <<LocationAverages(l), GetLocationDetail(l)>>' # <<LocationAverages(l), GetLocationDetail(l)>>
                  => \E i \in Changed : stored'[i].loc = l
       /\ \A u \in User :
              GetUserLocations(u, u)' # GetUserLocations(u, u)
                  => \E i \in Changed : stored'[i].user = u]_vars
=============================================================================
