----------------------------- MODULE WorkScore -----------------------------
(***************************************************************************)
(* The work score of scoring/work_score.go and its copy in SQL, the        *)
(* one-time docs/backfill-work-scores.sql, over the life of one check-in:  *)
(* the handler scores the measurements as the client sent them, the script *)
(* those that the DECIMAL columns have kept.                               *)
(*                                                                         *)
(* Measurements are integers in tenths of the last digit their column      *)
(* keeps: thousandths for Mbps and decibels, whose columns have two        *)
(* decimals, hundred-thousandths for jitter, whose column has four.        *)
(* Timestamps are their UTC hour; the script's EXTRACT(HOUR ...) reads     *)
(* them in the time zone of the session that runs it.                      *)
(***************************************************************************)
EXTENDS Integers

CONSTANTS
    Sent,  \* the check-ins clients send
    Zone,  \* the session's offset from UTC, in hours
    None   \* SQL's NULL

\* What the CHECK constraints of docs/check-in-schema.sql accept.
Measurement == [dl : Nat, ul : Nat, jitter : Nat, db : Nat,
                speedSkipped : BOOLEAN, noiseSkipped : BOOLEAN,
                ease : 1..3, bar : BOOLEAN, table : BOOLEAN, crowd : 1..3,
                work : {"solo", "team"}, hour : 0..23]

ASSUME SentAssumption == Sent \subseteq Measurement
ASSUME ZoneAssumption == Zone \in -12..14
ASSUME NullAssumption == None \notin Int \cup Measurement \cup {"morning", "afternoon", "evening"}

VARIABLES
    sent,   \* the check-in as its client sent it, or None
    row,    \* what the child tables keep of it
    score,  \* its work_score
    bucket  \* its time_of_day

vars == <<sent, row, score, bucket>>

Mbps == 1000
Ms == 100000
Db == 1000

----------------------------------------------------------------------------
(* scoring/work_score.go *)

DownloadPoints(dl) == IF dl >= 100 * Mbps THEN 12
                      ELSE IF dl >= 50 * Mbps THEN 10
                      ELSE IF dl >= 25 * Mbps THEN 8
                      ELSE IF dl >= 10 * Mbps THEN 5
                      ELSE IF dl >= 5 * Mbps THEN 3 ELSE 1

UploadPoints(ul) == IF ul >= 50 * Mbps THEN 10
                    ELSE IF ul >= 20 * Mbps THEN 8
                    ELSE IF ul >= 10 * Mbps THEN 6
                    ELSE IF ul >= 5 * Mbps THEN 4 ELSE 1

\* Mutant: the thresholds are written the way those of the speeds are.
JitterPoints_AtMost(j) == IF j <= 2 * Ms THEN 8
                          ELSE IF j <= 5 * Ms THEN 6
                          ELSE IF j <= 15 * Ms THEN 4
                          ELSE IF j <= 30 * Ms THEN 2 ELSE 1

JitterPoints(j) == IF j < 2 * Ms THEN 8
                   ELSE IF j < 5 * Ms THEN 6
                   ELSE IF j < 15 * Ms THEN 4
                   ELSE IF j < 30 * Ms THEN 2 ELSE 1

\* Mutant: a skipped speed test is scored like any other.
networkSpeedScore_SkippedCounts(m) ==
    DownloadPoints(m.dl) + UploadPoints(m.ul) + JitterPoints(m.jitter)

networkSpeedScore(m) ==
    IF m.speedSkipped THEN 0
    ELSE DownloadPoints(m.dl) + UploadPoints(m.ul) + JitterPoints(m.jitter)

\* Mutant: the points of two buckets are exchanged.
noiseScore_Shifted(m) == IF m.noiseSkipped THEN 0
                         ELSE IF m.db <= 30 * Db THEN 14
                         ELSE IF m.db <= 40 * Db THEN 17
                         ELSE IF m.db <= 50 * Db THEN 20
                         ELSE IF m.db <= 60 * Db THEN 10
                         ELSE IF m.db <= 70 * Db THEN 6
                         ELSE IF m.db <= 80 * Db THEN 3 ELSE 1

noiseScore(m) == IF m.noiseSkipped THEN 0
                 ELSE IF m.db <= 30 * Db THEN 20
                 ELSE IF m.db <= 40 * Db THEN 17
                 ELSE IF m.db <= 50 * Db THEN 14
                 ELSE IF m.db <= 60 * Db THEN 10
                 ELSE IF m.db <= 70 * Db THEN 6
                 ELSE IF m.db <= 80 * Db THEN 3 ELSE 1

easeOfWorkScore(m) == CASE m.ease = 1 -> 18 [] m.ease = 2 -> 10 [] m.ease = 3 -> 3

\* Mutant: both outlets count twice.
outletScore_Each(m) == (IF m.bar THEN 8 ELSE 2) + (IF m.table THEN 8 ELSE 2)

outletScore(m) == IF m.bar /\ m.table THEN 14
                  ELSE IF m.bar \/ m.table THEN 8 ELSE 2

crowdednessScore(m) == CASE m.crowd = 1 -> 12 [] m.crowd = 2 -> 7 [] m.crowd = 3 -> 2

workTypeScore(m) == IF m.work = "team" THEN 6 ELSE 3

ComputeWorkScore(m) ==
    networkSpeedScore(m) + noiseScore(m) + easeOfWorkScore(m) + outletScore(m)
    + crowdednessScore(m) + workTypeScore(m)

\* Mutant: noon is morning.
TimeOfDay_Noon(hour) == IF hour \in 6..12 THEN "morning"
                        ELSE IF hour \in 13..17 THEN "afternoon" ELSE "evening"

\* t.UTC().Hour() in its bucket.
TimeOfDay(hour) == IF hour \in 6..11 THEN "morning"
                   ELSE IF hour \in 12..17 THEN "afternoon" ELSE "evening"

----------------------------------------------------------------------------
(* docs/backfill-work-scores.sql *)

\* The three CASE expressions over the speed test, their branches written disjoint.
ScriptSpeed(r) ==
    IF r.speedSkipped THEN 0
    ELSE (CASE r.dl >= 100 * Mbps -> 12
            [] r.dl >= 50 * Mbps /\ r.dl < 100 * Mbps -> 10
            [] r.dl >= 25 * Mbps /\ r.dl < 50 * Mbps -> 8
            [] r.dl >= 10 * Mbps /\ r.dl < 25 * Mbps -> 5
            [] r.dl >= 5 * Mbps /\ r.dl < 10 * Mbps -> 3
            [] r.dl < 5 * Mbps -> 1)
         + (CASE r.ul >= 50 * Mbps -> 10
              [] r.ul >= 20 * Mbps /\ r.ul < 50 * Mbps -> 8
              [] r.ul >= 10 * Mbps /\ r.ul < 20 * Mbps -> 6
              [] r.ul >= 5 * Mbps /\ r.ul < 10 * Mbps -> 4
              [] r.ul < 5 * Mbps -> 1)
         + (CASE r.jitter < 2 * Ms -> 8
              [] r.jitter >= 2 * Ms /\ r.jitter < 5 * Ms -> 6
              [] r.jitter >= 5 * Ms /\ r.jitter < 15 * Ms -> 4
              [] r.jitter >= 15 * Ms /\ r.jitter < 30 * Ms -> 2
              [] r.jitter >= 30 * Ms -> 1)

ScriptNoise(r) ==
    IF r.noiseSkipped THEN 0
    ELSE CASE r.db <= 30 * Db -> 20
           [] r.db > 30 * Db /\ r.db <= 40 * Db -> 17
           [] r.db > 40 * Db /\ r.db <= 50 * Db -> 14
           [] r.db > 50 * Db /\ r.db <= 60 * Db -> 10
           [] r.db > 60 * Db /\ r.db <= 70 * Db -> 6
           [] r.db > 70 * Db /\ r.db <= 80 * Db -> 3
           [] r.db > 80 * Db -> 1

ScriptRatings(r) ==
    (CASE r.ease = 1 -> 18 [] r.ease = 2 -> 10 [] r.ease = 3 -> 3)
    + (IF r.bar /\ r.table THEN 14 ELSE IF r.bar \/ r.table THEN 8 ELSE 2)
    + (CASE r.crowd = 1 -> 12 [] r.crowd = 2 -> 7 [] r.crowd = 3 -> 2)
    + (IF r.work = "team" THEN 6 ELSE 3)

BackfillScore(r) == ScriptSpeed(r) + ScriptNoise(r) + ScriptRatings(r)

\* EXTRACT(HOUR FROM ci.timestamp) of a TIMESTAMPTZ.
LocalHour(hour) == (hour + Zone) % 24

BackfillBucket(hour) == CASE LocalHour(hour) \in 6..11 -> "morning"
                          [] LocalHour(hour) \in 12..17 -> "afternoon"
                          [] LocalHour(hour) \notin 6..17 -> "evening"

----------------------------------------------------------------------------
(* The life of a check-in. *)

\* A DECIMAL column rounds what it is given, halves away from zero.
Kept(x) == ((x + 5) \div 10) * 10

StoredRow(m) == [dl |-> Kept(m.dl), ul |-> Kept(m.ul), jitter |-> Kept(m.jitter),
                 db |-> Kept(m.db),
                 speedSkipped |-> m.speedSkipped, noiseSkipped |-> m.noiseSkipped,
                 ease |-> m.ease, bar |-> m.bar, table |-> m.table, crowd |-> m.crowd,
                 work |-> m.work, hour |-> m.hour]

Init == sent = None /\ row = None /\ score = None /\ bucket = None

\* The handler stores the measurements and, with them, their score.
CreateCheckIn(m) == /\ sent' = m
                    /\ row' = StoredRow(m)
                    /\ score' = ComputeWorkScore(m)
                    /\ bucket' = TimeOfDay(m.hour)

\* The handler of the version before the columns existed.
CreateUnscored(m) == /\ sent' = m
                     /\ row' = StoredRow(m)
                     /\ score' = None
                     /\ bucket' = None

Backfill == /\ row # None /\ score = None
            /\ score' = BackfillScore(row)
            /\ bucket' = BackfillBucket(row.hour)
            /\ UNCHANGED <<sent, row>>

\* Each check-in is followed by another one, of which nothing depends on it.
Next == \/ \E m \in Sent : CreateCheckIn(m) \/ CreateUnscored(m)
        \/ Backfill

Spec == Init /\ [][Next]_vars

----------------------------------------------------------------------------
(* Correctness. *)

TypeOK == /\ sent \in Measurement \cup {None}
          /\ row \in Measurement \cup {None}
          /\ score \in Int \cup {None}
          /\ bucket \in {"morning", "afternoon", "evening", None}

\* No score ever fails chk_work_score, which would refuse the whole check-in: the best of
\* every table adds up to 100, though no table knows of the others.
ScoreFitsColumn == score # None => score \in 0..100

\* Measurements the columns keep as they are.
Exact(m) == m.dl % 10 = 0 /\ m.ul % 10 = 0 /\ m.jitter % 10 = 0 /\ m.db % 10 = 0

\* Who scored a check-in makes no difference: the script's tables are the handler's.
SameScoreEitherWay ==
    sent # None /\ score # None /\ Exact(sent) => score = ComputeWorkScore(sent)

\* What rounding does to a measurement next to a threshold is bounded: a backfilled score
\* is at most 2 below and 10 above the one the handler would have given, and so are the
\* averages over all check-ins.
RoundingIsBounded ==
    sent # None /\ score # None =>
        /\ score >= ComputeWorkScore(sent) - 2
        /\ score <= ComputeWorkScore(sent) + 10

\* The bucket does not depend on who computed it either, if the script's session runs in
\* UTC.
SameBucketInUtc == sent # None /\ bucket # None /\ Zone = 0 => bucket = TimeOfDay(sent.hour)

\* Where the row, the score and the bucket come from.
IndInv ==
    /\ TypeOK
    /\ (sent = None) = (row = None)
    /\ sent = None => score = None /\ bucket = None
    /\ sent # None =>
           /\ row = StoredRow(sent)
           /\ score \in {None, ComputeWorkScore(sent), BackfillScore(row)}
           /\ bucket \in {None, TimeOfDay(sent.hour), BackfillBucket(row.hour)}
    /\ ScoreFitsColumn

\* n is at least as good a place as m, in every respect.
AtLeastAsGood(n, m) ==
    /\ n.dl >= m.dl /\ n.ul >= m.ul /\ n.jitter <= m.jitter /\ n.db <= m.db
    /\ m.speedSkipped = n.speedSkipped /\ m.noiseSkipped = n.noiseSkipped
    /\ n.ease <= m.ease /\ n.crowd <= m.crowd
    /\ m.bar => n.bar
    /\ m.table => n.table
    /\ m.work = "team" => n.work = "team"

\* A check-in that is better in some respects than the one before, and worse in none, does
\* not score less: no threshold is out of order.
BetterNeverScoresLess ==
    [][sent # None /\ score # None /\ score' # None /\ Exact(sent) /\ Exact(sent')
       /\ AtLeastAsGood(sent', sent) => score' >= score]_vars
=============================================================================
