-------------------------- MODULE WorkScoreProofs --------------------------
(***************************************************************************)
(* Proofs about WorkScore for every measurement: the score stays within    *)
(* 0..100, whoever computes it, the two implementations agree on what the  *)
(* columns keep exactly, and rounding moves a score by a bounded amount.   *)
(***************************************************************************)
EXTENDS WorkScore, TLAPS

\* The handler's tables stay within the points the comments of work_score.go give them.
LEMMA PointsBounds ==
    ASSUME NEW m \in Measurement
    PROVE  /\ networkSpeedScore(m) \in 0..30
           /\ noiseScore(m) \in 0..20
           /\ easeOfWorkScore(m) \in 0..18
           /\ outletScore(m) \in 0..14
           /\ crowdednessScore(m) \in 0..12
           /\ workTypeScore(m) \in 0..6
<1>1. DownloadPoints(m.dl) \in 1..12 /\ UploadPoints(m.ul) \in 1..10 /\ JitterPoints(m.jitter) \in 1..8
    BY DEF DownloadPoints, UploadPoints, JitterPoints, Measurement, Mbps, Ms
<1>2. networkSpeedScore(m) \in 0..30
    BY <1>1 DEF networkSpeedScore
<1>3. noiseScore(m) \in 0..20
    BY DEF noiseScore, Measurement, Db
<1>4. easeOfWorkScore(m) \in 0..18 /\ crowdednessScore(m) \in 0..12
  <2>1. m.ease \in {1, 2, 3} /\ m.crowd \in {1, 2, 3}
      BY DEF Measurement
  <2> QED
      BY <2>1 DEF easeOfWorkScore, crowdednessScore
<1>5. outletScore(m) \in 0..14 /\ workTypeScore(m) \in 0..6
    BY DEF outletScore, workTypeScore
<1> QED
    BY <1>2, <1>3, <1>4, <1>5

\* The handler's score is within 0..100.
LEMMA ComputedInRange == ASSUME NEW m \in Measurement PROVE ComputeWorkScore(m) \in 0..100
<1>1. /\ networkSpeedScore(m) \in 0..30 /\ noiseScore(m) \in 0..20
      /\ easeOfWorkScore(m) \in 0..18 /\ outletScore(m) \in 0..14
      /\ crowdednessScore(m) \in 0..12 /\ workTypeScore(m) \in 0..6
    BY PointsBounds
<1> QED
    BY <1>1 DEF ComputeWorkScore

\* On the same values the script's tables are the handler's.
LEMMA ScriptIsHandler ==
    ASSUME NEW m \in Measurement PROVE BackfillScore(m) = ComputeWorkScore(m)
<1>1. ScriptSpeed(m) = networkSpeedScore(m)
    BY DEF ScriptSpeed, networkSpeedScore, DownloadPoints, UploadPoints, JitterPoints,
           Measurement, Mbps, Ms
<1>2. ScriptNoise(m) = noiseScore(m)
    BY DEF ScriptNoise, noiseScore, Measurement, Db
<1>3. ScriptRatings(m) = easeOfWorkScore(m) + outletScore(m) + crowdednessScore(m)
                         + workTypeScore(m)
    BY DEF ScriptRatings, easeOfWorkScore, outletScore, crowdednessScore, workTypeScore
<1>4. /\ networkSpeedScore(m) \in Int /\ noiseScore(m) \in Int /\ easeOfWorkScore(m) \in Int
      /\ outletScore(m) \in Int /\ crowdednessScore(m) \in Int /\ workTypeScore(m) \in Int
    BY PointsBounds
<1> QED
    BY <1>1, <1>2, <1>3, <1>4 DEF BackfillScore, ComputeWorkScore

\* A column moves a value by half a step at most, and a value it can hold not at all.
LEMMA Rounding ==
    ASSUME NEW x \in Nat
    PROVE  /\ Kept(x) \in Nat
           /\ Kept(x) % 10 = 0
           /\ Kept(x) - 5 <= x
           /\ x <= Kept(x) + 4
           /\ x % 10 = 0 => Kept(x) = x
BY DEF Kept

\* What the columns keep is a measurement, the same one if they can hold it.
LEMMA StoredRowIsMeasurement ==
    ASSUME NEW m \in Measurement
    PROVE  StoredRow(m) \in Measurement /\ (Exact(m) => StoredRow(m) = m)
<1>1. \A x \in {m.dl, m.ul, m.jitter, m.db} : Kept(x) \in Nat /\ (x % 10 = 0 => Kept(x) = x)
    BY Rounding DEF Measurement
<1>2. StoredRow(m) \in Measurement
    BY <1>1 DEF StoredRow, Measurement
<1>3. ASSUME Exact(m) PROVE StoredRow(m) = m
    BY <1>1, <1>3 DEF Exact, StoredRow, Measurement
<1> QED
    BY <1>2, <1>3

\* Rounding crosses at most one threshold of each table, and never loses speed points, nor
\* noise points; of the jitter it never gains any.
LEMMA RoundingPoints ==
    ASSUME NEW x \in Nat, NEW y \in Nat, y % 10 = 0, y - 5 <= x, x <= y + 4
    PROVE  /\ DownloadPoints(y) - DownloadPoints(x) \in 0..3
           /\ UploadPoints(y) - UploadPoints(x) \in 0..3
           /\ JitterPoints(x) - JitterPoints(y) \in 0..2
<1>1. DownloadPoints(y) - DownloadPoints(x) \in 0..3
    BY DEF DownloadPoints, Mbps
<1>2. UploadPoints(y) - UploadPoints(x) \in 0..3
    BY DEF UploadPoints, Mbps
<1>3. JitterPoints(x) - JitterPoints(y) \in 0..2
    BY DEF JitterPoints, Ms
<1> QED
    BY <1>1, <1>2, <1>3

\* The score of the row is at most 2 below and 10 above that of the measurements.
LEMMA RoundingScore ==
    ASSUME NEW m \in Measurement
    PROVE  ComputeWorkScore(StoredRow(m)) - ComputeWorkScore(m) \in -2..10
<1> DEFINE r == StoredRow(m)
<1>1. r \in Measurement
    BY StoredRowIsMeasurement
<1>2. networkSpeedScore(r) - networkSpeedScore(m) \in -2..6
  <2>1. /\ r.dl = Kept(m.dl) /\ r.ul = Kept(m.ul) /\ r.jitter = Kept(m.jitter)
        /\ r.speedSkipped = m.speedSkipped /\ m.dl \in Nat /\ m.ul \in Nat /\ m.jitter \in Nat
      BY DEF StoredRow, Measurement
  <2>2. DownloadPoints(Kept(m.dl)) - DownloadPoints(m.dl) \in 0..3
      BY <2>1, Rounding, RoundingPoints
  <2>3. UploadPoints(Kept(m.ul)) - UploadPoints(m.ul) \in 0..3
      BY <2>1, Rounding, RoundingPoints
  <2>4. JitterPoints(m.jitter) - JitterPoints(Kept(m.jitter)) \in 0..2
      BY <2>1, Rounding, RoundingPoints
  <2>5. \A x \in Nat : /\ DownloadPoints(x) \in Int /\ UploadPoints(x) \in Int
                       /\ JitterPoints(x) \in Int
      BY DEF DownloadPoints, UploadPoints, JitterPoints
  <2>6. Kept(m.dl) \in Nat /\ Kept(m.ul) \in Nat /\ Kept(m.jitter) \in Nat
      BY <2>1, Rounding
  <2> HIDE DEF r
  <2> QED
      BY <2>1, <2>2, <2>3, <2>4, <2>5, <2>6 DEF networkSpeedScore
<1>3. noiseScore(r) - noiseScore(m) \in 0..4
  <2>1. r.db = Kept(m.db) /\ r.noiseSkipped = m.noiseSkipped /\ m.db \in Nat
      BY DEF StoredRow, Measurement
  <2>2. Kept(m.db) \in Nat /\ Kept(m.db) % 10 = 0 /\ Kept(m.db) - 5 <= m.db /\ m.db <= Kept(m.db) + 4
      BY <2>1, Rounding
  <2> HIDE DEF r
  <2> QED
      BY <2>1, <2>2 DEF noiseScore, Db
<1>4. /\ easeOfWorkScore(r) = easeOfWorkScore(m) /\ outletScore(r) = outletScore(m)
      /\ crowdednessScore(r) = crowdednessScore(m) /\ workTypeScore(r) = workTypeScore(m)
  <2>1. r.ease = m.ease /\ r.bar = m.bar /\ r.table = m.table /\ r.crowd = m.crowd /\ r.work = m.work
      BY DEF StoredRow
  <2> HIDE DEF r
  <2> QED
      BY <2>1 DEF easeOfWorkScore, outletScore, crowdednessScore, workTypeScore
<1> HIDE DEF r
<1>5. \A n \in {m, r} : /\ networkSpeedScore(n) \in Int /\ noiseScore(n) \in Int
                        /\ easeOfWorkScore(n) \in Int /\ outletScore(n) \in Int
                        /\ crowdednessScore(n) \in Int /\ workTypeScore(n) \in Int
    BY <1>1, PointsBounds
<1> QED
    BY <1>2, <1>3, <1>4, <1>5 DEF ComputeWorkScore, r

\* In UTC the script's bucket is the handler's.
LEMMA BucketInUtc ==
    ASSUME NEW hour \in 0..23, Zone = 0 PROVE BackfillBucket(hour) = TimeOfDay(hour)
<1>1. LocalHour(hour) = hour
    BY DEF LocalHour
<1> QED
    BY <1>1 DEF BackfillBucket, TimeOfDay

----------------------------------------------------------------------------

\* IndInv holds of every check-in, stored, unscored or backfilled.
THEOREM Inductive == Spec => []IndInv
<1> USE SentAssumption, NullAssumption
<1>1. Init => IndInv
    BY DEF Init, IndInv, TypeOK, ScoreFitsColumn
<1>2. ASSUME NEW m \in Sent, CreateCheckIn(m) \/ CreateUnscored(m) PROVE IndInv'
  <2>1. /\ m \in Measurement /\ m # None
        /\ StoredRow(m) \in Measurement /\ StoredRow(m) # None
        /\ ComputeWorkScore(m) \in 0..100
        /\ TimeOfDay(m.hour) \in {"morning", "afternoon", "evening"}
      BY StoredRowIsMeasurement, ComputedInRange DEF TimeOfDay
  <2> QED
      BY <1>2, <2>1 DEF CreateCheckIn, CreateUnscored, IndInv, TypeOK, ScoreFitsColumn
<1>3. ASSUME IndInv, Backfill PROVE IndInv'
  <2>1. row \in Measurement /\ sent \in Measurement /\ sent # None
      BY <1>3 DEF IndInv, TypeOK, Backfill
  <2>2. BackfillScore(row) \in 0..100
      BY <2>1, ScriptIsHandler, ComputedInRange
  <2>3. BackfillBucket(row.hour) \in {"morning", "afternoon", "evening"}
      BY DEF BackfillBucket
  <2> QED
      BY <1>3, <2>1, <2>2, <2>3 DEF Backfill, IndInv, TypeOK, ScoreFitsColumn
<1>4. IndInv /\ UNCHANGED vars => IndInv'
    BY DEF vars, IndInv, TypeOK, ScoreFitsColumn
<1>5. IndInv /\ [Next]_vars => IndInv'
    BY <1>2, <1>3, <1>4 DEF Next
<1> QED
    BY <1>1, <1>5, PTL DEF Spec

\* chk_work_score never refuses a score.
THEOREM ScoreFits == Spec => []ScoreFitsColumn
<1>1. IndInv => ScoreFitsColumn
    BY DEF IndInv
<1> QED
    BY <1>1, Inductive, PTL

\* Where the score of a check-in comes from, once it is a number.
LEMMA ScoreSource ==
    ASSUME IndInv, sent # None, score # None
    PROVE  /\ sent \in Measurement
           /\ score \in {ComputeWorkScore(sent), ComputeWorkScore(StoredRow(sent))}
<1>1. sent \in Measurement /\ row = StoredRow(sent) /\ score \in {ComputeWorkScore(sent), BackfillScore(row)}
    BY DEF IndInv, TypeOK
<1> QED
    BY <1>1, StoredRowIsMeasurement, ScriptIsHandler

\* A check-in whose measurements the columns can hold has one score, whoever computed it.
THEOREM SameScore == Spec => []SameScoreEitherWay
<1>1. IndInv => SameScoreEitherWay
    BY ScoreSource, StoredRowIsMeasurement DEF SameScoreEitherWay
<1> QED
    BY <1>1, Inductive, PTL

\* The bounds of RoundingScore, as inequalities.
LEMMA RoundingInequalities ==
    ASSUME NEW m \in Measurement,
           NEW s \in {ComputeWorkScore(m), ComputeWorkScore(StoredRow(m))}
    PROVE  s >= ComputeWorkScore(m) - 2 /\ s <= ComputeWorkScore(m) + 10
<1> DEFINE a == ComputeWorkScore(m)
           b == ComputeWorkScore(StoredRow(m))
<1>1. a \in 0..100 /\ b \in 0..100
    BY ComputedInRange, StoredRowIsMeasurement
<1>2. b - a \in -2..10
    BY RoundingScore
<1> HIDE DEF a, b
<1>3. a >= a - 2 /\ a <= a + 10 /\ b >= a - 2 /\ b <= a + 10
    BY <1>1, <1>2
<1> QED
    BY <1>3 DEF a, b

\* Rounding moves a score down by 2 or up by 10 at most.
THEOREM RoundingBounded == Spec => []RoundingIsBounded
<1>1. IndInv => RoundingIsBounded
    BY ScoreSource, RoundingInequalities DEF RoundingIsBounded
<1> QED
    BY <1>1, Inductive, PTL

\* In a UTC session the script puts a check-in into the bucket the handler would have.
THEOREM SameBucket == Spec => []SameBucketInUtc
<1>1. ASSUME IndInv PROVE SameBucketInUtc
  <2> SUFFICES ASSUME sent # None, bucket # None, Zone = 0 PROVE bucket = TimeOfDay(sent.hour)
      BY DEF SameBucketInUtc
  <2>1. sent \in Measurement /\ row = StoredRow(sent)
        /\ bucket \in {TimeOfDay(sent.hour), BackfillBucket(row.hour)}
      BY <1>1 DEF IndInv, TypeOK
  <2>2. row.hour = sent.hour /\ sent.hour \in 0..23
      BY <2>1 DEF StoredRow, Measurement
  <2> QED
      BY <2>1, <2>2, BucketInUtc
<1> QED
    BY <1>1, Inductive, PTL

\* A better place never scores less.
LEMMA Monotone ==
    ASSUME NEW m \in Measurement, NEW n \in Measurement, AtLeastAsGood(n, m)
    PROVE  ComputeWorkScore(n) >= ComputeWorkScore(m)
<1> USE DEF AtLeastAsGood, Measurement
<1>1. networkSpeedScore(n) >= networkSpeedScore(m)
  <2>1. DownloadPoints(n.dl) >= DownloadPoints(m.dl)
      BY DEF DownloadPoints, Mbps
  <2>2. UploadPoints(n.ul) >= UploadPoints(m.ul)
      BY DEF UploadPoints, Mbps
  <2>3. JitterPoints(n.jitter) >= JitterPoints(m.jitter)
      BY DEF JitterPoints, Ms
  <2>4. \A x \in Nat : /\ DownloadPoints(x) \in Int /\ UploadPoints(x) \in Int
                       /\ JitterPoints(x) \in Int
      BY DEF DownloadPoints, UploadPoints, JitterPoints
  <2> QED
      BY <2>1, <2>2, <2>3, <2>4 DEF networkSpeedScore
<1>2. noiseScore(n) >= noiseScore(m)
    BY DEF noiseScore, Db
<1>3. easeOfWorkScore(n) >= easeOfWorkScore(m) /\ crowdednessScore(n) >= crowdednessScore(m)
  <2>1. m.ease \in {1, 2, 3} /\ n.ease \in {1, 2, 3} /\ m.crowd \in {1, 2, 3} /\ n.crowd \in {1, 2, 3}
      OBVIOUS
  <2> QED
      BY <2>1 DEF easeOfWorkScore, crowdednessScore
<1>4. outletScore(n) >= outletScore(m) /\ workTypeScore(n) >= workTypeScore(m)
    BY DEF outletScore, workTypeScore
<1>5. \A x \in {m, n} : /\ networkSpeedScore(x) \in Int /\ noiseScore(x) \in Int
                        /\ easeOfWorkScore(x) \in Int /\ outletScore(x) \in Int
                        /\ crowdednessScore(x) \in Int /\ workTypeScore(x) \in Int
    BY PointsBounds
<1> QED
    BY <1>1, <1>2, <1>3, <1>4, <1>5 DEF ComputeWorkScore

\* Of two check-ins in succession the better one never scores less.
THEOREM BetterScoresMore == Spec => BetterNeverScoresLess
<1> DEFINE Ordered == sent # None /\ score # None /\ score' # None /\ Exact(sent) /\ Exact(sent')
                      /\ AtLeastAsGood(sent', sent) => score' >= score
<1>1. IndInv /\ IndInv' /\ [Next]_vars => [Ordered]_vars
  <2> SUFFICES ASSUME IndInv, IndInv', [Next]_vars, sent # None, score # None, score' # None,
                      Exact(sent), Exact(sent'), AtLeastAsGood(sent', sent)
               PROVE  score' >= score
      OBVIOUS
  <2>1. sent \in Measurement /\ score = ComputeWorkScore(sent)
      BY ScoreSource, StoredRowIsMeasurement
  <2>2. ~ Backfill
      BY DEF Backfill
  <2>3. CASE UNCHANGED vars
      BY <2>1, <2>3, ComputedInRange DEF vars
  <2>4. ASSUME NEW m \in Sent, CreateCheckIn(m) PROVE score' >= score
      BY <2>1, <2>4, SentAssumption, Monotone DEF CreateCheckIn
  <2> QED
      BY <2>2, <2>3, <2>4 DEF Next, CreateUnscored
<1> QED
    BY <1>1, Inductive, PTL DEF Spec, BetterNeverScoresLess
=============================================================================
