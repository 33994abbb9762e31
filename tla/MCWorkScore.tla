---------------------------- MODULE MCWorkScore ----------------------------
(***************************************************************************)
(* WorkScore for TLC.  The check-ins sent take each measurement, in turn,  *)
(* through both sides of each of its thresholds, at the precision of its   *)
(* column and one tenth of that; each rating through its values and the    *)
(* timestamp through the day; and the corners, where everything is best,   *)
(* worst, or rounded the same way.                                         *)
(***************************************************************************)
EXTENDS WorkScore, FiniteSets

CONSTANT Hours  \* the hours in which to check in

Base == [dl |-> 30 * Mbps, ul |-> 15 * Mbps, jitter |-> 3 * Ms, db |-> 45 * Db,
         speedSkipped |-> FALSE, noiseSkipped |-> FALSE, ease |-> 2, bar |-> TRUE,
         table |-> FALSE, crowd |-> 2, work |-> "solo", hour |-> 10]

Around(unit, thresholds) == UNION {{unit * t - 10, unit * t - 4, unit * t, unit * t + 4,
                                    unit * t + 10} : t \in thresholds}

Speeds ==
    {[Base EXCEPT !.dl = x] : x \in {0} \cup Around(Mbps, {5, 10, 25, 50, 100})}
    \cup {[Base EXCEPT !.ul = x] : x \in {0} \cup Around(Mbps, {5, 10, 20, 50})}
    \cup {[Base EXCEPT !.jitter = x] : x \in {0} \cup Around(Ms, {2, 5, 15, 30})}
    \cup {[Base EXCEPT !.db = x] : x \in {0} \cup Around(Db, {30, 40, 50, 60, 70, 80})}

Ratings == {[Base EXCEPT !.ease = e, !.crowd = c, !.bar = b, !.table = t, !.work = w] :
                e \in 1..3, c \in 1..3, b \in BOOLEAN, t \in BOOLEAN, w \in {"solo", "team"}}

Times == {[Base EXCEPT !.hour = h] : h \in Hours}

Skipped == {[Base EXCEPT !.speedSkipped = s, !.noiseSkipped = n] : s, n \in BOOLEAN}

Best == [Base EXCEPT !.dl = 100 * Mbps, !.ul = 50 * Mbps, !.jitter = 0, !.db = 30 * Db,
                     !.ease = 1, !.bar = TRUE, !.table = TRUE, !.crowd = 1, !.work = "team"]

\* Every measurement gains, or jitter alone loses, by being rounded.
Corners == {Best,
            [Base EXCEPT !.dl = 25 * Mbps - 4, !.ul = 5 * Mbps - 4, !.db = 50 * Db + 4],
            [Base EXCEPT !.jitter = 2 * Ms - 4]}

SentHere == Speeds \cup Ratings \cup Times \cup Skipped \cup Corners
=============================================================================
