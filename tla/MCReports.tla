----------------------------- MODULE MCReports -----------------------------
(***************************************************************************)
(* Reports for TLC: check-ins of two users at two locations, and a third   *)
(* location nobody goes to.  Three share a location, so that percentages   *)
(* do not divide evenly; tests are skipped, an ISP is not given or is      *)
(* called as the label of that; times lie on both sides of each window and *)
(* ahead of NOW(); the two stored first have no score and one of them says *)
(* "both".                                                                 *)
(***************************************************************************)
EXTENDS Reports, TLC

CONSTANTS cafe, bar, pub, gone, ann, bob, fibre

NamedHere == (cafe :> 1 @@ bar :> 2 @@ pub :> 2)

NowHere == 1000

CheckIn(id, user, loc, time, bucket, score, download, isp, decibels, crowdedness, work) ==
    [id |-> id, user |-> user, loc |-> loc, time |-> time, bucket |-> bucket, score |-> score,
     download |-> download, isp |-> isp, decibels |-> decibels,
     crowdedness |-> crowdedness, work |-> work]

LegacyHere == {
    CheckIn(1, ann, cafe, 280, "morning",   40, 12,   None,    55,   1, "both"),
    CheckIn(2, bob, bar,  980, "evening",   75, None, None,    61,   3, "solo")}

SubmissionHere == LegacyHere \cup {
    CheckIn(3, ann, cafe, 985, "morning",   81, 30,   fibre,   None, 2, "solo"),
    CheckIn(4, bob, cafe, 850, "afternoon", 30, 90,   "Unknown", 48, 3, "team"),
    CheckIn(5, ann, bar,  999, "afternoon", 66, None, None,    70,   1, "team"),
    CheckIn(6, ann, cafe, 1100, "evening",  57, 41,   None,    50,   1, "solo"),
    CheckIn(7, bob, cafe, 200, "evening",    0, 8,    fibre,   None, 1, "team"),
    CheckIn(8, bob, bar,  995, "morning",  100, 75,   fibre,   33,   2, "solo"),
    CheckIn(9, ann, cafe, 984, "afternoon", 93, 10,   "Unknown", 52, 3, "solo")}
=============================================================================
