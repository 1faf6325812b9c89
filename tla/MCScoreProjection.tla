-------------------------- MODULE MCScoreProjection --------------------------
(* Four days in two quarters; two FUNDAMENTAL rows of the first quarter and  *)
(* two TECHNICAL rows.                                                      *)
EXTENDS ScoreProjection, TLC

CONSTANTS f1, f2, t1, t2

Rows == {f1, f2, t1, t2}
Lanes == {0, 1}
LaneOfRow == f1 :> 0 @@ f2 :> 0 @@ t1 :> 1 @@ t2 :> 1
SomeEdits ==
  {<<f1, "bad">>, <<f1, "good">>, <<f2, "good">>, <<f2, "misshapen">>,
   <<t1, "bad">>, <<t1, "absent">>, <<t1, "good">>,
   <<t2, "good">>, <<t2, "misshapen">>, <<t2, "unusable">>}
Computed == {f1, t1}
Availability == f1 :> 0 @@ f2 :> 1 @@ t1 :> 1 @@ t2 :> 1
=============================================================================
