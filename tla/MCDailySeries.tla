--------------------------- MODULE MCDailySeries ---------------------------
(* Five trade dates, two contents per bar (one large, one small), shards   *)
(* of at most two records or three size units: two large bars do not fit   *)
(* one shard, three small ones neither.  The target exceeds the EOD window,*)
(* so a missed day leaves a gap; the last session alone may be revised.    *)
EXTENDS DailySeries

CONSTANTS large, small

MCSize == [b \in Bar |-> IF b = large THEN 2 ELSE 1]
=============================================================================
