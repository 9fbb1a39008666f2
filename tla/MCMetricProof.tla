---------------------------- MODULE MCMetricProof ----------------------------
EXTENDS MetricProof, TLC

CONSTANTS stock, spy, c

(* The benchmark may fall behind, and its closes may change then.          *)
MCSeries == (stock :> {1 :> 1 @@ 2 :> 1})
            @@ (spy :> {1 :> 1, 1 :> 2, 1 :> 1 @@ 2 :> 1})

(* Instant 0 is before the window of the stage.                            *)
MCAnswers == (stock :> {0 :> 1, 1 :> 1 @@ 2 :> 1, 2 :> 2}) @@ (spy :> {2 :> 1})
==============================================================================
