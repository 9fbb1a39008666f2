-------------------------- MODULE MCProbeReadiness --------------------------
EXTENDS ProbeReadiness, TLC

CONSTANTS t1, t2, x, y, j1, j2

(* A day has a clock before the open, one after the close, and the night.  *)
MCClocks == "premarket" :> {0} @@ "after_hours" :> {1}

(* Pages of now, in two shapes, the page of the day before, and one of the *)
(* other session.                                                          *)
MCAnswers ==
  {[ok |-> TRUE, age |-> 0, trades |-> {0}, shape |-> x],
   [ok |-> TRUE, age |-> 0, trades |-> {0}, shape |-> y],
   [ok |-> TRUE, age |-> 2, trades |-> {0}, shape |-> x],
   [ok |-> TRUE, age |-> 0, trades |-> {1}, shape |-> x]}

MCSymmetry == Permutations(Target) \cup Permutations(Job)
=============================================================================
