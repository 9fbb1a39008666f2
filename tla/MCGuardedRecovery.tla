------------------------- MODULE MCGuardedRecovery -------------------------
(* Two symbols, three credits a day, two runs, one push of another writer. *)
EXTENDS GuardedRecovery, TLC

MCSymmetry == Permutations(Target)
=============================================================================
