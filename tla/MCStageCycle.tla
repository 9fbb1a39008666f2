---------------------------- MODULE MCStageCycle ----------------------------
(* A stock and a sector ETF, two minutes per window; a provider reports    *)
(* nothing, either minute alone, or the whole window.  The close run       *)
(* mixes first passes, retries and repairs of the close; the open run goes *)
(* through the stages of the day, its providers report all or nothing.     *)
EXTENDS StageCycle

MCObservable == {{}, {1}, {2}, {1, 2}}
MCAllOrNothing == {{}, {1, 2}}
=============================================================================
