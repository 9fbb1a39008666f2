------------------------ MODULE MCStorePublication ------------------------
(* Two writer jobs, one with a proof and one without, one push and one tag *)
(* from outside the queue.  Seven commits: the start, one per job, one per *)
(* outside push, and one per rebase the single plain job can be forced     *)
(* into (once by the outsider, once by a late push of the proof job).      *)
EXTENDS StorePublication

MCCommit == 0 .. 6
=============================================================================
