--------------------------- MODULE MCSnapshotStore ---------------------------
EXTENDS SnapshotStore, TLC

CONSTANTS live, replay, r1, r2, a, b, x

MCKind == live :> "live" @@ replay :> "replay" @@ r1 :> "request" @@ r2 :> "request"
MCWanted == live :> {a} @@ replay :> {a} @@ r1 :> {a, b} @@ r2 :> {a}

(* A probe of the first moment, and a later one.                           *)
MCProbe == {[at |-> 0, facts |-> a :> x], [at |-> 1, facts |-> a :> x]}
=============================================================================
