---------------------------- MODULE DocumentStore ----------------------------
(***************************************************************************)
(* What the snapshot area of the Store promises to its readers             *)
(* (config/market-data-store.yaml, snapshots): a capture or snapshot that  *)
(* was published keeps its path and content for ever, and the latest       *)
(* pointer of a stage only moves to a published snapshot that was          *)
(* generated later than the one it points to.                              *)
(*                                                                         *)
(* SnapshotStore implements this specification.                            *)
(***************************************************************************)
EXTENDS Naturals

CONSTANT Stage

VARIABLES docs,    \* the published captures and snapshots
          latest   \* the latest snapshot of each stage: none or one

dvars == <<docs, latest>>

DInit == docs = {} /\ latest = [s \in Stage |-> {}]

(* Documents appear, at paths that nothing else has.                       *)
Grows ==
  /\ docs \subseteq docs'
  /\ \A d \in docs' \ docs : \A e \in docs' : d.path = e.path => d = e

(* A pointer stays or moves to a published, strictly newer snapshot.       *)
Forward(s) ==
  \/ latest'[s] = latest[s]
  \/ \E d \in docs' : latest'[s] = {d} /\ \A e \in latest[s] : e.at < d.at

Publish == Grows /\ \A s \in Stage : Forward(s)

DSpec == DInit /\ [][Publish]_dvars
=============================================================================
