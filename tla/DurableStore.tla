---------------------------- MODULE DurableStore ----------------------------
(***************************************************************************)
(* What the publication side of the collector promises to a consumer that  *)
(* pins a Store commit (config/store-publication-durability.yaml):         *)
(*                                                                         *)
(*   - the branch only grows: what was once on main stays in its history,  *)
(*   - a retention anchor (refs/tags/market-data-read/<sha>) is only ever  *)
(*     created for a commit of that history, and is never withdrawn,       *)
(*   - a durability receipt is only ever issued for an anchored commit.    *)
(*                                                                         *)
(* StorePublication implements this specification.                         *)
(***************************************************************************)
CONSTANTS Commit,   \* the commits that may ever exist
          Root      \* the commit main points to at the start

VARIABLES history,   \* the commits reachable from the remote main branch
          anchored,  \* the commits whose retention tag points to themselves
          receipts   \* the commits a durability receipt was issued for

dvars == <<history, anchored, receipts>>

DInit ==
  /\ history = {Root}
  /\ anchored = {}
  /\ receipts = {}

(* Somebody fast-forwards main over one or more commits.                   *)
Advance ==
  \E new \in SUBSET Commit :
    /\ history' = history \cup new
    /\ UNCHANGED <<anchored, receipts>>

(* A retention tag appears at a commit that is already on main.            *)
Anchor ==
  \E c \in history :
    /\ anchored' = anchored \cup {c}
    /\ UNCHANGED <<history, receipts>>

(* A job reports durability_verified for an anchored commit of main.       *)
Issue ==
  \E c \in anchored :
    /\ receipts' = receipts \cup {c}
    /\ UNCHANGED <<history, anchored>>

DNext == Advance \/ Anchor \/ Issue

DSpec == DInit /\ [][DNext]_dvars

=============================================================================
