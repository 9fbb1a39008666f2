---------------------------- MODULE DailyHistory ----------------------------
(***************************************************************************)
(* What the Store promises about one daily series, whatever its shards     *)
(* look like on disk (config/market-data-store.yaml `series`): a committed *)
(* bar stays what it was.  Normal collection appends later bars; baseline  *)
(* initialisation adds bars around the committed ones and never between    *)
(* them; only an explicit rebase may correct bars, at most MaxRevised of   *)
(* them, among the last Tail sessions, and only after the history it       *)
(* replaces has been archived.                                             *)
(***************************************************************************)
EXTENDS Naturals, FiniteSets

CONSTANTS RevisableTail, MaxRevised

VARIABLES history,   \* the committed bars: a function from dates to values
          archives   \* the histories archived by rebases

NoBars == << >>

Dates(h) == DOMAIN h
Earlier(d, h) == \A e \in Dates(h) : d < e
Later(d, h) == \A e \in Dates(h) : d > e

(* Every bar of h is a bar of g.                                           *)
Keeps(h, g) == Dates(h) \subseteq Dates(g) /\ \A d \in Dates(h) : g[d] = h[d]

Revised(h, g) == {d \in Dates(h) : g[d] # h[d]}
Newer(d, h) == {e \in Dates(h) : e > d}

DInit == history = NoBars /\ archives = {}

Append ==
  /\ Keeps(history, history')
  /\ \A d \in Dates(history') \ Dates(history) : Later(d, history)
  /\ UNCHANGED archives

Widen ==
  /\ Keeps(history, history')
  /\ \A d \in Dates(history') \ Dates(history) :
       Earlier(d, history) \/ Later(d, history)
  /\ UNCHANGED archives

Archive ==
  /\ archives' = archives \cup {history}
  /\ UNCHANGED history

Replace ==
  /\ history \in archives
  /\ Dates(history) \subseteq Dates(history')
  /\ Cardinality(Revised(history, history')) <= MaxRevised
  /\ \A d \in Revised(history, history') : Cardinality(Newer(d, history)) < RevisableTail
  /\ UNCHANGED archives

DNext == Append \/ Widen \/ Archive \/ Replace

DSpec == DInit /\ [][DNext]_<<history, archives>>
=============================================================================
