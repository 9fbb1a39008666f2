----------------------------- MODULE StageCycle -----------------------------
(***************************************************************************)
(* The regular-session collection of one trade date: the stages open_15m,  *)
(* open_30m, open_60m and close, the retries and the repair of the close,  *)
(* and the metric proof that goes with a stage                             *)
(* (collect_market_data.cli, market_data_collection.collect_regular_window,*)
(* market_data_store.write_snapshot).                                      *)
(*                                                                         *)
(* Jobs run one at a time, each on its own checkout of the Store; a job    *)
(* that ends badly publishes nothing (StorePublication has the details).   *)
(* A mode may be requested in any order and any number of times: every     *)
(* mode also runs for a past trade date, when no cutoff holds it back.     *)
(*                                                                         *)
(* A capture records which minutes of its window were observed for one     *)
(* symbol; prices are abstracted.  The capture id contains the mode and    *)
(* the time of the run, so captures of different runs are different        *)
(* objects; runs are numbered, and later runs have later times.            *)
(***************************************************************************)
EXTENDS Naturals, Sequences, FiniteSets, FiniteSetsExt, SequencesExt

CONSTANTS Intraday,     \* the intraday group of the universe
          Context,      \* the context proxies, all of them intraday
          Sector,       \* the sector ETFs
          Requestable,  \* bound: the modes that get requested
          MaxRuns,      \* bound: collection passes on the trade date
          Minute,       \* the minutes of a window
          Observable,   \* bound: the sets of minutes a provider may report
          None

Stage == {"open_15m", "open_30m", "open_60m", "close"}
Mode == Stage \cup {"close_retry", "close_final", "historical_context_repair"}

ASSUME CycleAssumption ==
  /\ Context \subseteq Intraday
  /\ Requestable \subseteq Mode
  /\ MaxRuns \in Nat
  /\ Observable \subseteq SUBSET Minute /\ {} \in Observable
  /\ None \notin Mode

VARIABLES store,    \* the published Store: see Tree
          work,     \* the checkout the running job works on
          job,      \* its mode, or None
          todo,     \* the passes it still has to run
          step,     \* "idle", "collect", "prove" or "publish"
          runs,     \* the number of passes so far
          outcome   \* the mode and the end of the last job

vars == <<store, work, job, todo, step, runs, outcome>>

Symbol == Intraday \cup Sector
Run == 1 .. MaxRuns
Windows == {"0930", "0945", "1000", "1545"}
Captures == [symbol : Symbol, window : Windows, minutes : (SUBSET Minute) \ {{}},
             mode : Mode, run : Run]
Snapshots == [run : Run, by : Mode, refs : SUBSET Captures, missing : SUBSET Symbol]

ASSUME NoneAssumption == None \notin Snapshots

(* latest: the latest snapshot of a stage; closeMissing: the close-missing *)
(* state file; proved: the snapshot the latest proof of a stage is of.     *)
Tree == [latest : [Stage -> Snapshots \cup {None}],
         closeMissing : (SUBSET Symbol) \cup {None},
         proved : [Stage -> Run \cup {None}]]

EmptyTree == [latest |-> [s \in Stage |-> None], closeMissing |-> None,
              proved |-> [s \in Stage |-> None]]

CloseModes == {"close", "close_retry", "close_final"}
Retries == {"close_retry", "close_final"}
Repair == "historical_context_repair"

StageOf(m) == IF m \in Stage THEN m ELSE "close"

WindowOf == [open_15m |-> "0930", open_30m |-> "0945", open_60m |-> "1000",
             close |-> "1545"]

(* The windows of a stage's target window: an open stage starts at 09:30.  *)
StageWindows == [open_15m |-> {"0930"}, open_30m |-> {"0930", "0945"},
                 open_60m |-> {"0930", "0945", "1000"}, close |-> {"1545"}]

(* full_universe: the regular intraday symbols, and the sectors at close.  *)
Universe(s) == IF s = "close" THEN Intraday \cup Sector ELSE Intraday

(* Fault form: a repair of the close builds on the last open stage.        *)
PriorOpenStage(m) ==
  CASE m = "open_15m" -> None
    [] m = "open_30m" -> "open_15m"
    [] m = "open_60m" -> "open_30m"
    [] m \in {"close_retry", "close_final"} -> "close"
    [] OTHER          -> "open_60m"

(* The stage whose latest snapshot a pass builds on.                       *)
PriorStage(m) ==
  CASE m = "open_15m" -> None
    [] m = "open_30m" -> "open_15m"
    [] m = "open_60m" -> "open_30m"
    [] m = "close"    -> "open_60m"
    [] OTHER          -> "close"

-----------------------------------------------------------------------------
(* Snapshots.                                                              *)

Refs(snap) == IF snap = None THEN {} ELSE snap.refs
Missing(snap) == IF snap = None THEN {} ELSE snap.missing

(* Fault form: it is loaded before the missing predecessors are collected. *)
PriorPublished(tree, m) ==
  IF PriorStage(m) = None THEN None ELSE store.latest[PriorStage(m)]

(* _load_prior_snapshot                                                    *)
Prior(tree, m) ==
  IF PriorStage(m) = None THEN None ELSE tree.latest[PriorStage(m)]

(* Symbols with a fact in one of the windows ws.                           *)
Qualified(refs, ws) == {c.symbol : c \in {d \in refs : d.window \in ws}}

(* Every minute of the stage's windows was observed for the symbol, each   *)
(* of them once.                                                           *)
FullWindow(symbol, refs, ws) ==
  \A w \in ws, t \in Minute :
    Cardinality({c \in refs : c.symbol = symbol /\ c.window = w /\ t \in c.minutes}) = 1

CoveredAtClose(snap) ==
  {s \in Universe("close") : FullWindow(s, Refs(snap), StageWindows["close"])}

(* Fault form: what the state file says is missing.                        *)
RetryFromState(tree) ==
  IF tree.closeMissing = None THEN Universe("close") ELSE tree.closeMissing

(* _live_close_retry_symbols: the eligible symbols without a fact in the   *)
(* close window of the latest close snapshot.                              *)
RetrySymbols(tree) ==
  Universe("close") \ Qualified(Refs(tree.latest["close"]), StageWindows["close"])

Requested(tree, m) ==
  CASE m \in Retries -> RetrySymbols(tree)
    [] m = Repair    -> Context \cup Sector
    [] OTHER         -> Universe(StageOf(m))

(* The minutes kept for a symbol: the primary provider's, unless the       *)
(* alternate has to fill in for nothing at all, or, in a first pass, has   *)
(* the whole window where the primary has not.  Never a mix.               *)
Selected(m, primary, alternate) ==
  IF \/ primary = {}
     \/ m \notin Retries \cup {Repair} /\ primary # Minute /\ alternate = Minute
  THEN alternate ELSE primary

(* Fault form: a refreshed symbol that failed again is reported missing.   *)
MissingOfIncrement(m, prior, refs, missing) == missing

(* snapshot_missing                                                        *)
SnapshotMissing(m, prior, refs, missing) ==
  CASE m \in {"open_30m", "open_60m"} -> Universe(m) \ {c.symbol : c \in refs}
    [] m = Repair    -> Universe("close") \ Qualified(refs, StageWindows["close"])
    [] m \in Retries -> (Missing(prior) \ {c.symbol : c \in refs \ Refs(prior)}) \cup missing
    [] OTHER         -> missing

(* The captures of a pass that observed these minutes: one for every symbol*)
(* with a qualified fact.                                                  *)
Captured(m, minutes) ==
  {[symbol |-> s, window |-> WindowOf[StageOf(m)], minutes |-> minutes[s],
    mode |-> m, run |-> runs + 1] : s \in {t \in DOMAIN minutes : minutes[t] # {}}}

(* What a prior snapshot says is missing is of the stage and does not      *)
(* contradict its captures.                                                *)
Consistent(s, prior) ==
  /\ Missing(prior) \subseteq Universe(s)
  /\ Missing(prior) \cap Qualified(Refs(prior), StageWindows[s]) = {}

(* The coverage contract of a pass: _scope_coverage and the checks on the  *)
(* inherited missing set.  A CoverageContractError fails the job.          *)
CoverageContract(m, prior, refs, missing) ==
  LET s == StageOf(m)
  IN  /\ missing = Universe(s) \ Qualified(refs, StageWindows[s])
      /\ \A c \in refs : c.symbol \in Universe(s)
      /\ m \in Retries \cup {Repair, "open_30m", "open_60m"} => Consistent(s, prior)

-----------------------------------------------------------------------------
(* A job.                                                                  *)

Init ==
  /\ store = EmptyTree /\ work = EmptyTree
  /\ job = None /\ todo = << >> /\ step = "idle"
  /\ runs = 0 /\ outcome = [mode |-> None, result |-> "none"]

(* _ensure_predecessors                                                    *)
Predecessors(tree, m) ==
  LET absent(s) == IF tree.latest[s] = None THEN << s >> ELSE << >>
  IN  CASE m = "open_30m" -> absent("open_15m")
        [] m = "open_60m" -> absent("open_15m") \o absent("open_30m")
        [] OTHER          -> << >>

(* A job checks the Store out; a retry with nothing missing has no pass,   *)
(* and one that finds a contradictory close snapshot fails before it       *)
(* requests anything.                                                      *)
Start(m) ==
  LET passes == IF m \in Retries /\ RetrySymbols(store) = {}
                THEN << >> ELSE Append(Predecessors(store, m), m)
      refused == m \in Retries /\ ~Consistent("close", store.latest["close"])
  IN  /\ step = "idle"
      /\ \/ /\ refused
            /\ outcome' = [mode |-> m, result |-> "rejected"]
            /\ UNCHANGED <<work, job, todo, step>>
         \/ /\ ~refused
            /\ runs + Len(passes) <= MaxRuns
            /\ job' = m
            /\ work' = store
            /\ todo' = passes
            /\ step' = IF passes = << >> THEN "prove" ELSE "collect"
            /\ UNCHANGED outcome
      /\ UNCHANGED <<store, runs>>

(* Fault form: the job is over but keeps the slot.                         *)
EndHolding(o) ==
  /\ outcome' = [mode |-> job, result |-> o]
  /\ todo' = << >> /\ step' = "idle" /\ work' = EmptyTree
  /\ UNCHANGED job

End(o) ==
  /\ outcome' = [mode |-> job, result |-> o]
  /\ job' = None /\ todo' = << >> /\ step' = "idle" /\ work' = EmptyTree

(* A pass without a capture writes no snapshot.                            *)
Snapshot(tree, m, new, missing) ==
  IF new = {} THEN tree
  ELSE [tree EXCEPT !.latest[StageOf(m)] =
          [run |-> runs + 1, by |-> job, missing |-> missing,
           refs |-> Refs(Prior(tree, m)) \cup new]]

CloseState(tree, m, missing) ==
  IF m \in CloseModes THEN [tree EXCEPT !.closeMissing = missing] ELSE tree

(* One pass of collect_regular_window.                                     *)
Collect ==
  /\ step = "collect"
  /\ LET m == Head(todo)
         symbols == Requested(work, m)
         prior == Prior(work, m)
     IN  \E primary, alternate \in [symbols -> Observable] :
           LET minutes == [s \in symbols |-> Selected(m, primary[s], alternate[s])]
               new == Captured(m, minutes)
               missing == SnapshotMissing(m, prior, Refs(prior) \cup new,
                                          {s \in symbols : minutes[s] = {}})
           IN  \/ /\ CoverageContract(m, prior, Refs(prior) \cup new, missing)
                  /\ work' = Snapshot(CloseState(work, m, missing), m, new, missing)
                  /\ todo' = Tail(todo)
                  /\ step' = IF Len(todo) = 1 THEN "prove" ELSE "collect"
                  /\ UNCHANGED <<job, outcome>>
               \/ /\ ~CoverageContract(m, prior, Refs(prior) \cup new, missing)
                  /\ End("rejected")
  /\ runs' = runs + 1
  /\ UNCHANGED store

(* _build_metric_proof_if_applicable, and its verification in the persist  *)
(* step: a stage without a snapshot, or with an ambiguous one, has no      *)
(* proof, and fails the job.                                               *)
ProofStages == {"open_30m", "open_60m", "close"}

ProofStageOf(m) == IF m \in CloseModes THEN "close" ELSE m

(* Fault form: the proof of a stage is only built once.                    *)
ProveOnce(tree, s) ==
  [tree EXCEPT !.proved[s] = IF @ = None THEN tree.latest[s].run ELSE @]

Prove(tree, s) == [tree EXCEPT !.proved[s] = tree.latest[s].run]

(* The proof of the close selects the last minute of a symbol, and refuses *)
(* a snapshot in which a later capture holds the minute that was the last  *)
(* of the earlier ones.  (MetricProof has the selection.)                  *)
AmbiguousClose(refs) ==
  \E c \in refs :
    LET before == {d \in refs : /\ d.symbol = c.symbol /\ d.run < c.run
                               /\ d.window = c.window}
        known == UNION {d.minutes : d \in before}
    IN  c.window \in StageWindows["close"] /\ known # {} /\ Max(known) \in c.minutes

Provable(tree, s) ==
  tree.latest[s] # None /\ (s = "close" => ~AmbiguousClose(Refs(tree.latest[s])))

BuildProof ==
  /\ step = "prove"
  /\ LET s == ProofStageOf(job)
     IN  \/ /\ s \notin ProofStages
            /\ step' = "publish"
            /\ UNCHANGED <<work, job, todo, outcome>>
         \/ /\ s \in ProofStages /\ Provable(work, s)
            /\ work' = Prove(work, s)
            /\ step' = "publish"
            /\ UNCHANGED <<job, todo, outcome>>
         \/ /\ s \in ProofStages /\ work.latest[s] = None
            /\ End("proof_unavailable")
         \/ /\ s \in ProofStages /\ work.latest[s] # None /\ ~Provable(work, s)
            /\ End("ambiguous")
  /\ UNCHANGED <<store, runs>>

Publish ==
  /\ step = "publish"
  /\ store' = work
  /\ End("published")
  /\ UNCHANGED runs

(* Anything else that fails a job: an exception, a lost runner, an         *)
(* integrity failure of a proof, a publication that cannot be confirmed.   *)
JobFails ==
  /\ step # "idle"
  /\ End("failed")
  /\ UNCHANGED <<store, runs>>

Next ==
  \/ \E m \in Requestable : Start(m)
  \/ Collect \/ BuildProof \/ Publish \/ JobFails

Spec == Init /\ [][Next]_vars

-----------------------------------------------------------------------------
(* Properties.                                                             *)

(* The trees hold well-formed snapshots, and the slot is held exactly while*)
(* a job runs.                                                             *)
TypeOK ==
  /\ \A tree \in {store, work} :
       /\ \A s \in Stage : tree.latest[s] # None =>
            /\ tree.latest[s].refs \subseteq Captures /\ tree.latest[s].refs # {}
            /\ tree.latest[s].missing \subseteq Universe(s)
       /\ tree.closeMissing \in (SUBSET Symbol) \cup {None}
       /\ tree.proved \in [Stage -> Run \cup {None}]
  /\ job \in Mode \cup {None} /\ (job = None <=> step = "idle")
  /\ step \in {"idle", "collect", "prove", "publish"}
  /\ todo # << >> <=> step = "collect"
  /\ runs \in 0 .. MaxRuns

(* The cycle never locks itself out: whatever snapshots earlier passes left*)
(* and whatever the providers answer, no pass of any mode is refused by the*)
(* coverage contract (missing exactly the symbols without qualified facts, *)
(* no symbol outside the scope, no inherited contradiction).               *)
NeverRejected == outcome.result # "rejected"

(* A retry or repair of the close only adds: every capture the published   *)
(* close snapshot refers to is still referred to by its successor.  (A     *)
(* repeated first pass starts over.)                                       *)
RecoveryKeepsFacts ==
  [][store'.latest["close"] # store.latest["close"] /\ store'.latest["close"].by # "close"
     => Refs(store.latest["close"]) \subseteq Refs(store'.latest["close"])]_vars

(* The proof of a close is refused for ambiguity only because a repair     *)
(* refreshed a symbol that was there: stages inherit each other's windows  *)
(* once, and a retry, whatever happened before it, never collects what is  *)
(* there.                                                                  *)
AmbiguityComesFromRepair ==
  outcome.result = "ambiguous" =>
    \E c, d \in Refs(store.latest["close"]) :
      c.symbol = d.symbol /\ c.run < d.run /\ d.mode = Repair

(* Retrying never degrades what a consumer sees as complete: a symbol whose*)
(* close window is fully covered stays fully covered.                      *)
RetriesKeepCoverage ==
  [][store'.latest["close"] # store.latest["close"] /\ store'.latest["close"].by \in Retries
     => CoveredAtClose(store.latest["close"]) \subseteq CoveredAtClose(store'.latest["close"])]_vars

(* A published stage snapshot has its metric proof, and it is the latest   *)
(* proof, unless the snapshot was written by a repair of the close or as a *)
(* missing predecessor of open_60m.                                        *)
ProofFollowsSnapshot ==
  \A s \in ProofStages : store.latest[s] # None =>
    \/ store.proved[s] = store.latest[s].run
    \/ store.latest[s].by = Repair
    \/ s = "open_30m" /\ store.latest[s].by = "open_60m"

(* Predecessors that a job materialises are published together with a      *)
(* snapshot of the stage that needed them, or not at all, whatever fails   *)
(* between the passes; and when that stage is collected after them, then   *)
(* or ever since, it inherits all their captures.                          *)
MaterialisedTogether ==
  \A s \in {"open_15m", "open_30m"} :
    LET p == store.latest[s]
    IN  p # None /\ p.by # s =>
          LET q == store.latest[p.by]
          IN  /\ q # None
              /\ PriorStage(p.by) = s /\ q.run > p.run => p.refs \subseteq q.refs

(* config/market-data-store.yaml collector_state: the first close pass     *)
(* always persists the unresolved set, even when nothing qualified.        *)
FirstPassPersistsUnresolved ==
  outcome = [mode |-> "close", result |-> "proof_unavailable"] => store.closeMissing # None

(* config/market-data-store.yaml collector_state: a retry loads the close  *)
(* missing state first.                                                    *)
RetryLoadsState ==
  store.closeMissing # None => RetrySymbols(store) = store.closeMissing
=============================================================================
