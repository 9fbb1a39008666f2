----------------------------- MODULE MetricProof -----------------------------
(***************************************************************************)
(* The metric proof of one stage of one trade date                         *)
(* (build_deterministic_metric_proof.py and its callers).                  *)
(*                                                                         *)
(* A job checks the Store out, possibly takes a new snapshot, builds the   *)
(* proof of the latest snapshot from the daily series next to it, verifies *)
(* the committed tree and pushes it with an exact base.  The daily series  *)
(* are written by others (DailySeries): appended to, rebased, or left      *)
(* damaged by a writer that stopped half-way.  A consumer pins a published *)
(* tree and verifies the proof against it; it computes no metric.          *)
(*                                                                         *)
(* A daily series is a function from dates to closes.  A blob identity     *)
(* stands for the document it was taken of, so a proof holds the documents *)
(* it pins.  A percentage is the pair of its operands, and a moving        *)
(* average the bars it is taken over: rounding is not a matter of control. *)
(* A capture holds the priced facts of one symbol by instant; its price    *)
(* stands for value, field and semantics.                                  *)
(***************************************************************************)
EXTENDS Naturals, Sequences, FiniteSets, FiniteSetsExt, SequencesExt

CONSTANTS Symbol, Benchmark,
          TradeDate,     \* the date of the stage; series dates are 1 .. TradeDate
          Series,        \* bound: the series that occur for a symbol, functions
                         \* from dates to closes
          Stages,        \* bound: the stages looked at
          Window,        \* the instants of the stage's target window
          Answers,       \* bound: the facts a capture of a symbol may hold
          Horizon, Average,       \* the sessions of returns and moving averages
          Compute,       \* the commits of the compute repository
          MaxSnapshots,  \* bound
          Damaged, None

ASSUME ProofAssumption ==
  /\ Benchmark \subseteq Symbol /\ IsFiniteSet(Symbol)
  /\ Window \subseteq Nat /\ IsFiniteSet(Window)
  /\ TradeDate \in Nat \ {0}
  /\ Stages \subseteq {"open_30m", "open_60m", "close"}
  /\ MaxSnapshots \in Nat

VARIABLES stage,     \* the stage, fixed
          store,     \* the published Store: see Tree
          step,      \* of the job: "idle", "build" or "persist"
          base,      \* the tree the job checked out
          work,      \* the tree the job makes
          contract,  \* the compute commit the job is pinned to
          taken      \* the number of snapshots taken

vars == <<stage, store, step, base, work, contract, taken>>

Date == 1 .. TradeDate
Path == Compute \X (1 .. MaxSnapshots)

Dates(series) == DOMAIN series
On(series, D) == [d \in D |-> series[d]]

-----------------------------------------------------------------------------
(* Which observation of a symbol a snapshot stands for.                    *)

(* The places in refs that observed symbol s at an instant of the window.  *)
At(refs, s, t) == {k \in DOMAIN refs : refs[k].symbol = s /\ t \in DOMAIN refs[k].facts}
Observed(refs) == {refs[k].symbol : k \in DOMAIN refs}
Instants(refs, s) == {t \in Window : At(refs, s, t) # {}}
WithTarget(refs) == {s \in Observed(refs) : Instants(refs, s) # {}}

(* Close: the facts are read in the order of the references; one at the    *)
(* instant that was the latest so far, from another capture, is ambiguous. *)
AmbiguousClose(refs) ==
  \E k \in DOMAIN refs :
    LET earlier == {t \in Window : \E j \in At(refs, refs[k].symbol, t) :
                                     j < k /\ refs[j] # refs[k]}
    IN  earlier # {} /\ Max(earlier) \in DOMAIN refs[k].facts

(* Open stages: contradicting facts at any instant are ambiguous.          *)
AmbiguousOpen(refs) ==
  \E s \in Observed(refs) : \E t \in Instants(refs, s) : \E j, k \in At(refs, s, t) :
    refs[j].facts[t] # refs[k].facts[t]

(* Every fact of an open stage has to lie in the window; the close ignores *)
(* the others.                                                             *)
Selectable(refs) ==
  IF stage = "close" THEN ~AmbiguousClose(refs)
  ELSE /\ \A k \in DOMAIN refs : DOMAIN refs[k].facts \subseteq Window
       /\ ~AmbiguousOpen(refs)

(* Fault form: the capture that comes first among the references.          *)
FirstRef(refs, s) == CHOOSE k \in At(refs, s, Max(Instants(refs, s))) :
  \A j \in At(refs, s, Max(Instants(refs, s))) : k <= j

(* The capture with the least path among those of the latest instant.      *)
SelectedRef(refs, s) == CHOOSE k \in At(refs, s, Max(Instants(refs, s))) :
  \A j \in At(refs, s, Max(Instants(refs, s))) : refs[k].path <= refs[j].path

(* Fault form: the first instant of the window.                            *)
FirstObservation(refs, s) ==
  LET t == Min(Instants(refs, s))
      k == CHOOSE j \in At(refs, s, t) : TRUE
  IN  [capture |-> refs[k], at |-> t, price |-> refs[k].facts[t]]

(* _target_observations                                                    *)
Target(refs, s) ==
  LET t == Max(Instants(refs, s))
      k == SelectedRef(refs, s)
  IN  [capture |-> refs[k], at |-> t, price |-> refs[k].facts[t]]

-----------------------------------------------------------------------------
(* The daily series next to the snapshot.                                  *)

Prior(series) == On(series, {d \in Dates(series) : d < TradeDate})

(* _load_daily_series raises for a damaged series and for one without      *)
(* prior records; no series at all is only unavailable.                    *)
Loads(series) == series # None => series # Damaged /\ Dates(Prior(series)) # {}

LastPrior(series) == Max(Dates(Prior(series)))

WithSeries(daily, refs) == {s \in WithTarget(refs) : daily[s] # None}

(* Symbols whose series ends before that of a peer.                        *)
Behind(daily, refs) ==
  {s \in WithSeries(daily, refs) :
     \E peer \in WithSeries(daily, refs) : LastPrior(daily[s]) < LastPrior(daily[peer])}

Subjects(daily, refs) == WithSeries(daily, refs) \ Behind(daily, refs)

MissingReasons(daily, refs) ==
  [s \in Observed(refs) \ Subjects(daily, refs) |->
     IF s \notin WithTarget(refs) THEN "qualified_stage_target_unavailable"
     ELSE IF daily[s] = None THEN "provider_affine_daily_series_unavailable"
     ELSE "provider_affine_daily_series_behind_observed_peer"]

-----------------------------------------------------------------------------
(* compute_metrics                                                         *)

LastDates(D, n) == {d \in D : Cardinality({e \in D : e > d}) < n}
Baseline(prior, n) == Min(LastDates(Dates(prior), n))
Enough(prior, n) == Cardinality(Dates(prior)) >= n

Metrics(prior, target) ==
  [returns  |-> [n \in Horizon |-> IF Enough(prior, n)
                                   THEN <<target.price, prior[Baseline(prior, n)]>> ELSE None],
   averages |-> [n \in Average |-> IF Enough(prior, n)
                                   THEN On(prior, LastDates(Dates(prior), n)) ELSE None]]

(* The return over the same sessions, next to that of the benchmark.       *)
RelativeStrength(prior, target, bprior, btarget) ==
  [n \in Horizon |->
     IF Enough(prior, n) /\ Baseline(prior, n) \in Dates(bprior)
     THEN <<target.price, prior[Baseline(prior, n)],
            btarget.price, bprior[Baseline(prior, n)]>>
     ELSE None]

(* Fault form: a benchmark behind its peers counts all the same.           *)
ComparableWithLag(daily, refs, s, b) ==
  b \in WithSeries(daily, refs) /\ Target(refs, b).at = Target(refs, s).at

(* A benchmark counts if it is a subject itself and was observed at the    *)
(* same instant.                                                           *)
Comparable(daily, refs, s, b) ==
  b \in Subjects(daily, refs) /\ Target(refs, b).at = Target(refs, s).at

Subject(daily, refs, s) ==
  [target  |-> Target(refs, s),
   daily   |-> daily[s],
   metrics |-> Metrics(Prior(daily[s]), Target(refs, s)),
   benchmark |->
     [b \in Benchmark |->
        IF Comparable(daily, refs, s, b)
        THEN RelativeStrength(Prior(daily[s]), Target(refs, s),
                              Prior(daily[b]), Target(refs, b))
        ELSE None]]

-----------------------------------------------------------------------------
(* Building and verifying.                                                 *)

(* build_proof loads the series of the targets and of the benchmarks.      *)
Buildable(daily, snapshot) ==
  /\ Selectable(snapshot.refs)
  /\ \A s \in WithTarget(snapshot.refs) \cup Benchmark : Loads(daily[s])

Proof(daily, snapshot) ==
  [snapshot |-> snapshot,
   missing  |-> MissingReasons(daily, snapshot.refs),
   subjects |-> [s \in Subjects(daily, snapshot.refs) |-> Subject(daily, snapshot.refs, s)]]

(* verify_proof_source_blobs: the partition into subjects and missing, the *)
(* selected targets and the pinned series; no metric is computed again.    *)
Verifies(daily, proof) ==
  LET refs == proof.snapshot.refs
  IN  /\ Selectable(refs)
      /\ \A s \in WithTarget(refs) : Loads(daily[s])
      /\ proof.missing = MissingReasons(daily, refs)
      /\ DOMAIN proof.subjects = Subjects(daily, refs)
      /\ \A s \in DOMAIN proof.subjects :
           /\ proof.subjects[s].target = Target(refs, s)
           /\ proof.subjects[s].daily = daily[s]

-----------------------------------------------------------------------------
(* The jobs and the writers next to them.                                  *)

NoTree == [snapshot |-> None, daily |-> [s \in Symbol |-> None],
           proofs |-> [p \in Path |-> None], latest |-> None]

Init ==
  /\ stage \in Stages
  /\ store = NoTree /\ base = NoTree /\ work = NoTree
  /\ step = "idle" /\ contract = None /\ taken = 0

End == step' = "idle" /\ base' = NoTree /\ work' = NoTree /\ contract' = None

(* The tree after a pass that observed `given`: a new snapshot, on top of  *)
(* the references of the latest one or afresh.                             *)
WithSnapshot(tree, given, inherit) ==
  LET new == SetToSeq({[path |-> taken + 1, symbol |-> s, facts |-> given[s]] :
                       s \in DOMAIN given})
  IN  [tree EXCEPT !.snapshot =
         [id |-> taken + 1,
          refs |-> IF inherit /\ tree.snapshot # None THEN tree.snapshot.refs \o new
                   ELSE new]]

Passes == UNION {{given \in [S -> UNION {Answers[s] : s \in S}] :
                    \A s \in S : given[s] \in Answers[s]} : S \in (SUBSET Symbol) \ {{}}}

(* A job checks the Store out and makes a pass, which has facts or, if     *)
(* nothing qualified or nothing was missing, none.                         *)
Collect ==
  /\ step = "idle"
  /\ base' = store
  /\ \/ /\ taken < MaxSnapshots
        /\ \E given \in Passes, inherit \in BOOLEAN :
             work' = WithSnapshot(store, given, inherit)
        /\ taken' = taken + 1
     \/ work' = store /\ UNCHANGED taken
  /\ contract' \in Compute
  /\ step' = "build"
  /\ UNCHANGED <<stage, store>>

ProofPath == <<contract, work.snapshot.id>>

(* Fault form: the proof file is replaced.                                 *)
NeverConflicts(tree, path, proof) == TRUE

(* _write_json: a proof that is there already has to be the same.          *)
Writable(tree, path, proof) == tree.proofs[path] \in {None, proof}

WithProof(tree, path, proof) == [tree EXCEPT !.proofs[path] = proof, !.latest = path]

(* _build_metric_proof_if_applicable; a job whose proof cannot be built or *)
(* conflicts with an earlier one fails.                                    *)
Build ==
  /\ step = "build"
  /\ IF /\ work.snapshot # None /\ Buildable(work.daily, work.snapshot)
        /\ Verifies(work.daily, Proof(work.daily, work.snapshot))
        /\ Writable(work, ProofPath, Proof(work.daily, work.snapshot))
     THEN /\ work' = WithProof(work, ProofPath, Proof(work.daily, work.snapshot))
          /\ step' = "persist"
          /\ UNCHANGED <<base, contract>>
     ELSE End
  /\ UNCHANGED <<stage, store, taken>>

(* verify_existing_proof, on the tree of the commit to be pushed.          *)
Verified ==
  /\ Buildable(work.daily, work.snapshot)
  /\ work.proofs[ProofPath] = Proof(work.daily, work.snapshot)
  /\ Verifies(work.daily, work.proofs[ProofPath])
  /\ work.latest = ProofPath

(* Fault form: the push is not bound to the base.                          *)
MayPushAnyway == TRUE

(* The push is bound to the base; a tree stands for its commit.            *)
MayPush == store = base

(* push_exact.  The files the job changed go on top of main: with MayPush  *)
(* that is the job's own tree.                                             *)
Persist ==
  /\ step = "persist"
  /\ store' = IF Verified /\ MayPush
              THEN [store EXCEPT !.snapshot = work.snapshot, !.proofs = work.proofs,
                                 !.latest = work.latest]
              ELSE store
  /\ End
  /\ UNCHANGED <<stage, taken>>

JobFails ==
  /\ step # "idle"
  /\ End
  /\ UNCHANGED <<stage, store, taken>>

(* A pass of the close that proves nothing: historical_context_repair.     *)
Repair ==
  /\ stage = "close" /\ step = "idle" /\ taken < MaxSnapshots
  /\ \E given \in Passes : store' = WithSnapshot(store, given, TRUE)
  /\ taken' = taken + 1
  /\ UNCHANGED <<stage, step, base, work, contract>>

(* A writer of a daily series: no date of it is lost, and a writer that    *)
(* stops half-way leaves it damaged, which nothing repairs (DailySeries).  *)
WriteDaily(s) ==
  /\ \E new \in Series[s] \cup {Damaged} :
       /\ store.daily[s] \notin {new, Damaged}
       /\ store.daily[s] # None /\ new # Damaged => Dates(store.daily[s]) \subseteq Dates(new)
       /\ store' = [store EXCEPT !.daily[s] = new]
  /\ UNCHANGED <<stage, step, base, work, contract, taken>>

Next ==
  \/ Collect \/ Build \/ Persist \/ JobFails
  \/ Repair
  \/ \E s \in Symbol : WriteDaily(s)

Spec == Init /\ [][Next]_vars

-----------------------------------------------------------------------------
(* Properties.                                                             *)

Proofs(tree) == {tree.proofs[p] : p \in Path} \ {None}

(* The verifier recomputes no metric, and it looks only at the series the  *)
(* subjects pin, while a relative strength also rests on the benchmark's   *)
(* series: still, whatever happened to the series since, a proof that      *)
(* verifies against a published tree is exactly the proof that would be    *)
(* built from that tree.                                                   *)
AcceptedProofIsCurrent ==
  \A proof \in Proofs(store) :
    Verifies(store.daily, proof) => proof = Proof(store.daily, proof.snapshot)

(* The commit that publishes a proof is one it verifies against, and the   *)
(* proof is that of its latest snapshot: a consumer who pins that commit   *)
(* can use it, whoever wrote to the Store while it was built.              *)
PublishedProofVerifies ==
  [][store'.latest # store.latest =>
       /\ Verifies(store'.daily, store'.proofs[store'.latest])
       /\ store'.proofs[store'.latest].snapshot = store'.snapshot]_vars

(* A published proof never changes, though it is built again by every pass *)
(* without news and the series it pins may have changed in between.        *)
ProofsImmutable ==
  [][\A p \in Path : store.proofs[p] # None => store'.proofs[p] = store.proofs[p]]_vars

(* The price a published proof rests on is the last one the snapshot knows *)
(* for the symbol, and no other capture of the snapshot contradicts it,    *)
(* however the captures of repeated passes overlap.                        *)
TargetIsLatestAndUnambiguous ==
  \A proof \in Proofs(store) : \A s \in DOMAIN proof.subjects :
    LET refs == proof.snapshot.refs
        target == proof.subjects[s].target
    IN  \A k \in DOMAIN refs : refs[k].symbol = s =>
          \A t \in DOMAIN refs[k].facts \cap Window :
            /\ t <= target.at
            /\ t = target.at => refs[k].facts[t] = target.price

Reordered(refs) == {[k \in DOMAIN refs |-> refs[p[k]]] : p \in Bijection(DOMAIN refs, DOMAIN refs)}

(* The selection of an open stage does not depend on the order of the      *)
(* references (the comment at line 471 of the builder); that of the close  *)
(* may refuse one order and accept another, but never selects differently. *)
SelectionIgnoresOrder ==
  \A tree \in {store, work} : tree.snapshot # None =>
    LET refs == tree.snapshot.refs
    IN  \A other \in Reordered(refs) :
          /\ stage # "close" => (Selectable(refs) <=> Selectable(other))
          /\ Selectable(refs) /\ Selectable(other) =>
               \A s \in WithTarget(refs) : Target(refs, s) = Target(other, s)
=============================================================================
