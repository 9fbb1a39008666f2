# stock-market-data: TLA+ models and proofs

This directory verifies the control behaviour of the market-data collector: a
set of Python programs (`scripts/`) that GitHub workflows (`.github/workflows/`)
run one job at a time against a private Git repository, *the Store*. Every
definition is translated from the source; `PROJECT.json` maps each one to the
lines it stands for.

To check a module: `tlc -config MCDailySeries.cfg MCDailySeries`; to check the
proofs: `tlapm StorePublication_proofs.tla` (and the other `*_proofs` modules).

## 1. The system

A job checks the Store out, runs one collector on the checkout, commits the
changed files, publishes the commit to the remote `main`, and verifies the
publication, which ends in a retention tag and a *durability receipt*. A job
that fails before it publishes leaves nothing behind; an exception the collector
catches per symbol leaves a partly changed checkout that **is** published.

| Component | State | Operations | What makes it correct |
|---|---|---|---|
| Store publication (`push_proof_store_commit.py`, `verify_store_publication.py`, persist/verify steps of the workflows) | remote `main` and tags, the job's commit, attempts | exact push with read-back, pull-rebase loop, verification, tag push | a receipt stays true; a commit lands once; a proof's commit lands on the tree it was built from; the queue never blocks |
| Daily series (`market_data_store.py`, `initialize_`/`rebase_market_data_baseline.py`, EOD part of `market_data_collectors.py`, history of `collect_dynamic_candidates.py`) | index, shard files, rebase archives | append, widen, archive-and-replace | committed bars change only by an archived, bounded rebase; damage is never built on; shards and lineage tile the records |
| Stage cycle (`collect_market_data.py`, `market_data_collection.py`) | stage snapshots, close-missing state, latest proofs | first passes, predecessors, retries, repair, proof | no sequence of passes locks the date; recovery only adds; proof follows snapshot; predecessors and the stage that needed them are published together |
| Credit ledger (`wait_for_twelve_budget`, `consume_twelve_credit`) and guarded admission (`admit_market_data_baseline.py`) | ledger file of a trade date, the clock | wait, debit, publish the debit, guard, request | a guarded request has its own published debit in its own minute; a wait is never refused later |
| Captures and snapshots (`write_capture`, `write_snapshot` and their callers) | immutable documents, `latest.json` | live passes, replays of probes, requests, rebases | documents stay; references resolve; `latest.json` is the newest snapshot |
| Metric proof (`build_deterministic_metric_proof.py`) | proof files, pointer | select targets, build, verify, publish | a published proof verifies where it was published and stays; one that verifies is the one that would be built |
| Guarded recovery (`recover_market_data_baseline.py`) | budget, diagnostics, staged worktree | acquire all, stage, one commit | all or nothing; what a run reports is true for ever |
| Dynamic candidates (`collect_dynamic_candidates.py`), premarket (`premarket_collection.py`, `replay_premarket_probe.py`) | captures, snapshots, state file and manifest of a request | collect, replay | the commit that publishes a manifest holds what it pins |
| Probes and readiness (`probe_nasdaq_extended.py`, `evaluate_nasdaq_extended_probe.py`) | probe files, readiness record | probe, evaluate | a session is ready only for whole probes of enough dates; a date that qualified stays qualified |
| Request intake, universe, targets, manifest, inventory, legacy, audit | none of their own | validation, derivation | stateless |

**Interaction.** Components share only the Store tree of a checkout. The stage
cycle and the daily writers spend from the credit ledger of the same checkout;
everything they write becomes visible to the next job at once, by the
publication of one commit. The concurrency group `market-data-collector`
serialises all writers in this repository; people and other tools are outside it.

**Hard behaviours.** Lost and late acknowledgements of pushes, tags squatted by
others, rebases in a race, runners that vanish; exceptions between two of the
files of one series; passes of a date repeated and reordered; a clock that moves
between check and use; a ledger that is lost with its job; identifiers that hold
the time of day only; inputs of a proof that change after it was published. `PROJECT.json`
"hazards" lists them line by line.

## 2. Modules

* `DurableStore` – abstract: main only grows, anchors appear only on it,
  receipts only for anchored commits. `StorePublication` implements it.
* `StorePublication` – jobs step through checkout (`Checkout`, `Build`), the
  exact push (`Observe`, `Push`, `Readback` are one iteration of `push_exact`),
  the rebase loop (`Pull`, `PushPlain`) and the verifier (`RequireMain`,
  `FindTag`, `PushTag`, `ConfirmTag`, `Report`). The remote is external:
  `ApplyPush`, `ApplyTag` deliver messages at any time, `ForeignPush` and
  `ForeignTag` are everybody else. A commit is its set of ancestors.
  `StorePublication_proofs` holds the theorems.
* `DailyHistory` – abstract: what may happen to the committed bars (append,
  widen, archive, replace within the authorised tail). `DailySeries` implements it.
* `DailySeries` – index and files of one series. A writer first decides
  (`CollectEod`, `EnsureHistory`, `InitializeBaseline`, `Rebase`), which fixes the
  list of file operations it will do, in the code's order; `Write` does one, `WriteFails`
  raises instead. A shard is a function from dates to bars with abstract
  contents and sizes; a digest is the document it was taken of.
  `DailySeries_proofs` holds the theorems.
* `StageCycle` – one trade date: `Start` (checkout, predecessors, retry
  selection, which refuses an inconsistent close snapshot), `Collect` (one `collect_regular_window` with any provider answers
  and its coverage contract), `BuildProof`, `Publish`, `JobFails`. Prices are
  abstracted to the minutes observed. A close whose captures overlap is refused
  by the proof (`AmbiguousClose`), and the job ends without publishing.
  `StageCycle_proofs` holds the theorems.
* `MetricProof` – one stage of one trade date. `Collect` checks the Store out
  and takes a snapshot (or none), `Build` is `_build_metric_proof_if_applicable`
  with the builder's own verification, `Persist` is `--verify-existing` and the
  exact push, `Repair` a close pass that proves nothing, `WriteDaily` any other
  writer of a series. `Target` is `_target_observations`, `Behind`, `Subjects`
  and `MissingReasons` the partition, `Metrics` and `RelativeStrength` the
  operands of the formulas, `Verifies` is `verify_proof_source_blobs`.
* `DocumentStore` – abstract: documents appear at paths nothing else has and
  stay, a pointer moves only to a newer published document. `SnapshotStore`
  implements it.
* `SnapshotStore` – the captures and snapshots of one trade date under premarket
  passes (`Start`, `FetchSymbol`, `FinishPass`), replays of probe files
  (`Replay`) and requests for dynamic candidates, which also write a state file
  and a manifest (`WithResult`). Jobs work on their own checkouts and may
  overlap; `Publish` is the rebase onto main, file by file (`MergeFile`), and
  the push. `SnapshotStore_proofs` and `MetricProof_proofs` hold the theorems.
* `ProbeReadiness` – probe files by second (`StartProbe`, `Probe`), the
  evaluation of all files of a checkout (`Evaluate`), and the publication of
  either by jobs that may overlap (`Publish`). `Row` says what a probe makes of
  a page, `Selected` which observation stands for a date. `ProbeReadiness_proofs`
  holds the theorems.
* `CreditBudget` – the ledger, three orders of debit and request, and a clock in
  parts of a minute that may advance between any two steps. `CreditBudget_proofs`
  holds the theorems.
* `GuardedRecovery` – runs of `recover_market_data_baseline.py`. A commit is the
  sequence of entries up to it, so a push of an exact fast-forward is `Append`.
  `Dispatch`/`Begin` pin and check the Store; `WriteReport`, `Check`, `Push`,
  `Readback`, `Verify` are one publication (`StorePublisher.publish`), used for
  reports, debits and, from `Push` on, the facts; `NextTarget`, `DebitLedger`,
  `AfterDebit`, `Request` are one iteration over the symbols; `Stage`, `Recheck`
  prepare the fact commit. `Fail` and `FailInDoubt` are the two ways through the
  exception handler: with and without a terminal report. `local` says whether
  the budget checkout still equals the verified commit, which is what keeps an
  unconfirmed debit out of a terminal report. `GuardedRecovery_proofs` holds the
  theorems.

The `MC*` modules give the constants their values. Definitions marked *fault
form* are plausible bugs of the definition that follows them; nothing uses them
except the mutation of that definition, which shows that a property can fail.

## 3. What the runs show

| Run | Question | Bounds and why they are enough |
|---|---|---|
| `store_publication` | receipts, single landing, queue, refinement, termination | two jobs (one with a proof, one without): every pair of persist loops and every late push meets the other loop; one outside push and one squatted tag; three attempts, as in the code, so that a first, a middle and a last attempt differ; seven commits cover all rebases |
| `daily_series` | readability, tiling of shards and lineage, fail-closed, refinement | five dates, shards of two records or three size units, bars of two sizes: both limits bind, a shard is sealed by either, prefixes and suffixes and gaps occur (target 3 > EOD window 2); a rebase on date 4 finds sealed shards and a revisable tail; the series is dated or not, and an undated one may be requested as a candidate before, between and after the other writers |
| `stage_close` | coverage contract, inheritance, retries, provable closes, proof at the close | one stock, one sector ETF, windows of two minutes, answers none/either minute/all, four passes: first pass, retry, repair and repeated first pass in any order |
| `stage_open` | the contract and the proofs for the whole day; predecessors published with their stage, which keeps their captures | all stages, all-or-nothing answers, predecessors materialised, a pass failing at any point, a stage collected again before and after |
| `credit_budget` | guarded requests, wait | 2 credits a minute, 5 a day, 3 minutes of which 2 are remembered, 3 jobs of 2 symbols: both limits are reached, a slot expires, and the third minute can still spend its limit after minutes were forgotten |
| `guarded_recovery` | whole replacements, no symbol of a run paid for or requested twice, truthful and final reports | two symbols and every selection of them; two runs, so that a late push of the first meets the second and an archive is in the way; three credits, so that a batch of two may or may not be funded; one push of another writer at any point |
| `metric_proof` | published proofs verify and stay; verified means current; the target is the latest, uncontradicted price | a stock and a benchmark, three series of the benchmark (current, behind, behind with another close), a window of two instants and one before it, overlapping and contradicting captures, two snapshots, two stages with different selection rules, damage at any time |
| `snapshot_store` | `latest.json`, references, manifests, refinement | a live premarket pass, a replay of either of two probes, two requests of two and one symbols, three passes in all, a clock of two days of two moments: a second day meets the identifiers of the first, an old replay meets a newer pass, two requests meet on the state file |
| `probe_readiness` | earned readiness, dates that stay | two targets, two overlapping jobs, two probes, two evaluations, two required sessions, four pages (fresh, another shape, of the day before, of the other session), a clock of more than a day: both `promotion_ready` and `response_shape_not_stable` are reached |
| `first_pass_persists_unresolved`, `retry_loads_state`, `hard_daily_limit` | statements of `config/market-data-store.yaml` the code does not keep | see section 6 |

**Fairness.** Only `StorePublication` states liveness (`EveryJobEnds`): weak
fairness of the steps of each job, because every Git command has a timeout, every
loop a bound, and the runner executes the steps it was given; a vanished runner
releases the group. Nothing is assumed of the remote: it may swallow every push.
The other models end when their bounded dates, passes, jobs, runs or clock are
used up, so deadlock is not checked there.

**The abstractions that matter.** Local Git failures and dirty worktrees end a
job and are folded into "the job may fail". `DailySeries` has one symbol, as no
operation relates two. `StageCycle` numbers passes, as the queue orders them.
`GuardedRecovery` leaves out the minutes of the ledger (`CreditBudget`), the
retention tag (`StorePublication`) and the manifest; compute identity, trade date,
deadline and provider may fail a run at each place they are looked at.
`CreditBudget` has one trade date, and a guarded request reaches the provider
within two seconds of the guard (the reason for the guard's :58 limit); a push of
the ledger that arrives late is `StorePublication`'s concern, and there it makes
the next exact push fail before any request. `MetricProof` lets a blob identity
stand for its document, a percentage for the pair of its operands and a moving
average for the bars under it, so that equal proofs mean equal inputs and
rounding cannot hide a change; the provider's price fields and time semantics are
one price at an instant. `SnapshotStore` and `ProbeReadiness` let jobs overlap
although the queue forbids it, because a lost runner's push and a local executor
do not respect the queue; `ProbeReadiness` keeps of a page what the evaluator
looks at, and a page's last update is never in the future. A probe takes the
sessions of the clock or the one `--session` forces. Two probes of one second are
not modelled: a job only starts a probe when its checkout has no file of that
second. (The code would overwrite such a file, which takes the wall clock of New York
to repeat, in the night the daylight saving time ends.) Probes of one second in
different checkouts meet in the rebase, which fails as in the code.

## 4. What is proved

Every invariant, action property and refinement that a passing run checks is also
a theorem, for every value of the constants that satisfies the named assumptions
of its module; only the liveness property is left to TLC (end of this section).
Each theorem follows from an inductive invariant `IInv`, which the runs' state
properties alone are not: the paragraphs below say what it adds and why.

**Publication** (`StorePublication_proofs`, `PublicationAssumption`: jobs, proof
jobs, commits, attempts and outside actions in any number, finite or not).

* `TypeCorrect` – types, including the bound on every retry loop;
* `ReceiptsDurable` – a verified job's commit is and stays on main and tagged;
* `AnchorsOnMain` – tags, also those in flight, are only on commits of main;
* `ProofsLandOnTheirBase` – a proof-bearing commit is on main only as a child of
  the job's checkout;
* `CommitsLandOnce` – at most one of a job's commits is ever on main;
* `QueueIsSafe` – while nobody outside the queue pushes, a job is overtaken only by
  a push that an earlier job sent and gave up on;
* `ImplementsDurableStore` – `Spec => Durable!DSpec`.

`IInv` adds that ancestry is reflexive, transitive and closed under existing
commits (`Ancestry`), that every commit a job, the remote or a message refers to
exists (`Known`), what a job knows at each program counter (`Phases`), and which
commits a proof job can have made (`ProofCommits`). Ancestry never changes once a
commit exists (`OldCommitsStay`), and main only moves to a descendant
(`MainStep`); together they make "is on main" stable, from which durability
follows. Landing once needs the history of a job's commits: a commit is *live* as
long as it and main are comparable; a job makes a new commit only when its old one
is dead, and a dead commit stays dead because main only moves to descendants. For
the queue, main is a calm job's checkout or its candidate.

**Daily series** (`DailySeries_proofs`, `SeriesAssumption`, `NoneAssumption`).

* `TypeCorrect`; `WholeSeriesIsReadable` – a writer that was not interrupted leaves
  exactly the files its index describes;
* `EveryRecordOnce` – shards and lineage segments tile the records, shards are
  within both limits, and all but the last are sealed and full;
* `TornSeriesStays` – nobody builds on a damaged series;
* `ImplementsDailyHistory` – `Spec => History!DSpec`.

Two parts. The first is about data: what the packing loop returns. `Part` says that
a sequence of shards holds some dates of the rows in order, each shard full before
the next starts; `PackFacts` proves it of `Pack`, `FilledAndAdded` of the open shard
an append fills and the shards it adds, `PartJoin` and `PartFront` put such sequences
together and take them apart, and `SegmentsShift` does the same for lineage. The
recursive definitions are handled without an induction rule: if one were wrong
somewhere, it would be wrong on a smallest set of dates (`SmallestSet`), and there
its own equation refutes that. The second part is about plans. `IInv` says that the
operations a writer still has to do are `Sound`: an index comes last, is well formed
(`Good`), and every shard it names is on disk and will not be touched, or is still to
be written and not touched after that. A step of the writer keeps the rest sound
(`SoundTail`), an append, an extension and a replacement start with a sound plan
(`AppendPlan`, `ExtendPlan`, `ReplacePlan`), and when the index lands its shards are
there (`IndexLands`). `Permitted`, `ArchiveKept` and `Archived` carry what the checks
before the plan established to the step that replaces the index: that is the
refinement.

**Stage cycle** (`StageCycle_proofs`, `CycleAssumption`, `NoneAssumption`).

* `TypeCorrect`; `PassesNeverRejected` – no pass is refused by the coverage contract;
* `OnlyRepairsAreAmbiguous` – a close becomes unprovable only through a repair;
* `ProofsFollow` – the latest proof is of the latest snapshot, except after repairs
  and for materialised predecessors;
* `RecoveryOnlyAdds`, `RetriesOnlyImprove` – what retries and repairs keep;
* `PredecessorsStay` – a predecessor that a stage materialised is published with
  that stage, whose snapshot has its captures if it came after it.

`IInv` says of the job's stage what its slot is (`Slot`), of every published
snapshot that its missing set is exactly what its captures leave uncovered
(`Trees`), which snapshot each proof is of (`Proofs`), that the later of two
captures of one symbol at the close is a repair's (`Close`), and that a job's close
succeeds the published one (`Ends`). `Materialised` says of the published tree and
of the checkout what `MaterialisedTogether` says of the former, where the pass that
is still to come stands in for the missing snapshot (`Pending`).

**Metric proofs** (`MetricProof_proofs`, `ProofAssumption`: finitely many symbols
and instants, else anything).

* `TargetsAreLatest` – the price of a published proof is the latest the snapshot
  knows, and no capture contradicts it; `OrderIgnored` – the order of captures does
  not matter;
* `AcceptedProofsAreCurrent` – a published proof that verifies is the proof that
  would be built from that tree, although the verifier computes no metric;
* `PublishedProofsStay` – no published proof changes;
* `PublicationsVerify` – the commit that publishes a proof is one it verifies
  against.

`IInv` says that every proof of a tree was built from some series and its own
snapshot, whose captures agree at the latest instant of a symbol, that a job only
adds proofs to the tree it checked out (`Trees`), and that the captures of a
snapshot are numbered uniquely (`Snapshots`). The heart is `SubjectDependsOnSubjects`: what a subject holds
depends on the series of subjects only, because a benchmark counts only if it is a
subject itself; hence the verifier's partition and pins determine the whole proof.

**Captures and snapshots** (`SnapshotStore_proofs`, `StoreAssumption`).

* `LatestStaysNewest`, `RefsStayResolved`, `ManifestsPinTheirOutputs`, and
* `ImplementsDocumentStore` – `Spec => Documents!DSpec`.

`IInv` says that every tree – published, checked out, being made – is in order
(unique paths, references inside the tree, pointers at the newest snapshot), that
a job only adds documents to a checkout that is part of what is published
(`Adds`), that it left state and manifests alone or wrote a result numbered like
no other and the manifest that pins it (`Untouched`, `Pinned`). The argument is
about the three-way merge: whichever side moved a pointer, the other side's
pointer is at a document it knows (`LeadsUnion`, `MergeLeads`), and two sides
that moved it differently are a conflict; a state file that differs from the
checkout's wins only if main still has the checkout's.

**Guarded recovery** (`GuardedRecovery_proofs`, `RecoveryAssumption`).

* `TypeCorrect` – types, and that a run's debits and requests follow the symbols it
  has finished, none of which it pays for or requests twice;
* `ReplacedWhole` – histories on main are replaced whole, by facts
  only, next to the archive of what main held;
* `LedgerIsExact` – the ledger counts exactly the published debits, and facts stand
  on one debit for each history;
* `BatchFunded` – a batch that passed the preflight keeps the credits it needs;
* `TerminalsBracket`, `ReportsFinal` – what a run reports at its end is and stays
  true, and is its last word.

`IInv` says what main can hold (`Remote`), what a run has prepared and what it knows
of main at each program counter (`Prepared`, `Active`), that credits left cover the
symbols left (`Funding`), that the counters follow the symbols finished
(`Purchases`), and what reports say (`Reports`). A commit is the sequence
of entries up to it, so all of it rests on lemmas about prefixes: main only grows,
and a publication in doubt is a prefix of main or never will be.

**Credit ledger** (`CreditBudget_proofs`, `BudgetAssumption`).

* `WithinLimits` – the recorded debits of a minute and a day are within the limits
  (proved only: the guards of the debit and the sums over the minutes);
* `RequestsDebited` – every guarded request has its own published debit in its own
  minute, and no minute sees more of them than its limit, remembered or not;
* `WaitingSuffices` – a granted wait is never refused later.

`IInv` says that the published ledger and the running job's are both within the
limits (`Ledgers`), that whoever may still debit has waited for it and whoever may
still send a guarded request is in the minute of its debit (`Waited`), and that
requests and answers have their credits in both ledgers (`Debited`). What a
forgotten minute has seen was bounded when it was current (`MinutesHeld`). The sums over
minutes are treated like the packing loop: by a least counterexample.

**Probes** (`ProbeReadiness_proofs`, `ReadinessAssumption`).

* `Earns` – a session is recorded as ready only for enough dates, each with a whole
  probe whose shape held;
* `DatesStay` – a date that qualified stays qualified.

`IInv` says that the published files, and one about to be published, say nothing of
the future (`Files`), that a record, published or of a running evaluation, is the
evaluation of some published files, and that a running evaluation has all the dates
of the record it wants to replace (`Records`).

**Only model-checked.** `EveryJobEnds`: liveness under fairness and ENABLED are out
of the prover's reach. The three runs of section 6 refute statements of the
documentation, which is TLC's work. That the abstractions of section 3 fit the code
is read, not proved.

## 5. Not modelled

* Formatting and parsing of provider answers (`nasdaq_extended_adapter.py`, the
  fetchers), HTTP, YAML and JSON validation: an answer is there or not, a document
  is well-formed or its job fails.
* Request intake and dispatch, the universe and target files: validation without
  state of its own. Inventory and publication manifests other than that of a
  request: derived from the checkout. `legacy_snapshot_compat.py` reads a fixed
  set of historical documents; the offline audit and the summaries are read-only.
* Waiting for a stage's cutoff and the settlement gate: one clock comparison at
  the start of a job.
* The ledger across trade dates: the provider's limit belongs to the calendar,
  the ledger to a trade date (a hazard without a property, as the code promises
  nothing there). The gap a long outage leaves in a series: reached by
  `daily_series`, promised by nothing.
* A symbol with an effective date that is requested as a dynamic candidate: the
  candidate's append names no effective date, and `dated` is the same for all
  writers of `DailySeries`. The history of every other candidate is appended to the
  series as it is, new or not (`EnsureHistory`).
* A snapshot that is already published does not gain the captures of a predecessor
  that a later pass materialised, if that pass itself captured nothing: the code
  leaves it so, and `MaterialisedTogether` says nothing of it.

## 6. Findings

* `first_pass_persists_unresolved` – the configuration says the first close pass
  always persists its unresolved set; without any snapshot the proof step fails
  the job and the set is lost with the checkout.
* `retry_loads_state` – the configuration gives the close-missing state
  precedence for retries; the code selects from the snapshot and the two differ.
* `hard_daily_limit` – the configuration calls the credit limits hard; failed
  requests of the paths that debit afterwards, and all debits of failed jobs, are
  not counted.

## 7. What could follow

1. Proofs about the operators that stand for pure algorithms (settlement and
   cutoff arithmetic), once they are modelled (3.); a theorem that a history whose
   dates are contiguous stays so as long as no job is missed.
2. Composition of `GuardedRecovery` with `DailyHistory` (a fact commit is its
   archive-and-replace), and of two trade dates with one ledger limit.
3. Pure algorithms with reference definitions: settlement and cutoff arithmetic,
   shard packing.
