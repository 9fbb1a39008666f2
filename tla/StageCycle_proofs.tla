-------------------------- MODULE StageCycle_proofs --------------------------
(***************************************************************************)
(* What StageCycle promises, for all symbols, groups, minutes, requested   *)
(* modes and numbers of passes.                                            *)
(*                                                                         *)
(* The invariant says what a snapshot of a stage is: its captures are of   *)
(* the stage's universe, those of an open stage of the stage's windows,    *)
(* and its missing set is exactly what its captures leave uncovered.  The  *)
(* rest relates the checkout of the running job to the published Store:    *)
(* which stages may be without their proof, and what the job may have done *)
(* to the close.                                                           *)
(***************************************************************************)
EXTENDS StageCycle, FiniteSetTheorems, SequenceTheorems, TLAPS

(* A snapshot of stage s.                                                  *)
Exact(s, snap) ==
  /\ snap.missing = Universe(s) \ Qualified(snap.refs, StageWindows[s])
  /\ \A c \in snap.refs : /\ c.symbol \in Universe(s)
                          /\ s # "close" => c.window \in StageWindows[s]

(* A published tree, or a checkout, after n passes.                        *)
Sound(tree, n) ==
  /\ tree \in Tree
  /\ \A s \in Stage : tree.latest[s] # None =>
       /\ tree.latest[s].refs # {}
       /\ Exact(s, tree.latest[s])
       /\ \A c \in tree.latest[s].refs : c.run <= n

(* The later of two captures of a symbol at the close is a repair.         *)
OnlyRepairs(refs) ==
  \A c, d \in refs :
    c.symbol = d.symbol /\ c.window = "1545" /\ d.window = "1545" /\ c.run < d.run
      => d.mode = Repair

OneRun(refs) ==
  \A c, d \in refs :
    c.symbol = d.symbol /\ c.window = "1545" /\ d.window = "1545" => ~(c.run < d.run)

(* What a job of mode m may have made of the close.                        *)
Succeeds(old, new, m) ==
  \/ new = old
  \/ /\ new.by = m
     /\ m = "close" => OneRun(Refs(new))
     /\ m # "close" => Refs(old) \subseteq Refs(new)
     /\ m \in Retries =>
          \A c \in Refs(new) \ Refs(old) :
            c.mode # Repair /\ c.symbol \notin Qualified(Refs(old), StageWindows["close"])

(* The snapshot of a stage has its proof, but for the documented cases.    *)
Follows(tree, s) ==
  tree.latest[s] # None =>
    \/ tree.proved[s] = tree.latest[s].run
    \/ tree.latest[s].by = Repair
    \/ s = "open_30m" /\ tree.latest[s].by = "open_60m"

(* The passes of a job end with its own; those before are predecessors.    *)
PassesOf(m, passes) ==
  passes # << >> =>
    /\ passes[Len(passes)] = m
    /\ \A k \in 1 .. Len(passes) : k < Len(passes) =>
         \/ m = "open_30m" /\ passes[k] = "open_15m"
         \/ m = "open_60m" /\ passes[k] \in {"open_15m", "open_30m"}

Slot ==
  /\ job \in Mode \cup {None} /\ (job = None <=> step = "idle")
  /\ step \in {"idle", "collect", "prove", "publish"}
  /\ todo \in Seq(Mode) /\ (todo # << >> <=> step = "collect")
  /\ PassesOf(job, todo)
  /\ runs \in Nat /\ runs + Len(todo) <= MaxRuns

Trees == Sound(store, runs) /\ Sound(work, runs)

Proofs ==
  /\ \A s \in ProofStages : Follows(store, s)
  /\ step # "idle" =>
       \A s \in ProofStages : s # ProofStageOf(job) \/ step = "publish" => Follows(work, s)

Close ==
  /\ OnlyRepairs(Refs(store.latest["close"])) /\ OnlyRepairs(Refs(work.latest["close"]))
  /\ step = "collect" => work.latest["close"] = store.latest["close"]
  /\ step # "idle" => Succeeds(store.latest["close"], work.latest["close"], job)

Ends == NeverRejected /\ AmbiguityComesFromRepair

IInv == Slot /\ Trees /\ Proofs /\ Close /\ Ends

-----------------------------------------------------------------------------
(* Stages and modes.                                                       *)

LEMMA Modes ==
  ASSUME NEW m \in Mode
  PROVE  /\ StageOf(m) \in Stage
         /\ PriorStage(m) \in Stage \cup {None}
         /\ PriorStage(m) = None <=> m = "open_15m"
         /\ WindowOf[StageOf(m)] \in StageWindows[StageOf(m)]
         /\ WindowOf[StageOf(m)] \in Windows
         /\ StageOf(m) = "close" <=> m \in CloseModes \cup {Repair}
         /\ StageOf(m) = "close" \/ StageOf(m) = m
BY CycleAssumption
   DEF Mode, Stage, StageOf, PriorStage, WindowOf, StageWindows, Windows, CloseModes, Retries, Repair

LEMMA Universes ==
  ASSUME NEW s \in Stage
  PROVE  Intraday \subseteq Universe(s) /\ Universe(s) \subseteq Universe("close")
         /\ Universe(s) \subseteq Symbol
BY DEF Universe, Symbol

LEMMA RequestedInScope ==
  ASSUME NEW tree, NEW m \in Mode
  PROVE  Requested(tree, m) \subseteq Universe(StageOf(m))
BY CycleAssumption
   DEF Requested, RetrySymbols, Universe, StageOf, Mode, Stage, Retries, Repair

LEMMA QualifiedUnion ==
  ASSUME NEW A, NEW B, NEW ws
  PROVE  Qualified(A \cup B, ws) = Qualified(A, ws) \cup Qualified(B, ws)
BY DEF Qualified

(* What a pass captures.                                                   *)
LEMMA CapturedFacts ==
  ASSUME NEW m \in Mode, NEW symbols \in SUBSET Symbol,
         NEW minutes \in [symbols -> SUBSET Minute], runs + 1 \in Run
  PROVE  /\ Captured(m, minutes) \subseteq Captures
         /\ \A c \in Captured(m, minutes) :
              /\ c.symbol \in symbols /\ minutes[c.symbol] # {}
              /\ c.window = WindowOf[StageOf(m)]
              /\ c.mode = m /\ c.run = runs + 1
         /\ \A s \in symbols : minutes[s] # {} =>
              \E c \in Captured(m, minutes) : c.symbol = s /\ c.window = WindowOf[StageOf(m)]
<1>1. Captured(m, minutes) =
        {[symbol |-> s, window |-> WindowOf[StageOf(m)], minutes |-> minutes[s],
          mode |-> m, run |-> runs + 1] : s \in {t \in symbols : minutes[t] # {}}}
  BY DEF Captured
<1>2. WindowOf[StageOf(m)] \in Windows
  BY Modes
<1>3. \A s \in symbols : minutes[s] # {} =>
        [symbol |-> s, window |-> WindowOf[StageOf(m)], minutes |-> minutes[s],
         mode |-> m, run |-> runs + 1] \in Captured(m, minutes)
  BY <1>1
<1>4. Captured(m, minutes) \subseteq Captures
  BY <1>1, <1>2 DEF Captures
<1>5. \A c \in Captured(m, minutes) :
        /\ c.symbol \in symbols /\ minutes[c.symbol] # {}
        /\ c.window = WindowOf[StageOf(m)]
        /\ c.mode = m /\ c.run = runs + 1
  BY <1>1
<1>6. ASSUME NEW s \in symbols, minutes[s] # {}
      PROVE  \E c \in Captured(m, minutes) : c.symbol = s /\ c.window = WindowOf[StageOf(m)]
  BY <1>3, <1>6
<1> QED
  BY <1>4, <1>5, <1>6

LEMMA CapturedQualified ==
  ASSUME NEW m \in Mode, NEW symbols \in SUBSET Symbol,
         NEW minutes \in [symbols -> SUBSET Minute], runs + 1 \in Run
  PROVE  Qualified(Captured(m, minutes), StageWindows[StageOf(m)])
           = {s \in symbols : minutes[s] # {}}
BY CapturedFacts, Modes DEF Qualified

-----------------------------------------------------------------------------
(* One pass of mode m on a sound tree.                                     *)

LEMMA PriorIsSound ==
  ASSUME NEW tree, NEW n, Sound(tree, n), NEW m \in Mode
  PROVE  \/ /\ Prior(tree, m) = None /\ Refs(Prior(tree, m)) = {} /\ Missing(Prior(tree, m)) = {}
         \/ /\ Prior(tree, m) # None /\ PriorStage(m) \in Stage
            /\ Prior(tree, m) = tree.latest[PriorStage(m)]
            /\ Prior(tree, m) \in Snapshots
            /\ Exact(PriorStage(m), Prior(tree, m))
            /\ Refs(Prior(tree, m)) = Prior(tree, m).refs
            /\ Missing(Prior(tree, m)) = Prior(tree, m).missing
            /\ \A c \in Refs(Prior(tree, m)) : c.run <= n
<1>1. CASE Prior(tree, m) = None
  BY <1>1 DEF Refs, Missing
<1>2. CASE Prior(tree, m) # None
  <2>1. PriorStage(m) \in Stage /\ Prior(tree, m) = tree.latest[PriorStage(m)]
    BY <1>2, Modes DEF Prior
  <2>2. tree.latest[PriorStage(m)] \in Snapshots
    BY <1>2, <2>1 DEF Sound, Tree
  <2> QED
    BY <1>2, <2>1, <2>2 DEF Sound, Refs, Missing
<1> QED
  BY <1>1, <1>2

(* What a sound open snapshot leaves uncovered does not depend on whether  *)
(* later windows count, and it holds nothing of the close.                 *)
LEMMA OpenQualified ==
  ASSUME NEW s \in Stage \ {"close"}, NEW snap, Exact(s, snap), NEW ws
  PROVE  /\ StageWindows[s] \subseteq ws =>
              /\ Qualified(snap.refs, ws) = Qualified(snap.refs, StageWindows[s])
              /\ Qualified(snap.refs, ws) = {c.symbol : c \in snap.refs}
         /\ Qualified(snap.refs, StageWindows["close"]) = {}
<1>1. \A c \in snap.refs : c.window \in StageWindows[s]
  BY DEF Exact
<1>2. ASSUME StageWindows[s] \subseteq ws
      PROVE  /\ Qualified(snap.refs, ws) = Qualified(snap.refs, StageWindows[s])
             /\ Qualified(snap.refs, ws) = {c.symbol : c \in snap.refs}
  BY <1>1, <1>2 DEF Qualified
<1>3. StageWindows[s] \cap StageWindows["close"] = {}
  BY DEF StageWindows, Stage
<1>4. Qualified(snap.refs, StageWindows["close"]) = {}
  BY <1>1, <1>3 DEF Qualified
<1> QED
  BY <1>2, <1>4

(* The pass reports missing exactly what its snapshot leaves uncovered.    *)
MissingAfter(tree, m, minutes) ==
  SnapshotMissing(m, Prior(tree, m), Refs(Prior(tree, m)) \cup Captured(m, minutes),
                  {s \in Requested(tree, m) : minutes[s] = {}})

LEMMA PassMissing ==
  ASSUME NEW tree, NEW n, Sound(tree, n), NEW m \in Mode,
         NEW minutes \in [Requested(tree, m) -> SUBSET Minute], runs + 1 \in Run
  PROVE  MissingAfter(tree, m, minutes)
           = Universe(StageOf(m)) \ Qualified(Refs(Prior(tree, m)) \cup Captured(m, minutes),
                                              StageWindows[StageOf(m)])
<1> DEFINE symbols == Requested(tree, m)
           old == Refs(Prior(tree, m))
           new == Captured(m, minutes)
           ws == StageWindows[StageOf(m)]
           failed == {s \in symbols : minutes[s] = {}}
<1>1. /\ symbols \subseteq Universe(StageOf(m)) /\ symbols \in SUBSET Symbol
      /\ StageOf(m) \in Stage
  BY RequestedInScope, Modes, Universes
<1>2. Qualified(old \cup new, ws) = Qualified(old, ws) \cup {s \in symbols : minutes[s] # {}}
  <2>1. Qualified(new, ws) = {s \in symbols : minutes[s] # {}}
    BY <1>1, CapturedQualified
  <2> QED
    BY <2>1, QualifiedUnion
<1>3. CASE m \in {"open_15m", "close"}
  <2>1. /\ symbols = Universe(StageOf(m))
        /\ MissingAfter(tree, m, minutes) = failed
    BY <1>3 DEF Requested, MissingAfter, SnapshotMissing, Retries, Repair
  <2>2. Qualified(old, ws) = {}
    <3>1. CASE old = {}
      BY <3>1 DEF Qualified
    <3>2. CASE old # {}
      <4>1. /\ PriorStage(m) \in Stage /\ Exact(PriorStage(m), Prior(tree, m))
            /\ old = Prior(tree, m).refs
        BY <3>2, PriorIsSound
      <4>2. m = "close" /\ PriorStage(m) = "open_60m" /\ ws = StageWindows["close"]
        BY <1>3, <3>2, PriorIsSound, Modes DEF PriorStage, StageOf, Stage, Prior, Refs
      <4> QED
        BY <4>1, <4>2, OpenQualified DEF Stage
    <3> QED
      BY <3>1, <3>2
  <2> QED
    BY <1>2, <2>1, <2>2
<1>4. CASE m \in {"open_30m", "open_60m"}
  <2>1. MissingAfter(tree, m, minutes) = Universe(StageOf(m)) \ {c.symbol : c \in old \cup new}
    <3>1. StageOf(m) = m
      BY <1>4 DEF StageOf, Stage
    <3>2. MissingAfter(tree, m, minutes) = Universe(m) \ {c.symbol : c \in old \cup new}
      BY <1>4 DEF MissingAfter, SnapshotMissing, Retries, Repair
    <3> QED
      BY <3>1, <3>2
  <2>2. \A c \in old \cup new : c.window \in ws
    <3>1. \A c \in new : c.window \in ws
      BY <1>1, CapturedFacts, Modes
    <3>2. ASSUME NEW c \in old PROVE c.window \in ws
      <4>1. c.window \in StageWindows[PriorStage(m)]
        BY <1>4, PriorIsSound DEF Exact, PriorStage
      <4>2. StageWindows[PriorStage(m)] \subseteq ws
        BY <1>4 DEF PriorStage, StageWindows, StageOf, Stage
      <4> QED
        BY <4>1, <4>2
    <3> QED
      BY <3>1, <3>2
  <2>3. Qualified(old \cup new, ws) = {c.symbol : c \in old \cup new}
    BY <2>2 DEF Qualified
  <2> QED
    BY <2>1, <2>3
<1>5. CASE m = Repair
  BY <1>5 DEF MissingAfter, SnapshotMissing, StageOf, Repair, Stage, Retries
<1>6. CASE m \in Retries
  <2>1. StageOf(m) = "close" /\ PriorStage(m) = "close"
    BY <1>6 DEF StageOf, PriorStage, Retries, Stage
  <2>2. Prior(tree, m) = tree.latest["close"]
    BY <2>1, CycleAssumption DEF Prior, Mode, Stage
  <2>3. symbols = Universe("close") \ Qualified(old, ws)
    <3>1. Requested(tree, m) = RetrySymbols(tree)
      BY <1>6 DEF Requested, Retries, Repair
    <3> QED
      BY <2>1, <2>2, <3>1 DEF RetrySymbols
  <2>4. MissingAfter(tree, m, minutes)
          = (Missing(Prior(tree, m)) \ {c.symbol : c \in (old \cup new) \ old}) \cup failed
    BY <1>6 DEF MissingAfter, SnapshotMissing, Retries, Repair
  <2>5. Missing(Prior(tree, m)) \subseteq symbols
    <3>1. CASE Prior(tree, m) = None
      BY <3>1 DEF Missing
    <3>2. CASE Prior(tree, m) # None
      BY <2>1, <2>3, <3>2, PriorIsSound DEF Exact
    <3> QED
      BY <3>1, <3>2
  <2>6. {c.symbol : c \in (old \cup new) \ old} = {s \in symbols : minutes[s] # {}}
    <3>1. \A c \in new : /\ c.symbol \in symbols /\ minutes[c.symbol] # {}
                         /\ c.window \in ws
      BY <1>1, CapturedFacts, Modes
    <3>2. \A c \in new : c \notin old
      BY <2>3, <3>1 DEF Qualified
    <3>3. \A s \in symbols : minutes[s] # {} => \E c \in new : c.symbol = s
      BY <1>1, CapturedFacts
    <3> QED
      BY <3>1, <3>2, <3>3
  <2> QED
    BY <1>1, <1>2, <2>1, <2>3, <2>4, <2>5, <2>6
<1> QED
  BY <1>3, <1>4, <1>5, <1>6 DEF Mode, Stage, Retries, Repair

LEMMA PassCaptures ==
  ASSUME NEW tree, NEW n, Sound(tree, n), NEW m \in Mode,
         NEW minutes \in [Requested(tree, m) -> SUBSET Minute], runs + 1 \in Run
  PROVE  \A c \in Refs(Prior(tree, m)) \cup Captured(m, minutes) :
           /\ c \in Captures
           /\ c.symbol \in Universe(StageOf(m))
           /\ StageOf(m) # "close" => c.window \in StageWindows[StageOf(m)]
<1>1. /\ Requested(tree, m) \subseteq Universe(StageOf(m))
      /\ Requested(tree, m) \in SUBSET Symbol /\ StageOf(m) \in Stage
  BY RequestedInScope, Modes, Universes
<1>2. ASSUME NEW c \in Captured(m, minutes)
      PROVE  /\ c \in Captures /\ c.symbol \in Universe(StageOf(m))
             /\ c.window \in StageWindows[StageOf(m)]
  BY <1>1, CapturedFacts, Modes
<1>3. ASSUME NEW c \in Refs(Prior(tree, m))
      PROVE  /\ c \in Captures /\ c.symbol \in Universe(StageOf(m))
             /\ StageOf(m) # "close" => c.window \in StageWindows[StageOf(m)]
  <2>1. /\ PriorStage(m) \in Stage /\ Prior(tree, m) \in Snapshots
        /\ Exact(PriorStage(m), Prior(tree, m)) /\ c \in Prior(tree, m).refs
    BY <1>3, PriorIsSound
  <2>2. c \in Captures
    BY <2>1 DEF Snapshots
  <2>3. c.symbol \in Universe(PriorStage(m))
    BY <2>1 DEF Exact
  <2>4. Universe(PriorStage(m)) \subseteq Universe(StageOf(m))
    <3>1. CASE StageOf(m) = "close"
      BY <2>1, <3>1, Universes
    <3>2. CASE StageOf(m) # "close"
      <4>1. m \in Stage /\ m # "close" /\ StageOf(m) = m
        BY <1>1, <3>2, Modes
      <4>2. PriorStage(m) # "close"
        BY <4>1, CycleAssumption DEF PriorStage, Stage, Mode
      <4> QED
        BY <4>1, <4>2 DEF Universe
    <3> QED
      BY <3>1, <3>2
  <2>5. ASSUME StageOf(m) # "close" PROVE c.window \in StageWindows[StageOf(m)]
    <3>1. m \in {"open_30m", "open_60m"} /\ StageOf(m) = m
      BY <2>1, <2>5, CycleAssumption, Modes DEF StageOf, Stage, PriorStage, Mode, CloseModes, Repair, Retries
    <3>2. /\ PriorStage(m) # "close"
          /\ StageWindows[PriorStage(m)] \subseteq StageWindows[StageOf(m)]
      BY <3>1 DEF PriorStage, StageWindows
    <3> QED
      BY <2>1, <3>2 DEF Exact
  <2> QED
    BY <2>2, <2>3, <2>4, <2>5
<1> QED
  BY <1>2, <1>3

LEMMA PassAccepted ==
  ASSUME NEW tree, NEW n, Sound(tree, n), NEW m \in Mode,
         NEW minutes \in [Requested(tree, m) -> SUBSET Minute], runs + 1 \in Run
  PROVE  CoverageContract(m, Prior(tree, m), Refs(Prior(tree, m)) \cup Captured(m, minutes),
                          MissingAfter(tree, m, minutes))
<1> DEFINE prior == Prior(tree, m)
           ws == StageWindows[StageOf(m)]
<1>1. MissingAfter(tree, m, minutes)
        = Universe(StageOf(m)) \ Qualified(Refs(prior) \cup Captured(m, minutes), ws)
  BY PassMissing
<1>2. \A c \in Refs(prior) \cup Captured(m, minutes) : c.symbol \in Universe(StageOf(m))
  BY PassCaptures
<1>3. ASSUME m \in Retries \cup {Repair, "open_30m", "open_60m"}
      PROVE  /\ Missing(prior) \subseteq Universe(StageOf(m))
             /\ Missing(prior) \cap Qualified(Refs(prior), ws) = {}
  <2>1. CASE prior = None
    BY <2>1 DEF Missing
  <2>2. CASE prior # None
    <3>1. /\ PriorStage(m) \in Stage /\ Exact(PriorStage(m), prior)
          /\ Refs(prior) = prior.refs /\ Missing(prior) = prior.missing
      BY <2>2, PriorIsSound
    <3>2. /\ Missing(prior) \subseteq Universe(PriorStage(m))
          /\ Missing(prior) \cap Qualified(Refs(prior), StageWindows[PriorStage(m)]) = {}
      BY <3>1 DEF Exact
    <3>3. Universe(PriorStage(m)) = Universe(StageOf(m))
      BY <1>3 DEF Universe, PriorStage, StageOf, Stage, Retries, Repair
    <3>4. Qualified(Refs(prior), ws) = Qualified(Refs(prior), StageWindows[PriorStage(m)])
      <4>1. CASE m \in Retries \cup {Repair}
        <5>1. StageOf(m) = "close" /\ PriorStage(m) = "close"
          BY <4>1 DEF PriorStage, StageOf, Stage, Retries, Repair
        <5> QED
          BY <5>1
      <4>2. CASE m \in {"open_30m", "open_60m"}
        <5>1. /\ PriorStage(m) \in Stage \ {"close"}
              /\ StageWindows[PriorStage(m)] \subseteq StageWindows[StageOf(m)]
          BY <4>2 DEF PriorStage, StageOf, Stage, StageWindows
        <5> QED
          BY <3>1, <5>1, OpenQualified
      <4> QED
        BY <1>3, <4>1, <4>2
    <3> QED
      BY <3>2, <3>3, <3>4
  <2> QED
    BY <2>1, <2>2
<1> QED
  BY <1>1, <1>2, <1>3 DEF CoverageContract, Consistent

(* The tree after the pass is sound again.                                 *)
After(tree, m, minutes) ==
  Snapshot(CloseState(tree, m, MissingAfter(tree, m, minutes)), m, Captured(m, minutes),
           MissingAfter(tree, m, minutes))

LEMMA SoundLater ==
  ASSUME NEW tree, NEW n \in Nat, Sound(tree, n), n + 1 \in Run
  PROVE  Sound(tree, n + 1)
<1>1. ASSUME NEW s \in Stage, tree.latest[s] # None, NEW c \in tree.latest[s].refs
      PROVE  c.run <= n + 1
  <2>1. c.run <= n
    BY <1>1 DEF Sound
  <2>2. tree.latest[s] \in Snapshots
    BY <1>1 DEF Sound, Tree
  <2>3. c.run \in Nat
    BY <1>1, <2>2, CycleAssumption DEF Snapshots, Captures, Run
  <2> QED
    BY <2>1, <2>3
<1> QED
  BY <1>1 DEF Sound

LEMMA PassSound ==
  ASSUME NEW tree, Sound(tree, runs), runs \in Nat, runs + 1 \in Run, NEW m \in Mode,
         job \in Mode,
         NEW minutes \in [Requested(tree, m) -> SUBSET Minute]
  PROVE  /\ Sound(After(tree, m, minutes), runs + 1)
         /\ \A s \in Stage : s # StageOf(m) => After(tree, m, minutes).latest[s] = tree.latest[s]
         /\ After(tree, m, minutes).proved = tree.proved
         /\ \/ After(tree, m, minutes).latest = tree.latest
            \/ /\ After(tree, m, minutes).latest[StageOf(m)] # None
               /\ After(tree, m, minutes).latest[StageOf(m)].by = job
               /\ After(tree, m, minutes).latest[StageOf(m)].run = runs + 1
               /\ After(tree, m, minutes).latest[StageOf(m)].refs
                    = Refs(Prior(tree, m)) \cup Captured(m, minutes)
<1> DEFINE after == After(tree, m, minutes)
           missing == MissingAfter(tree, m, minutes)
           new == Captured(m, minutes)
           refs == Refs(Prior(tree, m)) \cup new
           s0 == StageOf(m)
           closed == CloseState(tree, m, missing)
           snap == [run |-> runs + 1, by |-> job, missing |-> missing, refs |-> refs]
<1>1. s0 \in Stage
  BY Modes
<1>2. after = IF new = {} THEN closed ELSE [closed EXCEPT !.latest[s0] = snap]
  <2>1. Prior(closed, m) = Prior(tree, m)
    BY DEF Prior, CloseState
  <2> QED
    BY <2>1 DEF After, Snapshot
<1>3. missing = Universe(s0) \ Qualified(refs, StageWindows[s0]) /\ missing \subseteq Symbol
  BY <1>1, PassMissing, Universes
<1>4. \A c \in refs : /\ c \in Captures /\ c.symbol \in Universe(s0)
                      /\ s0 # "close" => c.window \in StageWindows[s0]
  BY PassCaptures
<1>5. \A c \in refs : c.run <= runs + 1
  <2>1. ASSUME NEW c \in new PROVE c.run <= runs + 1
    <3>1. Requested(tree, m) \in SUBSET Symbol
      BY RequestedInScope, Universes, Modes
    <3> QED
      BY <3>1, CapturedFacts
  <2>2. ASSUME NEW c \in Refs(Prior(tree, m)) PROVE c.run <= runs + 1
    <3>1. c.run <= runs
      BY <2>2, PriorIsSound
    <3>2. c.run \in Nat
      BY <1>4, CycleAssumption DEF Captures, Run
    <3> QED
      BY <3>1, <3>2
  <2> QED
    BY <2>1, <2>2
<1> HIDE DEF missing, new, refs, s0
<1>6. snap \in Snapshots /\ snap # None
  BY <1>3, <1>4, NoneAssumption DEF Snapshots
<1>7. /\ closed \in Tree /\ closed.latest = tree.latest /\ closed.proved = tree.proved
  <2>1. tree \in Tree
    BY DEF Sound
  <2> QED
    BY <1>3, <2>1 DEF CloseState, Tree
<1> HIDE DEF after, closed, snap
<1>8. CASE new = {}
  <2>1. after \in Tree /\ after.latest = tree.latest /\ after.proved = tree.proved
    BY <1>7, <1>2, <1>8
  <2>2. Sound(tree, runs + 1)
    BY SoundLater
  <2>3. Sound(after, runs + 1)
    BY <2>1, <2>2 DEF Sound
  <2> QED
    BY <2>1, <2>3 DEF after, s0
<1>9. CASE new # {}
  <2>1. /\ after \in Tree
        /\ after.latest = [tree.latest EXCEPT ![s0] = snap]
        /\ after.proved = tree.proved
    BY <1>1, <1>6, <1>7, <1>2, <1>9 DEF Tree
  <2>2. tree.latest \in [Stage -> Snapshots \cup {None}]
    BY DEF Sound, Tree
  <2>3. /\ after.latest[s0] = snap
        /\ \A s \in Stage : s # s0 => after.latest[s] = tree.latest[s]
    BY <1>1, <2>1, <2>2
  <2>4. /\ snap.refs = refs /\ snap.by = job /\ snap.missing = missing /\ snap.run = runs + 1
        /\ snap.refs # {}
    BY <1>9 DEF snap, refs
  <2>5. Exact(s0, snap)
    BY <1>3, <1>4, <2>4 DEF Exact
  <2>6. Sound(tree, runs + 1)
    BY SoundLater
  <2>7. Sound(after, runs + 1)
    BY <1>5, <2>1, <2>3, <2>4, <2>5, <2>6 DEF Sound
  <2> QED
    BY <1>6, <2>1, <2>3, <2>4, <2>7 DEF after, s0, refs, new
<1> QED
  BY <1>8, <1>9

(* What a pass makes of the close: a retry does not collect what is there, *)
(* and what any pass collects is later than all there is.                  *)
LEMMA PassClose ==
  ASSUME NEW tree, Sound(tree, runs), runs \in Nat, runs + 1 \in Run, NEW m \in Mode,
         job = m, StageOf(m) = "close",
         NEW minutes \in [Requested(tree, m) -> SUBSET Minute],
         OnlyRepairs(Refs(tree.latest["close"]))
  PROVE  /\ Succeeds(tree.latest["close"], After(tree, m, minutes).latest["close"], m)
         /\ OnlyRepairs(Refs(After(tree, m, minutes).latest["close"]))
<1> DEFINE old == Refs(tree.latest["close"])
           prior == Refs(Prior(tree, m))
           new == Captured(m, minutes)
           close == After(tree, m, minutes).latest["close"]
<1>1. \/ close = tree.latest["close"]
      \/ close # None /\ close.by = m /\ Refs(close) = prior \cup new
  BY PassSound DEF Refs
<1>2. ASSUME close # None, close.by = m, Refs(close) = prior \cup new
      PROVE  Succeeds(tree.latest["close"], close, m) /\ OnlyRepairs(Refs(close))
  <2>1. \A c \in new : /\ c.symbol \in Requested(tree, m) /\ c.mode = m /\ c.run = runs + 1
    <3>1. Requested(tree, m) \in SUBSET Symbol
      BY RequestedInScope, Universes, Modes
    <3> QED
      BY <3>1, CapturedFacts
  <2>2. \A c \in prior : c.run <= runs /\ c.run \in Nat
    <3>1. ASSUME NEW c \in prior PROVE c \in Captures
      BY PassCaptures
    <3> QED
      BY <3>1, PriorIsSound, CycleAssumption DEF Captures, Run
  <2>3. CASE m = "close"
    <3>1. ASSUME NEW c \in prior PROVE c.window # "1545"
      <4>1. PriorStage(m) = "open_60m"
        BY <2>3 DEF PriorStage
      <4>2. c.window \in StageWindows["open_60m"]
        BY <3>1, <4>1, PriorIsSound DEF Exact
      <4> QED
        BY <4>2 DEF StageWindows
    <3>2. OneRun(Refs(close))
      BY <1>2, <2>1, <3>1 DEF OneRun
    <3>3. OnlyRepairs(Refs(close))
      BY <3>2 DEF OneRun, OnlyRepairs
    <3> QED
      BY <1>2, <2>3, <3>2, <3>3 DEF Succeeds, Retries
  <2>4. CASE m # "close"
    <3>1. m \in Retries \cup {Repair}
      BY <2>4, Modes DEF CloseModes, Retries
    <3>2. prior = old
      <4>1. Prior(tree, m) = tree.latest["close"]
        BY <3>1, CycleAssumption DEF Prior, PriorStage, Retries, Repair, Mode, Stage
      <4> QED
        BY <4>1
    <3>3. ASSUME m \in Retries, NEW c \in new
          PROVE  c.mode # Repair /\ c.symbol \notin Qualified(old, StageWindows["close"])
      <4>1. Requested(tree, m) = RetrySymbols(tree)
        BY <3>3 DEF Requested, Retries, Repair
      <4>2. c.symbol \in RetrySymbols(tree)
        BY <2>1, <3>3, <4>1
      <4> QED
        BY <2>1, <3>3, <4>2 DEF RetrySymbols, Retries, Repair
    <3>4. Succeeds(tree.latest["close"], close, m)
      BY <1>2, <2>4, <3>2, <3>3 DEF Succeeds
    <3>5. ASSUME NEW c \in Refs(close), NEW d \in Refs(close),
                 c.symbol = d.symbol, c.window = "1545", d.window = "1545", c.run < d.run
          PROVE  d.mode = Repair
      <4>1. CASE d \in new /\ m = Repair
        BY <2>1, <4>1
      <4>2. CASE d \in new /\ m \in Retries
        <5>1. c \in old
          BY <1>2, <2>1, <3>2, <3>5, <4>2
        <5>2. c.symbol \in Qualified(old, StageWindows["close"])
          BY <3>5, <5>1 DEF Qualified, StageWindows
        <5> QED
          BY <3>3, <3>5, <4>2, <5>2
      <4>3. CASE d \notin new
        <5>1. d \in old /\ d.run <= runs
          BY <1>2, <2>2, <3>2, <4>3
        <5>2. c \in old
          BY <1>2, <2>1, <2>2, <3>2, <3>5, <5>1
        <5> QED
          BY <3>5, <5>1, <5>2 DEF OnlyRepairs
      <4> QED
        BY <3>1, <4>1, <4>2, <4>3
    <3> QED
      BY <3>4, <3>5 DEF OnlyRepairs
  <2> QED
    BY <2>3, <2>4
<1>3. CASE close = tree.latest["close"]
  BY <1>3 DEF Succeeds
<1> QED
  BY <1>1, <1>2, <1>3

-----------------------------------------------------------------------------
(* The passes of a job.                                                    *)

LEMMA PassesBegin ==
  ASSUME NEW tree, NEW m \in Mode
  PROVE  /\ Append(Predecessors(tree, m), m) \in Seq(Mode)
         /\ Append(Predecessors(tree, m), m) # << >>
         /\ PassesOf(m, Append(Predecessors(tree, m), m))
<1> DEFINE before == Predecessors(tree, m)
           absent(s) == IF tree.latest[s] = None THEN << s >> ELSE << >>
           earlier == CASE m = "open_30m" -> {"open_15m"}
                        [] m = "open_60m" -> {"open_15m", "open_30m"}
                        [] OTHER          -> {}
<1>1. before \in Seq(earlier)
  <2>1. ASSUME NEW S, NEW s \in S PROVE absent(s) \in Seq(S)
    <3>1. << s >> \in Seq(S) /\ << >> \in Seq(S)
      OBVIOUS
    <3> QED
      BY <3>1
  <2> HIDE DEF absent
  <2>2. CASE m = "open_30m"
    <3>1. before = absent("open_15m") /\ earlier = {"open_15m"}
      BY <2>2 DEF Predecessors, absent
    <3> QED
      BY <2>1, <3>1
  <2>3. CASE m = "open_60m"
    <3>1. before = absent("open_15m") \o absent("open_30m")
      BY <2>3 DEF Predecessors, absent
    <3>2. "open_15m" \in earlier /\ "open_30m" \in earlier
      BY <2>3
    <3> HIDE DEF before, earlier
    <3>3. absent("open_15m") \in Seq(earlier) /\ absent("open_30m") \in Seq(earlier)
      BY <2>1, <3>2
    <3> QED
      BY <3>1, <3>3, ConcatProperties
  <2>4. CASE m \notin {"open_30m", "open_60m"}
    <3>1. before = << >>
      BY <2>4 DEF Predecessors
    <3> QED
      BY <3>1, EmptySeq
  <2> QED
    BY <2>2, <2>3, <2>4
<1>2. /\ earlier \subseteq Mode
      /\ \A s \in earlier :
           \/ m = "open_30m" /\ s = "open_15m"
           \/ m = "open_60m" /\ s \in {"open_15m", "open_30m"}
  BY DEF Mode, Stage
<1> HIDE DEF before, earlier
<1>3. Len(before) \in Nat /\ \A k \in 1 .. Len(before) : before[k] \in earlier
  BY <1>1
<1>4. /\ Append(before, m) \in Seq(Mode) /\ Len(Append(before, m)) = Len(before) + 1
      /\ Append(before, m)[Len(before) + 1] = m
      /\ \A k \in 1 .. Len(before) : Append(before, m)[k] = before[k]
  <2>1. before \in Seq(Mode)
    BY <1>1, <1>2, SeqMonotonic
  <2> QED
    BY <2>1
<1>5. Append(before, m) # << >>
  BY <1>3, <1>4, EmptySeq
<1>6. PassesOf(m, Append(before, m))
  BY <1>2, <1>3, <1>4 DEF PassesOf
<1> QED
  BY <1>4, <1>5, <1>6 DEF before

LEMMA PassesEnd ==
  ASSUME NEW m, NEW passes \in Seq(Mode), passes # << >>, PassesOf(m, passes)
  PROVE  /\ Head(passes) \in Mode /\ Len(passes) \in Nat /\ Len(passes) > 0
         /\ Tail(passes) \in Seq(Mode) /\ Len(Tail(passes)) = Len(passes) - 1
         /\ Tail(passes) = << >> <=> Len(passes) = 1
         /\ PassesOf(m, Tail(passes))
         /\ \/ Len(passes) = 1 /\ Head(passes) = m
            \/ m = "open_30m" /\ Head(passes) = "open_15m"
            \/ m = "open_60m" /\ Head(passes) \in {"open_15m", "open_30m"}
<1>1. /\ Len(passes) \in Nat /\ Len(passes) > 0
      /\ Head(passes) = passes[1] /\ Head(passes) \in Mode
      /\ Tail(passes) \in Seq(Mode) /\ Len(Tail(passes)) = Len(passes) - 1
      /\ \A k \in 1 .. Len(Tail(passes)) : Tail(passes)[k] = passes[k + 1]
  OBVIOUS
<1>2. Tail(passes) = << >> <=> Len(passes) = 1
  <2>1. CASE Tail(passes) = << >>
    <3>1. Len(Tail(passes)) = 0
      BY <2>1, EmptySeq
    <3> QED
      BY <1>1, <2>1, <3>1
  <2>2. CASE Tail(passes) # << >>
    <3>1. Len(Tail(passes)) > 0
      BY <1>1, <2>2
    <3> QED
      BY <1>1, <2>2, <3>1
  <2> QED
    BY <2>1, <2>2
<1>3. PassesOf(m, Tail(passes))
  BY <1>1 DEF PassesOf
<1> QED
  BY <1>1, <1>2, <1>3 DEF PassesOf

-----------------------------------------------------------------------------
(* The invariant.                                                          *)

LEMMA EmptyTreeSound ==
  /\ Sound(EmptyTree, 0) /\ \A n \in Nat : Sound(EmptyTree, n)
  /\ OnlyRepairs(Refs(EmptyTree.latest["close"]))
  /\ \A s \in ProofStages : Follows(EmptyTree, s)
BY DEF EmptyTree, Sound, Tree, Stage, OnlyRepairs, Refs, Follows, ProofStages

LEMMA InitHolds == Init => IInv
<1> SUFFICES ASSUME Init PROVE IInv
  OBVIOUS
<1>1. Slot
  BY CycleAssumption, EmptySeq DEF Init, Slot, PassesOf
<1>2. Trees /\ Proofs /\ Close /\ Ends
  BY EmptyTreeSound DEF Init, Trees, Proofs, Close, Ends, NeverRejected, AmbiguityComesFromRepair
<1> QED
  BY <1>1, <1>2 DEF IInv

(* A job that ends leaves the slot and its checkout.                       *)
LEMMA EndKeeps ==
  ASSUME IInv, NEW o, End(o), runs' = runs, Sound(store', runs),
         \A s \in ProofStages : Follows(store', s),
         OnlyRepairs(Refs(store'.latest["close"])), o # "rejected",
         o = "ambiguous" => \E c, d \in Refs(store'.latest["close"]) :
                              c.symbol = d.symbol /\ c.run < d.run /\ d.mode = Repair
  PROVE  IInv'
<1>1. /\ outcome' = [mode |-> job, result |-> o]
      /\ job' = None /\ todo' = << >> /\ step' = "idle" /\ work' = EmptyTree
  BY DEF End
<1>2. Slot'
  <2>1. runs \in Nat /\ runs <= MaxRuns
    BY CycleAssumption DEF IInv, Slot
  <2> QED
    BY <1>1, <2>1, CycleAssumption, EmptySeq DEF Slot, PassesOf
<1>3. Trees'
  BY <1>1, EmptyTreeSound DEF IInv, Slot, Trees
<1>4. Proofs' /\ Close'
  BY <1>1, EmptyTreeSound DEF Proofs, Close
<1>5. Ends'
  BY <1>1 DEF Ends, NeverRejected, AmbiguityComesFromRepair
<1> QED
  BY <1>2, <1>3, <1>4, <1>5 DEF IInv

LEMMA StartKeeps == ASSUME IInv, NEW m \in Requestable, Start(m) PROVE IInv'
<1> DEFINE passes == IF m \in Retries /\ RetrySymbols(store) = {}
                     THEN << >> ELSE Append(Predecessors(store, m), m)
<1>0. Consistent("close", store.latest["close"])
  <2>1. Sound(store, runs) /\ "close" \in Stage
    BY DEF IInv, Trees, Stage
  <2> QED
    BY <2>1 DEF Sound, Exact, Consistent, Missing, Refs
<1>1. /\ runs + Len(passes) <= MaxRuns
      /\ job' = m /\ work' = store /\ todo' = passes
      /\ step' = IF passes = << >> THEN "prove" ELSE "collect"
      /\ UNCHANGED <<store, runs, outcome>>
  BY <1>0 DEF Start
<1>2. m \in Mode /\ m # None
  BY CycleAssumption
<1>3. passes \in Seq(Mode) /\ PassesOf(m, passes)
  <2>1. CASE passes = << >>
    BY <2>1, EmptySeq DEF PassesOf
  <2>2. CASE passes # << >>
    BY <1>2, <2>2, PassesBegin
  <2> QED
    BY <2>1, <2>2
<1> HIDE DEF passes
<1>4. Slot'
  BY <1>1, <1>2, <1>3 DEF IInv, Slot
<1>5. Trees' /\ Proofs' /\ Close' /\ Ends'
  BY <1>1 DEF IInv, Trees, Proofs, Close, Ends, NeverRejected, AmbiguityComesFromRepair, Succeeds
<1> QED
  BY <1>4, <1>5 DEF IInv

LEMMA CollectKeeps == ASSUME IInv, Collect PROVE IInv'
<1> DEFINE m == Head(todo)
<1>1. /\ m \in Mode /\ Len(todo) \in Nat /\ Len(todo) > 0
      /\ Tail(todo) \in Seq(Mode) /\ Len(Tail(todo)) = Len(todo) - 1
      /\ Tail(todo) = << >> <=> Len(todo) = 1
      /\ PassesOf(job, Tail(todo))
      /\ \/ Len(todo) = 1 /\ m = job
         \/ job = "open_30m" /\ m = "open_15m"
         \/ job = "open_60m" /\ m \in {"open_15m", "open_30m"}
  BY PassesEnd DEF IInv, Slot, Collect
<1>2. /\ step = "collect" /\ job \in Mode /\ runs \in Nat /\ runs + 1 \in Run /\ Sound(work, runs)
      /\ runs + Len(todo) <= MaxRuns
  <2>1. step = "collect" /\ job \in Mode /\ runs \in Nat /\ runs + Len(todo) <= MaxRuns
    BY DEF IInv, Slot, Collect
  <2> QED
    BY <1>1, <2>1, CycleAssumption DEF IInv, Trees, Run
<1>3. PICK primary \in [Requested(work, m) -> Observable],
           alternate \in [Requested(work, m) -> Observable] :
        LET minutes == [s \in Requested(work, m) |-> Selected(m, primary[s], alternate[s])]
            new == Captured(m, minutes)
            missing == SnapshotMissing(m, Prior(work, m), Refs(Prior(work, m)) \cup new,
                                       {s \in Requested(work, m) : minutes[s] = {}})
        IN  \/ /\ CoverageContract(m, Prior(work, m), Refs(Prior(work, m)) \cup new, missing)
               /\ work' = Snapshot(CloseState(work, m, missing), m, new, missing)
               /\ todo' = Tail(todo)
               /\ step' = IF Len(todo) = 1 THEN "prove" ELSE "collect"
               /\ UNCHANGED <<job, outcome>>
            \/ /\ ~CoverageContract(m, Prior(work, m), Refs(Prior(work, m)) \cup new, missing)
               /\ End("rejected")
  BY DEF Collect
<1> DEFINE minutes == [s \in Requested(work, m) |-> Selected(m, primary[s], alternate[s])]
<1>4. minutes \in [Requested(work, m) -> SUBSET Minute]
  BY CycleAssumption DEF Selected
<1> HIDE DEF m
<1>5. CoverageContract(m, Prior(work, m), Refs(Prior(work, m)) \cup Captured(m, minutes),
                       MissingAfter(work, m, minutes))
  <2> HIDE DEF minutes
  <2> QED
    BY <1>1, <1>2, <1>4, PassAccepted
<1>6. /\ work' = After(work, m, minutes)
      /\ todo' = Tail(todo) /\ step' = IF Len(todo) = 1 THEN "prove" ELSE "collect"
      /\ UNCHANGED <<job, outcome>>
  BY <1>3, <1>5 DEF MissingAfter, After
<1> HIDE DEF minutes
<1>7. runs' = runs + 1 /\ store' = store
  BY DEF Collect
<1>8. /\ Sound(work', runs + 1)
      /\ \A s \in Stage : s # StageOf(m) => work'.latest[s] = work.latest[s]
      /\ work'.proved = work.proved
      /\ \/ work'.latest = work.latest
         \/ work'.latest[StageOf(m)] # None /\ work'.latest[StageOf(m)].by = job
  BY <1>1, <1>2, <1>4, <1>6, PassSound
<1>9. Slot'
  <2>1. runs + 1 + Len(Tail(todo)) <= MaxRuns
    BY <1>1, <1>2
  <2> QED
    BY <1>1, <1>2, <1>6, <1>7, <2>1 DEF IInv, Slot
<1>10. Trees'
  BY <1>2, <1>7, <1>8, SoundLater DEF IInv, Trees
<1>11. Proofs'
  <2> SUFFICES ASSUME NEW s \in ProofStages, s # ProofStageOf(job)
               PROVE  Follows(work', s)
    BY <1>2, <1>6, <1>7 DEF IInv, Proofs
  <2>1. s \in Stage /\ Follows(work, s)
    BY <1>2 DEF IInv, Proofs, ProofStages, Stage
  <2>2. CASE work'.latest[s] = work.latest[s]
    BY <1>8, <2>1, <2>2 DEF Follows
  <2>3. CASE s = StageOf(m) /\ work'.latest[s].by = job
    <3>1. CASE m = job
      <4>1. job = Repair
        BY <1>1, <2>3, <3>1 DEF ProofStages, ProofStageOf, StageOf, Mode, Stage, CloseModes, Repair, Retries
      <4> QED
        BY <2>3, <4>1 DEF Follows
    <3>2. CASE job = "open_30m" /\ m = "open_15m"
      BY <2>3, <3>2 DEF StageOf, Stage, ProofStages
    <3>3. CASE job = "open_60m" /\ m \in {"open_15m", "open_30m"}
      BY <2>3, <3>3 DEF StageOf, Stage, ProofStages, Follows
    <3> QED
      BY <1>1, <3>1, <3>2, <3>3
  <2> QED
    BY <1>8, <2>1, <2>2, <2>3
<1>12. Close'
  <2>1. /\ work.latest["close"] = store.latest["close"]
        /\ OnlyRepairs(Refs(work.latest["close"]))
    BY <1>2 DEF IInv, Close
  <2>2. CASE StageOf(m) = "close"
    <3>1. m = job /\ Len(todo) = 1
      BY <1>1, <2>2 DEF StageOf, Stage
    <3>2. /\ Succeeds(work.latest["close"], work'.latest["close"], job)
          /\ OnlyRepairs(Refs(work'.latest["close"]))
      BY <1>1, <1>2, <1>4, <1>6, <2>1, <2>2, <3>1, PassClose
    <3> QED
      BY <1>6, <1>7, <2>1, <3>1, <3>2 DEF IInv, Close
  <2>3. CASE StageOf(m) # "close"
    <3>1. work'.latest["close"] = work.latest["close"]
      BY <1>8, <2>3 DEF Stage
    <3> QED
      BY <1>7, <2>1, <3>1 DEF IInv, Close, Succeeds
  <2> QED
    BY <2>2, <2>3
<1>13. Ends'
  BY <1>6, <1>7 DEF IInv, Ends, NeverRejected, AmbiguityComesFromRepair
<1> QED
  BY <1>9, <1>10, <1>11, <1>12, <1>13 DEF IInv

(* The captures that make a checkout of a close unprovable were published  *)
(* before the job, and the later one is a repair's.                        *)
LEMMA AmbiguityWasThere ==
  ASSUME IInv, step = "prove", ProofStageOf(job) = "close",
         AmbiguousClose(Refs(work.latest["close"]))
  PROVE  \E c, d \in Refs(store.latest["close"]) :
           c.symbol = d.symbol /\ c.run < d.run /\ d.mode = Repair
<1> DEFINE old == Refs(store.latest["close"])
           now == Refs(work.latest["close"])
<1>1. PICK d \in now, c \in now :
        c.symbol = d.symbol /\ c.run < d.run /\ c.window = "1545" /\ d.window = "1545"
  <2>1. PICK d \in now :
          LET before == {c \in now : c.symbol = d.symbol /\ c.run < d.run /\ c.window = d.window}
              known == UNION {c.minutes : c \in before}
          IN  d.window \in StageWindows["close"] /\ known # {} /\ Max(known) \in d.minutes
    BY DEF AmbiguousClose
  <2>2. PICK c \in now : c.symbol = d.symbol /\ c.run < d.run /\ c.window = d.window
    BY <2>1
  <2> QED
    BY <2>1, <2>2 DEF StageWindows
<1>2. d.mode = Repair
  BY <1>1 DEF IInv, Close, OnlyRepairs
<1>3. job \in CloseModes
  BY DEF IInv, Slot, ProofStageOf, Mode, Stage, CloseModes, Retries, Repair
<1>4. Succeeds(store.latest["close"], work.latest["close"], job)
  BY DEF IInv, Close
<1>5. ~OneRun(now)
  BY <1>1 DEF OneRun
<1>6. CASE now = old
  BY <1>1, <1>2, <1>6
<1>7. CASE now # old
  <2>1. /\ job \in Retries
        /\ \A e \in now \ old :
             e.mode # Repair /\ e.symbol \notin Qualified(old, StageWindows["close"])
    BY <1>3, <1>4, <1>5, <1>7 DEF Succeeds, CloseModes, Retries
  <2>2. d \in old
    BY <1>1, <1>2, <2>1
  <2>3. d.symbol \in Qualified(old, StageWindows["close"])
    BY <1>1, <2>2 DEF Qualified, StageWindows
  <2>4. c \in old
    BY <1>1, <2>1, <2>3
  <2> QED
    BY <1>1, <1>2, <2>2, <2>4
<1> QED
  BY <1>6, <1>7

LEMMA BuildProofKeeps == ASSUME IInv, BuildProof PROVE IInv'
<1> DEFINE s == ProofStageOf(job)
<1>1. /\ step = "prove" /\ job \in Mode /\ store' = store /\ runs' = runs
      /\ Sound(store, runs) /\ Sound(work, runs) /\ runs \in Nat
      /\ \A p \in ProofStages : Follows(store, p)
      /\ OnlyRepairs(Refs(store.latest["close"]))
  BY DEF IInv, Slot, Trees, Proofs, Close, BuildProof
<1>2. CASE s \notin ProofStages /\ step' = "publish" /\ UNCHANGED <<work, job, todo, outcome>>
  <2>1. Proofs'
    BY <1>1, <1>2 DEF IInv, Proofs
  <2> QED
    BY <1>1, <1>2, <2>1
       DEF IInv, Slot, Trees, Close, Ends, NeverRejected, AmbiguityComesFromRepair
<1>3. CASE /\ s \in ProofStages /\ Provable(work, s)
           /\ work' = Prove(work, s) /\ step' = "publish"
           /\ UNCHANGED <<job, todo, outcome>>
  <2>1. /\ s \in Stage /\ work.latest[s] # None /\ work \in Tree
    BY <1>1, <1>3 DEF Provable, ProofStages, Stage, Sound
  <2>2. work.latest[s].run \in Run
    BY <2>1 DEF Tree, Snapshots
  <2>3. /\ work' \in Tree /\ work'.latest = work.latest
        /\ work'.proved = [work.proved EXCEPT ![s] = work.latest[s].run]
    BY <1>3, <2>1, <2>2 DEF Prove, Tree
  <2>4. /\ work'.proved[s] = work'.latest[s].run
        /\ \A p \in ProofStages : p # s => work'.proved[p] = work.proved[p]
    BY <2>1, <2>3 DEF Tree, ProofStages, Stage
  <2>5. Sound(work', runs)
    BY <1>1, <2>3 DEF Sound
  <2>6. \A p \in ProofStages : Follows(work', p)
    <3>1. \A p \in ProofStages : p # s => Follows(work, p)
      BY <1>1 DEF IInv, Proofs
    <3> QED
      BY <2>3, <2>4, <3>1 DEF Follows
  <2>7. Slot' /\ Trees'
    BY <1>1, <1>3, <2>5 DEF IInv, Slot, Trees
  <2>8. Proofs' /\ Close'
    BY <1>1, <1>3, <2>3, <2>6 DEF IInv, Proofs, Close
  <2> QED
    BY <1>1, <1>3, <2>7, <2>8 DEF IInv, Ends, NeverRejected, AmbiguityComesFromRepair
<1>4. CASE End("proof_unavailable")
  BY <1>1, <1>4, EndKeeps
<1>5. CASE s \in ProofStages /\ work.latest[s] # None /\ ~Provable(work, s) /\ End("ambiguous")
  <2>1. s = "close" /\ AmbiguousClose(Refs(work.latest["close"]))
    BY <1>5 DEF Provable
  <2>2. \E c, d \in Refs(store'.latest["close"]) :
          c.symbol = d.symbol /\ c.run < d.run /\ d.mode = Repair
    BY <1>1, <2>1, AmbiguityWasThere
  <2> QED
    BY <1>1, <1>5, <2>2, EndKeeps
<1> QED
  BY <1>2, <1>3, <1>4, <1>5 DEF BuildProof

LEMMA PublishKeeps == ASSUME IInv, Publish PROVE IInv'
<1>1. /\ store' = work /\ End("published") /\ runs' = runs /\ step = "publish"
  BY DEF Publish
<1>2. /\ Sound(work, runs) /\ OnlyRepairs(Refs(work.latest["close"]))
      /\ \A s \in ProofStages : Follows(work, s)
  BY <1>1 DEF IInv, Trees, Close, Proofs
<1> QED
  BY <1>1, <1>2, EndKeeps

LEMMA JobFailsKeeps == ASSUME IInv, JobFails PROVE IInv'
<1>1. End("failed") /\ store' = store /\ runs' = runs
  BY DEF JobFails
<1>2. /\ Sound(store, runs) /\ OnlyRepairs(Refs(store.latest["close"]))
      /\ \A s \in ProofStages : Follows(store, s)
  BY DEF IInv, Trees, Close, Proofs
<1> QED
  BY <1>1, <1>2, EndKeeps

THEOREM Invariant == Spec => []IInv
<1>1. Init => IInv
  BY InitHolds
<1>2. IInv /\ [Next]_vars => IInv'
  <2> SUFFICES ASSUME IInv, [Next]_vars PROVE IInv'
    OBVIOUS
  <2>1. CASE \E m \in Requestable : Start(m)
    BY <2>1, StartKeeps
  <2>2. CASE Collect
    BY <2>2, CollectKeeps
  <2>3. CASE BuildProof
    BY <2>3, BuildProofKeeps
  <2>4. CASE Publish
    BY <2>4, PublishKeeps
  <2>5. CASE JobFails
    BY <2>5, JobFailsKeeps
  <2>6. CASE UNCHANGED vars
    BY <2>6 DEF vars, IInv, Slot, Trees, Proofs, Close, Ends, NeverRejected,
                AmbiguityComesFromRepair
  <2> QED
    BY <2>1, <2>2, <2>3, <2>4, <2>5, <2>6 DEF Next
<1> QED
  BY <1>1, <1>2, PTL DEF Spec

-----------------------------------------------------------------------------
(* Materialised predecessors.                                              *)

Early == {"open_15m", "open_30m"}

(* The stage that builds on an early one.                                  *)
Successor == [open_15m |-> "open_30m", open_30m |-> "open_60m"]

(* A stage collected after the one before it inherits its captures.        *)
Inherits(tree) ==
  /\ \A s \in Stage : tree.latest[s] # None => tree.latest[s].run <= runs
  /\ \A s \in Early :
       LET p == tree.latest[s]
           q == tree.latest[Successor[s]]
       IN  p # None /\ q # None /\ q.run > p.run => p.refs \subseteq q.refs

(* An early stage materialised by a job goes with a snapshot of the job's  *)
(* stage, but for a job that may still collect it.                         *)
Accompanied(tree, pending) ==
  \A s \in Early :
    LET p == tree.latest[s]
    IN  p # None /\ p.by # s =>
          /\ p.by \in {"open_30m", "open_60m"}
          /\ PriorStage(p.by) = s => p.by = Successor[s]
          /\ tree.latest[p.by] # None \/ p.by = pending

Pending == IF step \in {"collect", "prove"} THEN job ELSE None

Materialised ==
  /\ Inherits(store) /\ Inherits(work)
  /\ Accompanied(store, None) /\ Accompanied(work, Pending)

LEMMA MaterialisedInit == Init => Materialised
BY DEF Init, EmptyTree, Materialised, Inherits, Accompanied, Early, Successor, Stage

(* A pass keeps it: what it writes is newer than all there is, and refers  *)
(* to all that the stage before it refers to.                              *)
LEMMA MaterialisedPass ==
  ASSUME IInv, Materialised, Collect, UNCHANGED job
  PROVE  Inherits(work)' /\ Accompanied(work', job)
<1> DEFINE m == Head(todo)
<1>1. /\ m \in Mode /\ Len(todo) \in Nat /\ Len(todo) > 0
      /\ \/ Len(todo) = 1 /\ m = job
         \/ job = "open_30m" /\ m = "open_15m"
         \/ job = "open_60m" /\ m \in {"open_15m", "open_30m"}
  BY PassesEnd DEF IInv, Slot, Collect
<1>2. /\ step = "collect" /\ job \in Mode /\ runs \in Nat /\ runs + 1 \in Run /\ Sound(work, runs)
      /\ runs' = runs + 1
  <2>1. step = "collect" /\ job \in Mode /\ runs \in Nat /\ runs + Len(todo) <= MaxRuns
        /\ runs' = runs + 1
    BY DEF IInv, Slot, Collect
  <2> QED
    BY <1>1, <2>1, CycleAssumption DEF IInv, Trees, Run
<1>3. PICK primary \in [Requested(work, m) -> Observable],
           alternate \in [Requested(work, m) -> Observable] :
        LET minutes == [s \in Requested(work, m) |-> Selected(m, primary[s], alternate[s])]
            new == Captured(m, minutes)
            missing == SnapshotMissing(m, Prior(work, m), Refs(Prior(work, m)) \cup new,
                                       {s \in Requested(work, m) : minutes[s] = {}})
        IN  \/ work' = Snapshot(CloseState(work, m, missing), m, new, missing)
            \/ End("rejected")
  BY DEF Collect
<1> DEFINE minutes == [s \in Requested(work, m) |-> Selected(m, primary[s], alternate[s])]
<1>4. minutes \in [Requested(work, m) -> SUBSET Minute]
  BY CycleAssumption DEF Selected
<1>5. ~End("rejected")
  BY <1>2, CycleAssumption DEF End
<1>6. work' = After(work, m, minutes)
  BY <1>3, <1>5 DEF MissingAfter, After
<1> HIDE DEF m, minutes
<1>7. /\ \A s \in Stage : s # StageOf(m) => work'.latest[s] = work.latest[s]
      /\ \/ work'.latest = work.latest
         \/ /\ work'.latest[StageOf(m)] # None
            /\ work'.latest[StageOf(m)].by = job
            /\ work'.latest[StageOf(m)].run = runs + 1
            /\ Refs(Prior(work, m)) \subseteq work'.latest[StageOf(m)].refs
  BY <1>1, <1>2, <1>4, <1>6, PassSound
<1>8. \A s \in Stage : work.latest[s] # None => work.latest[s].run \in Nat
  <2>1. \A s \in Stage : work.latest[s] # None => work.latest[s] \in Snapshots
    BY <1>2 DEF Sound, Tree
  <2> QED
    BY <2>1, CycleAssumption DEF Snapshots, Run
<1>9. Inherits(work) /\ Accompanied(work, job)
  BY <1>2 DEF Materialised, Pending
<1>10. CASE work'.latest = work.latest
  BY <1>2, <1>8, <1>9, <1>10 DEF Inherits, Accompanied, Early, Successor, Stage
<1>11. CASE /\ work'.latest[StageOf(m)] # None /\ work'.latest[StageOf(m)].by = job
            /\ work'.latest[StageOf(m)].run = runs + 1
            /\ Refs(Prior(work, m)) \subseteq work'.latest[StageOf(m)].refs
  <2>1. ASSUME NEW s \in Stage, work'.latest[s] # None  PROVE work'.latest[s].run <= runs + 1
    BY <1>2, <1>7, <1>8, <1>9, <1>11, <2>1 DEF Inherits
  <2>2. ASSUME NEW s \in Early, work'.latest[s] # None, work'.latest[Successor[s]] # None,
               work'.latest[Successor[s]].run > work'.latest[s].run
        PROVE  work'.latest[s].refs \subseteq work'.latest[Successor[s]].refs
    <3>1. s \in Stage /\ Successor[s] \in Stage /\ Successor[s] # s
      BY DEF Early, Successor, Stage
    <3>2. CASE StageOf(m) = s
      <4>1. /\ work'.latest[Successor[s]] = work.latest[Successor[s]]
            /\ work.latest[Successor[s]].run <= runs /\ work.latest[Successor[s]].run \in Nat
        BY <1>7, <1>8, <1>9, <2>2, <3>1, <3>2 DEF Inherits
      <4> QED
        BY <1>2, <1>11, <2>2, <3>2, <4>1
    <3>3. CASE StageOf(m) = Successor[s]
      <4>1. m = Successor[s] /\ PriorStage(m) = s
        BY <1>1, <3>3 DEF Early, Successor, StageOf, PriorStage, Stage
      <4>2. work'.latest[s] = work.latest[s] /\ Prior(work, m) = work.latest[s]
        BY <1>7, <3>1, <3>3, <4>1, CycleAssumption DEF Prior, Mode
      <4> QED
        BY <1>11, <2>2, <3>3, <4>2 DEF Refs
    <3>4. CASE StageOf(m) # s /\ StageOf(m) # Successor[s]
      BY <1>7, <1>9, <2>2, <3>1, <3>4 DEF Inherits
    <3> QED
      BY <3>2, <3>3, <3>4
  <2>3. ASSUME NEW s \in Early, work'.latest[s] # None, work'.latest[s].by # s
        PROVE  /\ work'.latest[s].by \in {"open_30m", "open_60m"}
               /\ PriorStage(work'.latest[s].by) = s => work'.latest[s].by = Successor[s]
               /\ work'.latest[work'.latest[s].by] # None \/ work'.latest[s].by = job
    <3>1. s \in Stage
      BY DEF Early, Stage
    <3>2. CASE StageOf(m) = s
      <4>1. job \in {"open_30m", "open_60m"} /\ work'.latest[s].by = job
        BY <1>1, <1>11, <2>3, <3>2 DEF Early, StageOf, Stage, Mode, Retries, Repair
      <4> QED
        BY <4>1 DEF PriorStage, Successor, Early
    <3>3. CASE StageOf(m) # s
      <4>1. work'.latest[s] = work.latest[s]
        BY <1>7, <3>1, <3>3
      <4>2. /\ work.latest[s].by \in {"open_30m", "open_60m"}
            /\ PriorStage(work.latest[s].by) = s => work.latest[s].by = Successor[s]
            /\ work.latest[work.latest[s].by] # None \/ work.latest[s].by = job
        BY <1>9, <2>3, <4>1 DEF Accompanied
      <4>3. work.latest[s].by \in Stage
        BY <4>2 DEF Stage
      <4> QED
        BY <1>7, <1>11, <4>1, <4>2, <4>3
    <3> QED
      BY <3>2, <3>3
  <2> QED
    BY <1>2, <2>1, <2>2, <2>3 DEF Inherits, Accompanied
<1> QED
  BY <1>7, <1>10, <1>11

LEMMA MaterialisedStep == IInv /\ Materialised /\ [Next]_vars => Materialised'
<1> SUFFICES ASSUME IInv, Materialised, [Next]_vars  PROVE Materialised'
  OBVIOUS
<1>1. Inherits(EmptyTree)' /\ Accompanied(EmptyTree, None)
  BY DEF EmptyTree, Inherits, Accompanied, Early, Successor, Stage
<1>2. ASSUME NEW o, End(o), UNCHANGED <<store, runs>>  PROVE Materialised'
  BY <1>1, <1>2 DEF End, Materialised, Inherits, Pending
<1>3. ASSUME NEW m \in Requestable, Start(m)  PROVE Materialised'
  <2>1. UNCHANGED <<store, runs>> /\ (UNCHANGED <<work, job, step>> \/ work' = store)
    BY <1>3 DEF Start
  <2>2. \A pending : Accompanied(store, pending)
    <3>1. None \notin {"open_30m", "open_60m"}
      BY CycleAssumption DEF Mode, Stage
    <3> QED
      BY <3>1 DEF Materialised, Accompanied
  <2> QED
    BY <2>1, <2>2 DEF Materialised, Inherits, Pending
<1>4. CASE Collect
  <2>1. /\ runs' = runs + 1 /\ store' = store /\ runs \in Nat /\ Sound(store, runs)
        /\ step = "collect"
    BY <1>4 DEF Collect, IInv, Slot, Trees
  <2>2. \A s \in Stage : store.latest[s] # None => store.latest[s].run \in Nat
    <3>1. \A s \in Stage : store.latest[s] # None => store.latest[s] \in Snapshots
      BY <2>1 DEF Sound, Tree
    <3> QED
      BY <3>1, CycleAssumption DEF Snapshots, Run
  <2>3. Inherits(store)' /\ Accompanied(store', None)
    BY <2>1, <2>2 DEF Materialised, Inherits
  <2>4. CASE UNCHANGED job /\ step' \in {"collect", "prove"}
    BY <1>4, <2>3, <2>4, MaterialisedPass DEF Materialised, Pending
  <2>5. CASE End("rejected")
    BY <1>1, <2>3, <2>5 DEF End, Materialised, Inherits, Pending
  <2> QED
    BY <1>4, <2>4, <2>5 DEF Collect
<1>5. CASE BuildProof
  <2> DEFINE s == ProofStageOf(job)
  <2>1. /\ step = "prove" /\ job \in Mode /\ UNCHANGED <<store, runs>>
        /\ Inherits(work) /\ Accompanied(work, job)
    BY <1>5 DEF BuildProof, IInv, Slot, Materialised, Pending
  <2>2. CASE /\ s \notin ProofStages \/ (s \in ProofStages /\ work.latest[s] # None)
             /\ work'.latest = work.latest /\ step' = "publish"
    <3>1. job \in {"open_30m", "open_60m"} => work.latest[job] # None
      BY <2>2 DEF ProofStageOf, ProofStages, CloseModes
    <3>2. Accompanied(work', None)
      BY <2>1, <2>2, <3>1 DEF Accompanied
    <3> QED
      BY <2>1, <2>2, <3>2 DEF Materialised, Inherits, Pending
  <2>3. CASE \E o \in {"proof_unavailable", "ambiguous"} : End(o)
    BY <1>2, <2>1, <2>3
  <2>4. Provable(work, s) => work.latest[s] # None
    BY DEF Provable
  <2>5. Prove(work, s).latest = work.latest
    <3>1. work \in Tree
      BY DEF IInv, Trees, Sound
    <3> QED
      BY <3>1 DEF Prove, Tree
  <2> QED
    BY <1>5, <2>2, <2>3, <2>4, <2>5 DEF BuildProof
<1>6. CASE Publish
  <2>1. store' = work /\ End("published") /\ runs' = runs /\ step = "publish"
    BY <1>6 DEF Publish
  <2>2. Accompanied(work, None)
    BY <2>1 DEF Materialised, Pending
  <2> QED
    BY <1>1, <2>1, <2>2 DEF End, Materialised, Inherits, Pending
<1>7. CASE JobFails
  BY <1>2, <1>7 DEF JobFails
<1>8. CASE UNCHANGED vars
  BY <1>8 DEF vars, Materialised, Inherits, Pending
<1> QED
  BY <1>3, <1>4, <1>5, <1>6, <1>7, <1>8 DEF Next

-----------------------------------------------------------------------------
(* The theorems.                                                           *)

(* The trees hold well-formed snapshots and the slot is held exactly while *)
(* a job runs, whatever modes are requested and whatever providers answer. *)
THEOREM TypeCorrect == Spec => []TypeOK
<1>1. IInv => TypeOK
  <2> SUFFICES ASSUME IInv PROVE TypeOK
    OBVIOUS
  <2>1. ASSUME NEW tree, Sound(tree, runs)
        PROVE  /\ \A s \in Stage : tree.latest[s] # None =>
                    /\ tree.latest[s].refs \subseteq Captures /\ tree.latest[s].refs # {}
                    /\ tree.latest[s].missing \subseteq Universe(s)
               /\ tree.closeMissing \in (SUBSET Symbol) \cup {None}
               /\ tree.proved \in [Stage -> Run \cup {None}]
    <3>1. tree \in Tree
      BY <2>1 DEF Sound
    <3>2. ASSUME NEW s \in Stage, tree.latest[s] # None
          PROVE  /\ tree.latest[s].refs \subseteq Captures /\ tree.latest[s].refs # {}
                 /\ tree.latest[s].missing \subseteq Universe(s)
      <4>1. tree.latest[s] \in Snapshots
        BY <3>1, <3>2 DEF Tree
      <4>2. Exact(s, tree.latest[s]) /\ tree.latest[s].refs # {}
        BY <2>1, <3>2 DEF Sound
      <4> QED
        BY <4>1, <4>2 DEF Snapshots, Exact
    <3> QED
      BY <3>1, <3>2 DEF Tree
  <2>2. /\ job \in Mode \cup {None} /\ (job = None <=> step = "idle")
        /\ step \in {"idle", "collect", "prove", "publish"}
        /\ todo # << >> <=> step = "collect"
    BY DEF IInv, Slot
  <2>3. runs \in 0 .. MaxRuns
    BY CycleAssumption DEF IInv, Slot
  <2> QED
    BY <2>1, <2>2, <2>3 DEF TypeOK, IInv, Trees
<1> QED
  BY <1>1, Invariant, PTL

(* No pass of any mode is ever refused by the coverage contract, whatever  *)
(* snapshots the passes before it left (_scope_coverage).                  *)
THEOREM PassesNeverRejected == Spec => []NeverRejected
<1>1. IInv => NeverRejected
  BY DEF IInv, Ends
<1> QED
  BY <1>1, Invariant, PTL

(* A close is unprovable only because a repair refreshed a symbol that was *)
(* there: neither stages nor retries collect what a snapshot has.          *)
THEOREM OnlyRepairsAreAmbiguous == Spec => []AmbiguityComesFromRepair
<1>1. IInv => AmbiguityComesFromRepair
  BY DEF IInv, Ends
<1> QED
  BY <1>1, Invariant, PTL

(* The latest proof of a stage is of its latest snapshot, but for repairs  *)
(* and materialised predecessors.                                          *)
THEOREM ProofsFollow == Spec => []ProofFollowsSnapshot
<1>1. IInv => ProofFollowsSnapshot
  BY DEF IInv, Proofs, Follows, ProofFollowsSnapshot
<1> QED
  BY <1>1, Invariant, PTL

(* Predecessors that a job materialised are never in the Store without the *)
(* stage that needed them, and are not lost by a stage collected later.    *)
THEOREM PredecessorsStay == Spec => []MaterialisedTogether
<1>1. Materialised => MaterialisedTogether
  <2> SUFFICES ASSUME Materialised, NEW s \in Early, store.latest[s] # None,
                      store.latest[s].by # s
               PROVE  LET p == store.latest[s]
                          q == store.latest[p.by]
                      IN  /\ q # None
                          /\ PriorStage(p.by) = s /\ q.run > p.run => p.refs \subseteq q.refs
    BY DEF MaterialisedTogether, Early
  <2>1. /\ store.latest[s].by \in {"open_30m", "open_60m"}
        /\ PriorStage(store.latest[s].by) = s => store.latest[s].by = Successor[s]
        /\ store.latest[store.latest[s].by] # None
    <3>1. Accompanied(store, None)
      BY DEF Materialised
    <3>2. None \notin {"open_30m", "open_60m"}
      BY CycleAssumption DEF Mode, Stage
    <3> QED
      BY <3>1, <3>2 DEF Accompanied
  <2> QED
    BY <2>1 DEF Materialised, Inherits
<1> QED
  BY <1>1, MaterialisedInit, MaterialisedStep, Invariant, PTL DEF Spec

(* Only a publication changes the Store, to what its job made of it.       *)
LEMMA CloseSucceeds ==
  ASSUME IInv, [Next]_vars, store'.latest["close"] # store.latest["close"]
  PROVE  Succeeds(store.latest["close"], store'.latest["close"], job)
<1>1. CASE Publish
  BY <1>1 DEF Publish, IInv, Close
<1> QED
  BY <1>1 DEF Next, vars, Start, Collect, BuildProof, JobFails

(* A retry or repair of the close only adds to the captures of the close.  *)
THEOREM RecoveryOnlyAdds == Spec => RecoveryKeepsFacts
<1> DEFINE Adds == store'.latest["close"] # store.latest["close"]
                   /\ store'.latest["close"].by # "close"
                   => Refs(store.latest["close"]) \subseteq Refs(store'.latest["close"])
<1>1. IInv /\ [Next]_vars => [Adds]_vars
  BY CloseSucceeds DEF Succeeds
<1> QED
  BY <1>1, Invariant, PTL DEF Spec, RecoveryKeepsFacts

(* A retry leaves every fully covered symbol of the close fully covered.   *)
THEOREM RetriesOnlyImprove == Spec => RetriesKeepCoverage
<1> DEFINE Keeps == store'.latest["close"] # store.latest["close"]
                    /\ store'.latest["close"].by \in Retries
                    => CoveredAtClose(store.latest["close"])
                         \subseteq CoveredAtClose(store'.latest["close"])
<1>1. ASSUME NEW old, NEW now, Refs(old) \subseteq Refs(now),
             \A c \in Refs(now) \ Refs(old) :
               c.symbol \notin Qualified(Refs(old), StageWindows["close"])
      PROVE  CoveredAtClose(old) \subseteq CoveredAtClose(now)
  <2> DEFINE Of(snap, s, w, t) ==
               {c \in Refs(snap) : c.symbol = s /\ c.window = w /\ t \in c.minutes}
  <2> SUFFICES ASSUME NEW s \in CoveredAtClose(old),
                      NEW w \in StageWindows["close"], NEW t \in Minute
               PROVE  Cardinality(Of(now, s, w, t)) = 1
    BY DEF CoveredAtClose, FullWindow
  <2>1. Cardinality(Of(old, s, w, t)) = 1
    BY DEF CoveredAtClose, FullWindow
  <2>2. Of(old, s, w, t) # {}
    BY <2>1, FS_EmptySet
  <2>3. s \in Qualified(Refs(old), StageWindows["close"])
    BY <2>2 DEF Qualified
  <2>4. Of(now, s, w, t) = Of(old, s, w, t)
    BY <1>1, <2>3
  <2> QED
    BY <2>1, <2>4
<1>2. IInv /\ [Next]_vars => [Keeps]_vars
  <2> SUFFICES ASSUME IInv, [Next]_vars, store'.latest["close"] # store.latest["close"],
                      store'.latest["close"].by \in Retries
               PROVE  CoveredAtClose(store.latest["close"])
                        \subseteq CoveredAtClose(store'.latest["close"])
    OBVIOUS
  <2>1. Succeeds(store.latest["close"], store'.latest["close"], job)
    BY CloseSucceeds
  <2> QED
    BY <1>1, <2>1 DEF Succeeds, Retries
<1> QED
  BY <1>2, Invariant, PTL DEF Spec, RetriesKeepCoverage
=============================================================================
