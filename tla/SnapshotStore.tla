---------------------------- MODULE SnapshotStore ----------------------------
(***************************************************************************)
(* The captures and snapshots of one trade date under all their other      *)
(* writers: the premarket collector (premarket_collection), the replay of  *)
(* a probe file (replay_premarket_probe) and the requests for dynamic      *)
(* candidates (collect_dynamic_candidates), over write_capture and         *)
(* write_snapshot of market_data_store.                                    *)
(*                                                                         *)
(* Each job works on its own checkout; its commit is rebased over what     *)
(* others published, file by file.  Queued jobs do not overlap, but a      *)
(* local executor and a runner that was lost do not respect the queue, so  *)
(* here any jobs may.  (The inventory, which every job rewrites, makes     *)
(* still more rebases fail.)                                               *)
(*                                                                         *)
(* A blob identity stands for the document it is of.  Identifiers of live  *)
(* passes hold the time of day only, so that passes for one trade date on  *)
(* different days can meet; those of a replay hold the probe's identity.   *)
(***************************************************************************)
EXTENDS Naturals, FiniteSets

CONSTANTS Job,       \* jobs; a request keeps its identity when it is run again
          Kind,      \* the kind of each job
          Wanted,    \* the symbols each job asks for
          Facts,     \* the answers of a provider about one symbol
          Probe,     \* the probe files, [at, facts]
          Day,       \* the length of a day
          MaxTime,   \* bound: the clock
          MaxPasses, \* bound: the passes of all jobs
          None, Conflict

ASSUME StoreAssumption ==
  /\ Kind \in [Job -> {"live", "replay", "request"}]
  /\ Day \in Nat \ {0} /\ MaxTime \in Nat /\ MaxPasses \in Nat
  /\ \A p \in Probe : p.at \in Nat
  /\ None \notin Facts

VARIABLES store,    \* the published tree: see EmptyTree
          base,     \* the tree each job checked out
          work,     \* the tree each job makes
          pc,       \* "idle", "fetch" or "publish"
          pass,     \* what the job's pass has so far: see NoPass
          now, passes

vars == <<store, base, work, pc, pass, now, passes>>

Stage == {"premarket", "discovery"}
StageOf(j) == IF Kind[j] = "request" THEN "discovery" ELSE "premarket"
TimeOfDay == now % Day

(* latest: the snapshot each latest.json points to; state: the result file *)
(* of the latest request; manifests: the outputs each request declared.    *)
(* A file is the set of its content, empty if there is no such file.       *)
EmptyTree == [captures |-> {}, snapshots |-> {}, latest |-> [s \in Stage |-> {}],
              state |-> {}, manifests |-> [j \in Job |-> {}]]

NoPass == [number |-> 0, started |-> 0, todo |-> {}, refs |-> {}, missing |-> {}]

-----------------------------------------------------------------------------
(* market_data_store                                                       *)

(* Fault form: the document that is there is replaced.                     *)
NeverConflicts(docs, doc) == TRUE

(* A path is free, or holds this very document.                            *)
Writable(docs, doc) == \A d \in docs : d.path = doc.path => d = doc

(* Fault form: the pointer moves whenever a snapshot is written.           *)
AlwaysMoves(tree, s, doc) == TRUE

(* latest.json moves to a strictly newer snapshot.                         *)
Moves(tree, s, doc) == \A l \in tree.latest[s] : l.at < doc.at

(* MarketDataConflict: the path holds another document, or the latest      *)
(* snapshot is another one of the same time.                               *)
SnapshotConflict(tree, s, doc) ==
  \/ ~Writable(tree.snapshots, doc)
  \/ \E l \in tree.latest[s] : l.at = doc.at /\ l.path # doc.path

WriteCapture(tree, doc) == [tree EXCEPT !.captures = @ \cup {doc}]

WriteSnapshot(tree, s, doc) ==
  [tree EXCEPT !.snapshots = @ \cup {doc},
               !.latest = IF Moves(tree, s, doc) THEN [@ EXCEPT ![s] = {doc}] ELSE @]

-----------------------------------------------------------------------------
(* Jobs.                                                                   *)

Init ==
  /\ store = EmptyTree
  /\ base = [j \in Job |-> EmptyTree] /\ work = [j \in Job |-> EmptyTree]
  /\ pc = [j \in Job |-> "idle"] /\ pass = [j \in Job |-> NoPass]
  /\ now = 0 /\ passes = 0

End(j) ==
  /\ pc' = [pc EXCEPT ![j] = "idle"]
  /\ pass' = [pass EXCEPT ![j] = NoPass]
  /\ base' = [base EXCEPT ![j] = EmptyTree] /\ work' = [work EXCEPT ![j] = EmptyTree]

Start(j) ==
  /\ pc[j] = "idle" /\ passes < MaxPasses
  /\ base' = [base EXCEPT ![j] = store] /\ work' = [work EXCEPT ![j] = store]
  /\ pass' = [pass EXCEPT ![j] = 
       [number |-> passes + 1, started |-> now, todo |-> Wanted[j], refs |-> {}, missing |-> {}]]
  /\ pc' = [pc EXCEPT ![j] = "fetch"]
  /\ passes' = passes + 1
  /\ UNCHANGED <<store, now>>

(* The premarket endpoint only answers for the current day.                *)
Answers(j) == IF Kind[j] = "live" /\ now >= Day THEN {None} ELSE Facts \cup {None}

Capture(j, s, facts) ==
  [path |-> <<Kind[j], s, TimeOfDay>>, at |-> pass[j].started, facts |-> facts]

Having(j, s, doc) == [pass[j] EXCEPT !.todo = @ \ {s}, !.refs = @ \cup {doc}]
Lacking(j, s) == [pass[j] EXCEPT !.todo = @ \ {s}, !.missing = @ \cup {s}]

(* One symbol of a live pass: fetched, qualified and captured.  In the     *)
(* premarket a conflict makes the symbol missing; in the regular window it *)
(* fails the job.                                                          *)
FetchSymbol(j) ==
  /\ pc[j] = "fetch"
  /\ \E s \in pass[j].todo : \E facts \in Answers(j) :
       LET doc == Capture(j, s, facts)
           fits == facts # None /\ Writable(work[j].captures, doc)
       IN  \/ /\ fits
              /\ work' = [work EXCEPT ![j] = WriteCapture(@, doc)]
              /\ pass' = [pass EXCEPT ![j] = Having(j, s, doc)]
              /\ UNCHANGED <<pc, base>>
           \/ /\ ~fits /\ (facts = None \/ Kind[j] = "live")
              /\ pass' = [pass EXCEPT ![j] = Lacking(j, s)]
              /\ UNCHANGED <<pc, base, work>>
           \/ /\ ~fits /\ facts # None /\ Kind[j] # "live"
              /\ End(j)
  /\ UNCHANGED <<store, now, passes>>

(* The premarket snapshot carries the time its pass started, that of a     *)
(* regular window the time it is written.                                  *)
LiveSnapshot(j) ==
  [path |-> <<Kind[j], TimeOfDay>>, refs |-> pass[j].refs, missing |-> pass[j].missing,
   at |-> IF Kind[j] = "live" THEN pass[j].started ELSE now]

WithSnapshot(j, tree) ==
  IF pass[j].refs = {} THEN tree ELSE WriteSnapshot(tree, StageOf(j), LiveSnapshot(j))

(* collect_request: the state file of the stage, stamped to be like no     *)
(* other, and a manifest of the request that pins it and the snapshot.     *)
Result(j) == [of |-> j, number |-> pass[j].number, missing |-> pass[j].missing]

Manifest(j) == [state |-> Result(j),
                snapshots |-> IF pass[j].refs = {} THEN {} ELSE {LiveSnapshot(j)}]

WithResult(j, tree) ==
  IF Kind[j] # "request" THEN tree
  ELSE [tree EXCEPT !.state = {Result(j)}, !.manifests = [@ EXCEPT ![j] = {Manifest(j)}]]

FinishPass(j) ==
  /\ pc[j] = "fetch" /\ Kind[j] # "replay" /\ pass[j].todo = {}
  /\ IF pass[j].refs # {} /\ SnapshotConflict(work[j], StageOf(j), LiveSnapshot(j))
     THEN End(j)
     ELSE /\ work' = [work EXCEPT ![j] = WithResult(j, WithSnapshot(j, @))]
          /\ pc' = [pc EXCEPT ![j] = "publish"]
          /\ UNCHANGED <<base, pass>>
  /\ UNCHANGED <<store, now, passes>>

(* replay_probe: the probe has to have qualified every wanted symbol; its  *)
(* captures and its snapshot carry the time of the probe.                  *)
ReplayCaptures(j, p) ==
  {[path |-> <<"replay", s, p>>, at |-> p.at, facts |-> p.facts[s]] : s \in Wanted[j]}

ReplaySnapshot(j, p) ==
  [path |-> <<"replay", p>>, refs |-> ReplayCaptures(j, p), missing |-> {}, at |-> p.at]

Replay(j, p) ==
  /\ pc[j] = "fetch" /\ Kind[j] = "replay"
  /\ LET doc == ReplaySnapshot(j, p)
         captured == [work[j] EXCEPT !.captures = @ \cup doc.refs]
     IN  IF /\ DOMAIN p.facts = Wanted[j] /\ \A s \in Wanted[j] : p.facts[s] \in Facts
            /\ \A c \in doc.refs : Writable(work[j].captures, c)
            /\ ~SnapshotConflict(work[j], "premarket", doc)
         THEN /\ work' = [work EXCEPT ![j] = WriteSnapshot(captured, "premarket", doc)]
              /\ pc' = [pc EXCEPT ![j] = "publish"]
              /\ UNCHANGED <<base, pass>>
         ELSE End(j)
  /\ UNCHANGED <<store, now, passes>>

-----------------------------------------------------------------------------
(* The rebase of a job's commit onto main, and its push.                   *)

(* Fault form: where both sides changed a file, that of main is kept.      *)
TheirsWins(mine, old, theirs) == IF theirs = old THEN mine ELSE theirs

(* A file that only one side changed, or both in the same way.             *)
MergeFile(mine, old, theirs) ==
  IF mine = old THEN theirs
  ELSE IF theirs = old \/ mine = theirs THEN mine
  ELSE Conflict

Merged(mine, old, theirs) ==
  [captures  |-> mine.captures \cup theirs.captures,
   snapshots |-> mine.snapshots \cup theirs.snapshots,
   latest    |-> [s \in Stage |-> MergeFile(mine.latest[s], old.latest[s], theirs.latest[s])],
   state     |-> MergeFile(mine.state, old.state, theirs.state),
   manifests |-> [j \in Job |->
                    MergeFile(mine.manifests[j], old.manifests[j], theirs.manifests[j])]]

Rebases(mine, old, theirs) ==
  LET merged == Merged(mine, old, theirs)
  IN  /\ \A d \in mine.captures \ old.captures : Writable(theirs.captures, d)
      /\ \A d \in mine.snapshots \ old.snapshots : Writable(theirs.snapshots, d)
      /\ \A s \in Stage : merged.latest[s] # Conflict
      /\ merged.state # Conflict
      /\ \A j \in Job : merged.manifests[j] # Conflict

Publish(j) ==
  /\ pc[j] = "publish"
  /\ store' = IF Rebases(work[j], base[j], store) THEN Merged(work[j], base[j], store)
              ELSE store
  /\ End(j)
  /\ UNCHANGED <<now, passes>>

(* A lost runner, an exception.                                            *)
JobFails(j) ==
  /\ pc[j] # "idle"
  /\ End(j)
  /\ UNCHANGED <<store, now, passes>>

Tick ==
  /\ now < MaxTime
  /\ now' = now + 1
  /\ UNCHANGED <<store, base, work, pc, pass, passes>>

Next ==
  \/ \E j \in Job : \/ Start(j) \/ FinishPass(j) \/ Publish(j) \/ JobFails(j)
                    \/ Kind[j] # "replay" /\ FetchSymbol(j)
                    \/ \E p \in Probe : Replay(j, p)
  \/ Tick

Spec == Init /\ [][Next]_vars

-----------------------------------------------------------------------------
(* Properties.                                                             *)

(* The snapshots of a stage, by the writers that their paths name.         *)
Of(tree, s) == {d \in tree.snapshots : d.path[1] = "request" <=> s = "discovery"}

Newest(tree) ==
  \A s \in Stage :
    /\ tree.latest[s] \subseteq Of(tree, s)
    /\ \A d \in Of(tree, s) : tree.latest[s] # {}
    /\ \A l \in tree.latest[s] : \A d \in Of(tree, s) : d = l \/ d.at < l.at

(* A consumer that follows latest.json gets the newest snapshot of the     *)
(* stage, and there is one newest: whichever order passes, replays of      *)
(* older probes and their rebases come in.                                 *)
LatestIsNewest == Newest(store)

(* Every capture a published snapshot refers to is there, and its path     *)
(* holds exactly the content that the reference pins.                      *)
RefsResolve ==
  \A d \in store.snapshots : \A c \in d.refs :
    {e \in store.captures : e.path = c.path} = {c}

(* The commit that publishes a request's manifest holds the very outputs   *)
(* the manifest pins, also when it was rebased over other writers.         *)
ManifestPinsItsOutputs ==
  [][\A j \in Job : store'.manifests[j] # store.manifests[j] =>
       \A m \in store'.manifests[j] :
         store'.state = {m.state} /\ m.snapshots \subseteq store'.snapshots]_vars

(* Published documents stay, and the pointers only move forward.           *)
Documents == INSTANCE DocumentStore WITH
  docs <- store.captures \cup store.snapshots, latest <- store.latest

RefinesDocumentStore == Documents!DSpec
=============================================================================
