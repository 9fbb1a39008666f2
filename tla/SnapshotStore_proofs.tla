------------------------- MODULE SnapshotStore_proofs -------------------------
(***************************************************************************)
(* What SnapshotStore promises, for all jobs, requests, probes, facts and  *)
(* lengths of the clock.                                                   *)
(*                                                                         *)
(* Every tree (published, checked out, being made) is in order, and a job  *)
(* only adds documents to the tree it checked out, which is part of what   *)
(* is published.  That is enough for the three-way merge: whichever side   *)
(* moved a pointer, the other side's pointer was at a document it knows.   *)
(***************************************************************************)
EXTENDS SnapshotStore, TLAPS

IsTree(t) ==
  /\ t = [captures |-> t.captures, snapshots |-> t.snapshots, latest |-> t.latest,
          state |-> t.state, manifests |-> t.manifests]
  /\ t.latest = [s \in Stage |-> t.latest[s]]
  /\ t.manifests = [j \in Job |-> t.manifests[j]]

UniquePaths(docs) == \A d, e \in docs : d.path = e.path => d = e

(* Captures have paths of three parts, snapshots of two.                   *)
CaptureDoc(d) == (\E k, s, x : d.path = <<k, s, x>>) /\ d.at \in Nat
SnapshotDoc(d) == (\E k, x : d.path = <<k, x>>) /\ d.at \in Nat

(* The pointer of a set of snapshots is at its one newest element.         *)
Leads(l, docs) ==
  /\ l \subseteq docs
  /\ docs # {} => l # {}
  /\ \A m \in l : \A d \in docs : d = m \/ d.at < m.at

InOrder(t) ==
  /\ IsTree(t)
  /\ \A d \in t.captures : CaptureDoc(d)
  /\ \A d \in t.snapshots : SnapshotDoc(d) /\ d.refs \subseteq t.captures
  /\ UniquePaths(t.captures) /\ UniquePaths(t.snapshots)
  /\ \A s \in Stage : Leads(t.latest[s], Of(t, s))

(* A job adds to its checkout, which is part of what is published.         *)
Adds(old, mine, theirs) ==
  /\ old.captures \subseteq mine.captures /\ old.captures \subseteq theirs.captures
  /\ old.snapshots \subseteq mine.snapshots /\ old.snapshots \subseteq theirs.snapshots

(* A job has not touched the result and the manifests of its checkout, or  *)
(* it wrote a new result and the manifest that pins it.                    *)
Untouched(j) == work[j].state = base[j].state /\ work[j].manifests = base[j].manifests

Pinned(j) == \E m :
  /\ work[j].state = {m.state} /\ m.snapshots \subseteq work[j].snapshots
  /\ work[j].state # base[j].state
  /\ work[j].manifests = [base[j].manifests EXCEPT ![j] = {m}]

(* Results are numbered by passes.                                         *)
UpTo(state, n) == \A r \in state : r.number \in Nat /\ r.number <= n

IsPass(p) == p = [number |-> p.number, started |-> p.started, todo |-> p.todo,
                  refs |-> p.refs, missing |-> p.missing]

JobInv(j) ==
  /\ InOrder(base[j]) /\ InOrder(work[j])
  /\ Adds(base[j], work[j], store)
  /\ UpTo(work[j].state, passes)
  /\ pc[j] # "idle" => /\ pass[j].number \in Nat /\ pass[j].number <= passes
                       /\ pass[j].started \in Nat /\ IsPass(pass[j])
                       /\ UpTo(base[j].state, pass[j].number - 1)
                       /\ pass[j].refs \subseteq work[j].captures
  /\ pc[j] \in {"idle", "fetch"} => Untouched(j)
  /\ pc[j] = "publish" => Untouched(j) \/ Pinned(j)

IInv ==
  /\ now \in Nat /\ passes \in Nat
  /\ pc = [j \in Job |-> pc[j]] /\ pass = [j \in Job |-> pass[j]]
  /\ base = [j \in Job |-> base[j]] /\ work = [j \in Job |-> work[j]]
  /\ \A j \in Job : pc[j] \in {"idle", "fetch", "publish"}
  /\ InOrder(store) /\ UpTo(store.state, passes)
  /\ \A j \in Job : JobInv(j)

-----------------------------------------------------------------------------
(* Operators.                                                              *)

(* Two newest-pointers, one of which is at a document of the other side.   *)
LEMMA LeadsUnion ==
  ASSUME NEW A, NEW B, NEW l, NEW m, Leads(l, A), Leads(m, B), m \subseteq A,
         \A d \in A \cup B : d.at \in Nat
  PROVE  Leads(l, A \cup B)
<1>1. \A a \in l : \A d \in B : d = a \/ d.at < a.at
  <2> SUFFICES ASSUME NEW a \in l, NEW d \in B  PROVE d = a \/ d.at < a.at
    OBVIOUS
  <2>1. PICK q \in m : d = q \/ d.at < q.at
    BY DEF Leads
  <2>2. q = a \/ q.at < a.at
    BY DEF Leads
  <2>3. a.at \in Nat /\ d.at \in Nat /\ q.at \in Nat
    BY DEF Leads
  <2> QED
    BY <2>1, <2>2, <2>3
<1> QED
  BY <1>1 DEF Leads

(* A pointer that leads is at one document at most.                        *)
LEMMA LeadsOne ==
  ASSUME NEW A, NEW l, Leads(l, A), \A d \in A : d.at \in Nat, NEW a \in l
  PROVE  l = {a}
BY DEF Leads

LEMMA CapturesInOrder ==
  ASSUME NEW t, InOrder(t), NEW new, \A d \in new : CaptureDoc(d) /\ Writable(t.captures, d),
         UniquePaths(new),
         NEW u, u = [t EXCEPT !.captures = t.captures \cup new]
  PROVE  /\ InOrder(u)
         /\ u.captures = t.captures \cup new
         /\ u.snapshots = t.snapshots /\ u.latest = t.latest
         /\ u.state = t.state /\ u.manifests = t.manifests
<1>1. u = [captures |-> t.captures \cup new, snapshots |-> t.snapshots,
           latest |-> t.latest, state |-> t.state, manifests |-> t.manifests]
  <2>1. IsTree(t)
    BY DEF InOrder
  <2> QED
    BY <2>1 DEF IsTree
<1>2. UniquePaths(u.captures)
  BY <1>1 DEF InOrder, UniquePaths, Writable
<1>3. \A s \in Stage : Of(u, s) = Of(t, s)
  BY <1>1 DEF Of
<1> QED
  BY <1>1, <1>2, <1>3 DEF InOrder, IsTree

LEMMA WriteSnapshotInOrder ==
  ASSUME NEW t, InOrder(t), NEW s \in Stage, NEW doc, SnapshotDoc(doc),
         doc.refs \subseteq t.captures, doc.path[1] = "request" <=> s = "discovery",
         ~SnapshotConflict(t, s, doc)
  PROVE  /\ InOrder(WriteSnapshot(t, s, doc))
         /\ WriteSnapshot(t, s, doc).captures = t.captures
         /\ WriteSnapshot(t, s, doc).snapshots = t.snapshots \cup {doc}
         /\ WriteSnapshot(t, s, doc).state = t.state
         /\ WriteSnapshot(t, s, doc).manifests = t.manifests
<1> DEFINE u == WriteSnapshot(t, s, doc)
           new == IF Moves(t, s, doc) THEN [t.latest EXCEPT ![s] = {doc}] ELSE t.latest
<1>1. u = [captures |-> t.captures, snapshots |-> t.snapshots \cup {doc},
           latest |-> new, state |-> t.state, manifests |-> t.manifests]
  <2>1. t = [captures |-> t.captures, snapshots |-> t.snapshots, latest |-> t.latest,
             state |-> t.state, manifests |-> t.manifests]
    BY DEF InOrder, IsTree
  <2>2. u = [t EXCEPT !.snapshots = t.snapshots \cup {doc}, !.latest = new]
    BY Zenon DEF WriteSnapshot
  <2> HIDE DEF u, new
  <2> QED
    BY <2>1, <2>2
<1>2. /\ new = [q \in Stage |-> new[q]]
      /\ new[s] = IF Moves(t, s, doc) THEN {doc} ELSE t.latest[s]
      /\ \A q \in Stage \ {s} : new[q] = t.latest[q]
  BY DEF InOrder, IsTree
<1>3. UniquePaths(u.snapshots)
  BY <1>1 DEF InOrder, UniquePaths, SnapshotConflict, Writable
<1>4. Of(u, s) = Of(t, s) \cup {doc}
  BY <1>1 DEF Of
<1>5. \A q \in Stage \ {s} : Of(u, q) = Of(t, q)
  BY <1>1 DEF Of, Stage
<1>6. Leads(t.latest[s], Of(t, s)) /\ \A d \in Of(t, s) : d.at \in Nat
  BY DEF InOrder, Of, SnapshotDoc
<1>7. doc.at \in Nat
  BY DEF SnapshotDoc
<1>8. Leads(new[s], Of(u, s))
  <2>1. CASE Moves(t, s, doc)
    <3>1. \A d \in Of(t, s) : d.at < doc.at
      <4> SUFFICES ASSUME NEW d \in Of(t, s)  PROVE d.at < doc.at
        OBVIOUS
      <4>1. PICK l \in t.latest[s] : l \in Of(t, s) /\ (d = l \/ d.at < l.at)
        BY <1>6 DEF Leads
      <4>2. l.at < doc.at
        BY <2>1 DEF Moves
      <4> QED
        BY <4>1, <4>2, <1>6, <1>7
    <3> QED
      BY <1>2, <1>4, <2>1, <3>1 DEF Leads
  <2>2. CASE ~Moves(t, s, doc)
    <3>1. PICK l \in t.latest[s] : ~(l.at < doc.at)
      BY <2>2 DEF Moves
    <3>2. l \in Of(t, s) /\ l \in t.snapshots /\ l.at \in Nat
      BY <1>6, <3>1 DEF Leads, Of
    <3>3. l.at = doc.at => l = doc
      BY <3>1, <3>2 DEF SnapshotConflict, Writable
    <3>4. doc = l \/ doc.at < l.at
      BY <3>1, <3>2, <3>3, <1>7
    <3>5. t.latest[s] = {l}
      BY <1>6, LeadsOne
    <3> QED
      BY <1>2, <1>4, <1>6, <2>2, <3>4, <3>5 DEF Leads
  <2> QED
    BY <2>1, <2>2
<1>9. ASSUME NEW q \in Stage  PROVE Leads(u.latest[q], Of(u, q))
  <2>1. u.latest = new
    BY <1>1
  <2>2. CASE q = s
    BY <1>8, <2>1, <2>2
  <2>3. CASE q # s
    <3>1. Leads(t.latest[q], Of(t, q))
      BY DEF InOrder
    <3>2. new[q] = t.latest[q] /\ Of(u, q) = Of(t, q)
      BY <1>2, <1>5, <2>3
    <3> QED
      BY <2>1, <3>1, <3>2
  <2> QED
    BY <2>2, <2>3
<1>10. IsTree(u)
  BY <1>1, <1>2 DEF InOrder, IsTree
<1>11. \A d \in u.snapshots : SnapshotDoc(d) /\ d.refs \subseteq u.captures
  BY <1>1 DEF InOrder
<1> QED
  <2>1. /\ u.captures = t.captures /\ u.snapshots = t.snapshots \cup {doc}
        /\ u.state = t.state /\ u.manifests = t.manifests
    BY <1>1
  <2>2. (\A d \in u.captures : CaptureDoc(d)) /\ UniquePaths(u.captures)
    BY <2>1 DEF InOrder
  <2>3. InOrder(u)
    BY <1>3, <1>9, <1>10, <1>11, <2>2 DEF InOrder
  <2> HIDE DEF u
  <2> QED
    BY <2>1, <2>3 DEF u

LEMMA WritableKeepsUnique ==
  ASSUME NEW mine, NEW old, NEW theirs, UniquePaths(mine), UniquePaths(theirs),
         old \subseteq theirs, \A d \in mine \ old : Writable(theirs, d)
  PROVE  UniquePaths(mine \cup theirs)
BY DEF UniquePaths, Writable

(* What a successful rebase makes of a file.                               *)
LEMMA MergeFileOutcome ==
  ASSUME NEW mine, NEW old, NEW theirs, MergeFile(mine, old, theirs) # Conflict
  PROVE  \/ mine = old /\ MergeFile(mine, old, theirs) = theirs
         \/ (theirs = old \/ theirs = mine) /\ MergeFile(mine, old, theirs) = mine
BY DEF MergeFile

(* The pointers of the two sides lead to the pointer of the merge.         *)
LEMMA MergeLeads ==
  ASSUME NEW mine, NEW old, NEW theirs, InOrder(mine), InOrder(old), InOrder(theirs),
         Adds(old, mine, theirs), NEW s \in Stage,
         MergeFile(mine.latest[s], old.latest[s], theirs.latest[s]) # Conflict
  PROVE  Leads(MergeFile(mine.latest[s], old.latest[s], theirs.latest[s]),
               Of(mine, s) \cup Of(theirs, s))
<1> DEFINE l == MergeFile(mine.latest[s], old.latest[s], theirs.latest[s])
<1>1. /\ Leads(mine.latest[s], Of(mine, s)) /\ Leads(old.latest[s], Of(old, s))
      /\ Leads(theirs.latest[s], Of(theirs, s))
  BY DEF InOrder
<1>2. Of(old, s) \subseteq Of(mine, s) /\ Of(old, s) \subseteq Of(theirs, s)
  BY DEF Adds, Of
<1>3. \A d \in Of(mine, s) \cup Of(theirs, s) : d.at \in Nat
  BY DEF InOrder, Of, SnapshotDoc
<1>4. old.latest[s] \subseteq Of(mine, s) /\ old.latest[s] \subseteq Of(theirs, s)
  BY <1>1, <1>2 DEF Leads
<1>5. CASE mine.latest[s] = old.latest[s] /\ l = theirs.latest[s]
  BY <1>1, <1>3, <1>4, <1>5, LeadsUnion
<1>6. CASE (theirs.latest[s] = old.latest[s] \/ theirs.latest[s] = mine.latest[s])
           /\ l = mine.latest[s]
  <2>1. theirs.latest[s] \subseteq Of(mine, s)
    BY <1>1, <1>4, <1>6 DEF Leads
  <2> QED
    BY <1>1, <1>3, <1>6, <2>1, LeadsUnion
<1> QED
  BY <1>5, <1>6, MergeFileOutcome

LEMMA MergeInOrder ==
  ASSUME NEW mine, NEW old, NEW theirs, InOrder(mine), InOrder(old), InOrder(theirs),
         Adds(old, mine, theirs), Rebases(mine, old, theirs)
  PROVE  InOrder(Merged(mine, old, theirs))
<1> DEFINE u == Merged(mine, old, theirs)
<1>1. /\ u.captures = mine.captures \cup theirs.captures
      /\ u.snapshots = mine.snapshots \cup theirs.snapshots
  BY DEF Merged
<1>2. IsTree(u)
  BY DEF Merged, IsTree
<1>3. UniquePaths(u.captures) /\ UniquePaths(u.snapshots)
  <2>1. UniquePaths(mine.captures \cup theirs.captures)
    BY WritableKeepsUnique DEF InOrder, Rebases, Adds
  <2>2. UniquePaths(mine.snapshots \cup theirs.snapshots)
    BY WritableKeepsUnique DEF InOrder, Rebases, Adds
  <2> QED
    BY <1>1, <2>1, <2>2
<1>4. \A d \in u.captures : CaptureDoc(d)
  BY <1>1 DEF InOrder
<1>5. \A d \in u.snapshots : SnapshotDoc(d) /\ d.refs \subseteq u.captures
  BY <1>1 DEF InOrder
<1>6. ASSUME NEW s \in Stage  PROVE Leads(u.latest[s], Of(u, s))
  <2>1. u.latest[s] = MergeFile(mine.latest[s], old.latest[s], theirs.latest[s])
    BY DEF Merged
  <2>2. u.latest[s] # Conflict
    BY DEF Rebases
  <2>3. Of(u, s) = Of(mine, s) \cup Of(theirs, s)
    BY <1>1 DEF Of
  <2> QED
    BY <2>1, <2>2, <2>3, MergeLeads
<1> HIDE DEF u
<1>7. InOrder(u)
  BY <1>2, <1>3, <1>4, <1>5, <1>6 DEF InOrder
<1> QED
  BY <1>7 DEF u

LEMMA EmptyTreeInOrder == InOrder(EmptyTree)
<1> DEFINE l == [s \in Stage |-> {}]
           m == [j \in Job |-> {}]
<1>1. IsTree(EmptyTree)
  <2>1. l = [s \in Stage |-> l[s]] /\ m = [j \in Job |-> m[j]]
    OBVIOUS
  <2>2. EmptyTree = [captures |-> {}, snapshots |-> {}, latest |-> l, state |-> {},
                     manifests |-> m]
    BY DEF EmptyTree
  <2> HIDE DEF l, m
  <2> QED
    BY <2>1, <2>2 DEF IsTree
<1>2. /\ EmptyTree.captures = {} /\ EmptyTree.snapshots = {}
      /\ \A s \in Stage : EmptyTree.latest[s] = {}
  BY DEF EmptyTree
<1>3. \A s \in Stage : Of(EmptyTree, s) = {}
  BY <1>2 DEF Of
<1> QED
  BY <1>1, <1>2, <1>3 DEF InOrder, UniquePaths, Leads

-----------------------------------------------------------------------------
(* Steps.                                                                  *)

LEMMA InitEstablishes == Init => IInv
<1> SUFFICES ASSUME Init  PROVE IInv
  OBVIOUS
<1>1. store = EmptyTree /\ store.state = {} /\ EmptyTree.state = {}
  BY DEF Init, EmptyTree
<1>2. ASSUME NEW j \in Job
      PROVE  base[j] = EmptyTree /\ work[j] = EmptyTree /\ pc[j] = "idle"
  BY DEF Init
<1>3. ASSUME NEW j \in Job  PROVE JobInv(j)
  BY <1>1, <1>2, EmptyTreeInOrder DEF JobInv, Adds, UpTo, Untouched
<1>4. /\ now \in Nat /\ passes \in Nat
      /\ pc = [j \in Job |-> pc[j]] /\ pass = [j \in Job |-> pass[j]]
      /\ base = [j \in Job |-> base[j]] /\ work = [j \in Job |-> work[j]]
  BY DEF Init
<1> QED
  BY <1>1, <1>2, <1>3, <1>4, EmptyTreeInOrder DEF IInv, UpTo

(* A step that changes the state of one job only.                          *)
StepOf(j) ==
  /\ \A k \in Job \ {j} : /\ base'[k] = base[k] /\ work'[k] = work[k]
                          /\ pc'[k] = pc[k] /\ pass'[k] = pass[k]
  /\ pc' = [k \in Job |-> pc'[k]] /\ pass' = [k \in Job |-> pass'[k]]
  /\ base' = [k \in Job |-> base'[k]] /\ work' = [k \in Job |-> work'[k]]

(* The other jobs stay as they are while main and the clock go on.         *)
LEMMA OthersKeep ==
  ASSUME IInv, NEW j \in Job, StepOf(j), NEW k \in Job, k # j,
         store.captures \subseteq store'.captures, store.snapshots \subseteq store'.snapshots,
         passes' \in Nat, passes <= passes'
  PROVE  JobInv(k)'
<1>1. JobInv(k) /\ passes \in Nat
  BY DEF IInv
<1>2. base'[k] = base[k] /\ work'[k] = work[k] /\ pc'[k] = pc[k] /\ pass'[k] = pass[k]
  BY DEF StepOf
<1>3. InOrder(base[k])' /\ InOrder(work[k])'
  BY <1>1, <1>2 DEF JobInv
<1>4. Adds(base[k], work[k], store)'
  BY <1>1, <1>2 DEF JobInv, Adds
<1>5. UpTo(work[k].state, passes)'
  BY <1>1, <1>2 DEF JobInv, UpTo
<1>6. (pc[k] # "idle" => /\ pass[k].number \in Nat /\ pass[k].number <= passes
                         /\ pass[k].started \in Nat /\ IsPass(pass[k])
                         /\ UpTo(base[k].state, pass[k].number - 1)
                         /\ pass[k].refs \subseteq work[k].captures)'
  BY <1>1, <1>2 DEF JobInv, UpTo
<1>7. /\ (pc[k] \in {"idle", "fetch"} => Untouched(k))'
      /\ (pc[k] = "publish" => Untouched(k) \/ Pinned(k))'
  BY <1>1, <1>2 DEF JobInv, Untouched, Pinned
<1> QED
  BY <1>3, <1>4, <1>5, <1>6, <1>7 DEF JobInv

(* A job that ends leaves nothing behind.                                  *)
LEMMA EndKeeps ==
  ASSUME IInv, NEW j \in Job, End(j)
  PROVE  StepOf(j) /\ JobInv(j)' /\ \A k \in Job : pc'[k] \in {"idle", "fetch", "publish"}
<1>1. StepOf(j)
  BY DEF IInv, End, StepOf
<1>2. pc'[j] = "idle" /\ base'[j] = EmptyTree /\ work'[j] = EmptyTree
  BY DEF IInv, End
<1>3. EmptyTree.captures = {} /\ EmptyTree.snapshots = {} /\ EmptyTree.state = {}
  BY DEF EmptyTree
<1>4. JobInv(j)'
  BY <1>2, <1>3, EmptyTreeInOrder DEF JobInv, Adds, UpTo, Untouched
<1>5. \A k \in Job : pc'[k] \in {"idle", "fetch", "publish"}
  BY <1>1, <1>2 DEF IInv, StepOf
<1> QED
  BY <1>1, <1>4, <1>5

(* What a step of one job has to show.                                     *)
LEMMA StepKeeps ==
  ASSUME IInv, NEW j \in Job, StepOf(j), JobInv(j)',
         pc'[j] \in {"idle", "fetch", "publish"},
         now' = now, passes' \in Nat, passes <= passes',
         store.captures \subseteq store'.captures, store.snapshots \subseteq store'.snapshots,
         InOrder(store'), UpTo(store'.state, passes')
  PROVE  IInv'
<1>1. \A k \in Job : JobInv(k)'
  BY OthersKeep
<1>2. \A k \in Job : pc'[k] \in {"idle", "fetch", "publish"}
  BY DEF IInv, StepOf
<1> QED
  BY <1>1, <1>2 DEF IInv, StepOf

LEMMA StartKeeps == ASSUME IInv, NEW j \in Job, Start(j)  PROVE IInv'
<1>1. /\ StepOf(j) /\ pc'[j] = "fetch" /\ base'[j] = store /\ work'[j] = store
      /\ pass'[j] = [number |-> passes + 1, started |-> now, todo |-> Wanted[j],
                     refs |-> {}, missing |-> {}]
      /\ store' = store /\ now' = now /\ passes' = passes + 1
  BY DEF Start, IInv, StepOf
<1>2. /\ passes \in Nat /\ now \in Nat /\ InOrder(store) /\ UpTo(store.state, passes)
  BY DEF IInv
<1>3. /\ pass'[j].number = passes + 1 /\ pass'[j].started = now /\ pass'[j].refs = {}
      /\ IsPass(pass'[j])
  BY <1>1 DEF IsPass
<1>4. UpTo(store.state, passes + 1) /\ UpTo(store.state, pass'[j].number - 1)
  BY <1>2, <1>3 DEF UpTo
<1>5. JobInv(j)'
  BY <1>1, <1>2, <1>3, <1>4 DEF JobInv, Adds, Untouched
<1> QED
  BY <1>1, <1>2, <1>4, <1>5, StepKeeps

LEMMA EndingKeeps ==
  ASSUME IInv, NEW j \in Job, End(j), UNCHANGED <<store, now, passes>>
  PROVE  IInv'
<1>1. InOrder(store') /\ UpTo(store'.state, passes') /\ passes' \in Nat /\ passes <= passes'
  BY DEF IInv
<1> QED
  BY <1>1, EndKeeps, StepKeeps

(* A pass goes on with a tree it added to.                                 *)
LEMMA WorkKeeps ==
  ASSUME IInv, NEW j \in Job, StepOf(j), UNCHANGED <<store, now, passes>>,
         pc[j] = "fetch", pc'[j] \in {"fetch", "publish"}, base'[j] = base[j],
         InOrder(work'[j]), work[j].captures \subseteq work'[j].captures,
         work[j].snapshots \subseteq work'[j].snapshots, UpTo(work'[j].state, passes),
         pass'[j].number = pass[j].number, pass'[j].started = pass[j].started,
         IsPass(pass'[j]), pass'[j].refs \subseteq work'[j].captures,
         Untouched(j)' \/ (pc'[j] = "publish" /\ Pinned(j)')
  PROVE  IInv'
<1>1. JobInv(j) /\ passes \in Nat
  BY DEF IInv
<1>2. Adds(base[j], work[j], store)'
  BY <1>1 DEF JobInv, Adds
<1>3. JobInv(j)'
  BY <1>1, <1>2 DEF JobInv
<1>4. InOrder(store') /\ UpTo(store'.state, passes') /\ passes' \in Nat /\ passes <= passes'
  BY DEF IInv
<1> QED
  BY <1>3, <1>4, StepKeeps

LEMMA FetchSymbolKeeps == ASSUME IInv, NEW j \in Job, FetchSymbol(j)  PROVE IInv'
<1>1. PICK s \in pass[j].todo, facts \in Answers(j) :
        LET doc == Capture(j, s, facts)
            fits == facts # None /\ Writable(work[j].captures, doc)
        IN  \/ /\ fits
               /\ work' = [work EXCEPT ![j] = WriteCapture(@, doc)]
               /\ pass' = [pass EXCEPT ![j] = Having(j, s, doc)]
               /\ UNCHANGED <<pc, base>>
            \/ /\ ~fits /\ (facts = None \/ Kind[j] = "live")
               /\ pass' = [pass EXCEPT ![j] = Lacking(j, s)]
               /\ UNCHANGED <<pc, base, work>>
            \/ /\ ~fits /\ facts # None /\ Kind[j] # "live"
               /\ End(j)
  BY Zenon DEF FetchSymbol
<1> DEFINE doc == Capture(j, s, facts)
<1>2. pc[j] = "fetch" /\ UNCHANGED <<store, now, passes>>
  BY DEF FetchSymbol
<1>3. JobInv(j) /\ IsPass(pass[j]) /\ pass[j].started \in Nat
      /\ pass[j].refs \subseteq work[j].captures /\ InOrder(work[j]) /\ Untouched(j)
      /\ UpTo(work[j].state, passes)
  BY <1>2 DEF IInv, JobInv
<1>f. /\ pc = [k \in Job |-> pc[k]] /\ pass = [k \in Job |-> pass[k]]
      /\ base = [k \in Job |-> base[k]] /\ work = [k \in Job |-> work[k]]
  BY DEF IInv
<1>4. CASE /\ Writable(work[j].captures, doc)
           /\ work' = [work EXCEPT ![j] = WriteCapture(@, doc)]
           /\ pass' = [pass EXCEPT ![j] = Having(j, s, doc)]
           /\ UNCHANGED <<pc, base>>
  <2> DEFINE next == Having(j, s, doc)
             tree == WriteCapture(work[j], doc)
  <2>0. pass' = [pass EXCEPT ![j] = next] /\ work' = [work EXCEPT ![j] = tree]
    BY <1>4, Zenon
  <2>u. pc' = pc /\ base' = base
    BY <1>4
  <2>n. next = [pass[j] EXCEPT !.todo = pass[j].todo \ {s}, !.refs = pass[j].refs \cup {doc}]
    BY Zenon DEF Having
  <2>t. tree = WriteCapture(work[j], doc)
    OBVIOUS
  <2> HIDE DEF next, tree, doc
  <2>1. StepOf(j) /\ base'[j] = base[j] /\ pc'[j] = "fetch" /\ work'[j] = tree /\ pass'[j] = next
    BY <1>2, <1>f, <2>0, <2>u DEF StepOf
  <2>2. CaptureDoc(doc)
    BY <1>3 DEF CaptureDoc, Capture, doc
  <2>3. work'[j] = [work[j] EXCEPT !.captures = work[j].captures \cup {doc}]
    BY <2>1, <2>t DEF WriteCapture
  <2>4. UniquePaths({doc})
    BY DEF UniquePaths
  <2>5. /\ InOrder(work'[j])
        /\ work'[j].captures = work[j].captures \cup {doc}
        /\ work'[j].snapshots = work[j].snapshots
        /\ work'[j].state = work[j].state /\ work'[j].manifests = work[j].manifests
    BY <1>3, <1>4, <2>2, <2>3, <2>4, CapturesInOrder
  <2>6. /\ IsPass(pass'[j]) /\ pass'[j].number = pass[j].number
        /\ pass'[j].started = pass[j].started /\ pass'[j].refs = pass[j].refs \cup {doc}
    <3>1. IsPass(pass[j])
      BY <1>3
    <3> QED
      BY <2>1, <2>n, <3>1 DEF IsPass
  <2>7. Untouched(j)'
    BY <1>3, <2>1, <2>5 DEF Untouched
  <2> QED
    BY <1>2, <1>3, <2>1, <2>5, <2>6, <2>7, WorkKeeps
<1>5. CASE /\ pass' = [pass EXCEPT ![j] = Lacking(j, s)]
           /\ UNCHANGED <<pc, base, work>>
  <2> DEFINE next == Lacking(j, s)
  <2>0. pass' = [pass EXCEPT ![j] = next]
    BY <1>5, Zenon
  <2>u. pc' = pc /\ base' = base /\ work' = work
    BY <1>5
  <2>n. next = [pass[j] EXCEPT !.todo = pass[j].todo \ {s}, !.missing = pass[j].missing \cup {s}]
    BY Zenon DEF Lacking
  <2> HIDE DEF next
  <2>1. StepOf(j) /\ base'[j] = base[j] /\ pc'[j] = "fetch" /\ work'[j] = work[j] /\ pass'[j] = next
    BY <1>2, <1>f, <2>0, <2>u DEF StepOf
  <2>2. /\ IsPass(pass'[j]) /\ pass'[j].number = pass[j].number
        /\ pass'[j].started = pass[j].started /\ pass'[j].refs = pass[j].refs
    <3>1. IsPass(pass[j])
      BY <1>3
    <3> QED
      BY <2>1, <2>n, <3>1 DEF IsPass
  <2>3. Untouched(j)'
    BY <1>3, <2>1 DEF Untouched
  <2> QED
    BY <1>2, <1>3, <2>1, <2>2, <2>3, WorkKeeps
<1>6. CASE End(j)
  BY <1>2, <1>6, EndingKeeps
<1> QED
  BY <1>1, <1>4, <1>5, <1>6

LEMMA FinishPassKeeps == ASSUME IInv, NEW j \in Job, FinishPass(j)  PROVE IInv'
<1> DEFINE doc == LiveSnapshot(j)
           tree == WithSnapshot(j, work[j])
           done == WithResult(j, tree)
<1>1. /\ pc[j] = "fetch" /\ UNCHANGED <<store, now, passes>>
      /\ \/ End(j)
         \/ /\ pass[j].refs # {} => ~SnapshotConflict(work[j], StageOf(j), doc)
            /\ work' = [work EXCEPT ![j] = WithResult(j, WithSnapshot(j, @))]
            /\ pc' = [pc EXCEPT ![j] = "publish"]
            /\ UNCHANGED <<base, pass>>
  BY DEF FinishPass
<1>2. /\ JobInv(j) /\ IsPass(pass[j]) /\ pass[j].started \in Nat /\ pass[j].number \in Nat
      /\ pass[j].number <= passes /\ UpTo(base[j].state, pass[j].number - 1)
      /\ pass[j].refs \subseteq work[j].captures /\ InOrder(work[j]) /\ Untouched(j)
      /\ UpTo(work[j].state, passes) /\ now \in Nat
  BY <1>1 DEF IInv, JobInv
<1>3. ASSUME pass[j].refs # {} => ~SnapshotConflict(work[j], StageOf(j), doc)
      PROVE  /\ InOrder(tree) /\ tree.captures = work[j].captures
             /\ tree.snapshots = work[j].snapshots
                                  \cup (IF pass[j].refs = {} THEN {} ELSE {doc})
             /\ tree.state = work[j].state /\ tree.manifests = work[j].manifests
  <2>1. CASE pass[j].refs = {}
    BY <1>2, <2>1 DEF WithSnapshot
  <2>2. CASE pass[j].refs # {}
    <3>1. SnapshotDoc(doc) /\ doc.refs = pass[j].refs
      BY <1>2 DEF SnapshotDoc, LiveSnapshot
    <3>2. StageOf(j) \in Stage /\ (doc.path[1] = "request" <=> StageOf(j) = "discovery")
      BY DEF LiveSnapshot, StageOf, Stage
    <3>3. tree = WriteSnapshot(work[j], StageOf(j), doc)
      BY <2>2 DEF WithSnapshot
    <3> HIDE DEF doc, tree
    <3> QED
      BY <1>2, <1>3, <2>2, <3>1, <3>2, <3>3, WriteSnapshotInOrder
  <2> QED
    BY <2>1, <2>2
<1>4. CASE End(j)
  BY <1>1, <1>4, EndingKeeps
<1>5. CASE /\ pass[j].refs # {} => ~SnapshotConflict(work[j], StageOf(j), doc)
           /\ work' = [work EXCEPT ![j] = WithResult(j, WithSnapshot(j, @))]
           /\ pc' = [pc EXCEPT ![j] = "publish"]
           /\ UNCHANGED <<base, pass>>
  <2>1. work' = [work EXCEPT ![j] = done]
    BY <1>5, Zenon
  <2>2. /\ InOrder(tree) /\ tree.captures = work[j].captures
        /\ tree.snapshots = work[j].snapshots \cup (IF pass[j].refs = {} THEN {} ELSE {doc})
        /\ tree.state = work[j].state /\ tree.manifests = work[j].manifests
    BY <1>3, <1>5
  <2>3. done = WithResult(j, tree)
    OBVIOUS
  <2> HIDE DEF doc, tree, done
  <2>4. StepOf(j) /\ base'[j] = base[j] /\ pc'[j] = "publish" /\ work'[j] = done
        /\ pass'[j] = pass[j]
    <3>1. /\ pc = [k \in Job |-> pc[k]] /\ pass = [k \in Job |-> pass[k]]
          /\ base = [k \in Job |-> base[k]] /\ work = [k \in Job |-> work[k]]
      BY DEF IInv
    <3>2. pc' = [pc EXCEPT ![j] = "publish"] /\ base' = base /\ pass' = pass
      BY <1>5
    <3> QED
      BY <2>1, <3>1, <3>2 DEF StepOf
  <2>5. CASE Kind[j] # "request"
    <3>1. done = tree
      BY <2>3, <2>5 DEF WithResult
    <3>2. Untouched(j)'
      BY <1>2, <2>2, <2>4, <3>1 DEF Untouched
    <3> QED
      BY <1>1, <1>2, <2>2, <2>4, <3>1, <3>2, WorkKeeps
  <2>6. CASE Kind[j] = "request"
    <3> DEFINE new == [tree.manifests EXCEPT ![j] = {Manifest(j)}]
    <3>1. done = [tree EXCEPT !.state = {Result(j)}, !.manifests = new]
      BY <2>3, <2>6, Zenon DEF WithResult
    <3>2. IsTree(tree)
      BY <2>2 DEF InOrder
    <3>3. new = [k \in Job |-> new[k]]
      BY <3>2 DEF IsTree
    <3>4. new = [base[j].manifests EXCEPT ![j] = {Manifest(j)}]
      BY <1>2, <2>2 DEF Untouched
    <3> HIDE DEF new
    <3>5. done = [captures |-> tree.captures, snapshots |-> tree.snapshots,
                  latest |-> tree.latest, state |-> {Result(j)}, manifests |-> new]
      BY <3>1, <3>2 DEF IsTree
    <3>6. InOrder(done)
      <4>1. \A s \in Stage : Of(done, s) = Of(tree, s)
        BY <3>5 DEF Of
      <4>2. IsTree(done)
        BY <3>2, <3>3, <3>5 DEF IsTree
      <4> QED
        BY <2>2, <3>5, <4>1, <4>2 DEF InOrder
    <3>7. Result(j).number = pass[j].number /\ Manifest(j).state = Result(j)
      BY DEF Result, Manifest
    <3>8. UpTo(done.state, passes)
      BY <1>2, <3>5, <3>7 DEF UpTo
    <3>9. Pinned(j)'
      <4>1. work'[j].state = {Manifest(j).state}
        BY <2>4, <3>5, <3>7
      <4>2. Manifest(j).snapshots \subseteq work'[j].snapshots
        BY <2>2, <2>4, <3>5 DEF Manifest, doc
      <4>3. Result(j) \notin base[j].state
        BY <1>2, <3>7 DEF UpTo
      <4>4. work'[j].state # base'[j].state
        BY <2>4, <3>5, <4>3
      <4>5. work'[j].manifests = [base'[j].manifests EXCEPT ![j] = {Manifest(j)}]
        BY <2>4, <3>4, <3>5
      <4> QED
        BY <4>1, <4>2, <4>4, <4>5 DEF Pinned
    <3>10. /\ work[j].captures \subseteq done.captures
           /\ work[j].snapshots \subseteq done.snapshots
           /\ done.captures = work[j].captures
      BY <2>2, <3>5
    <3> QED
      BY <1>1, <1>2, <2>4, <3>6, <3>8, <3>9, <3>10, WorkKeeps
  <2> QED
    BY <2>5, <2>6
<1> QED
  BY <1>1, <1>4, <1>5

LEMMA ReplayKeeps == ASSUME IInv, NEW j \in Job, NEW p \in Probe, Replay(j, p)  PROVE IInv'
<1> DEFINE doc == ReplaySnapshot(j, p)
           captured == [work[j] EXCEPT !.captures = work[j].captures \cup doc.refs]
           done == WriteSnapshot(captured, "premarket", doc)
<1>1. /\ pc[j] = "fetch" /\ UNCHANGED <<store, now, passes>>
      /\ \/ End(j)
         \/ /\ \A c \in doc.refs : Writable(work[j].captures, c)
            /\ ~SnapshotConflict(work[j], "premarket", doc)
            /\ work' = [work EXCEPT ![j] = done]
            /\ pc' = [pc EXCEPT ![j] = "publish"]
            /\ UNCHANGED <<base, pass>>
  BY DEF Replay
<1>2. /\ JobInv(j) /\ IsPass(pass[j])
      /\ pass[j].refs \subseteq work[j].captures /\ InOrder(work[j]) /\ Untouched(j)
      /\ UpTo(work[j].state, passes)
  BY <1>1 DEF IInv, JobInv
<1>3. CASE End(j)
  BY <1>1, <1>3, EndingKeeps
<1>4. CASE /\ \A c \in doc.refs : Writable(work[j].captures, c)
           /\ ~SnapshotConflict(work[j], "premarket", doc)
           /\ work' = [work EXCEPT ![j] = done]
           /\ pc' = [pc EXCEPT ![j] = "publish"]
           /\ UNCHANGED <<base, pass>>
  <2>1. p.at \in Nat
    BY StoreAssumption
  <2>2. doc.refs = ReplayCaptures(j, p) /\ SnapshotDoc(doc) /\ doc.path = <<"replay", p>>
    BY <2>1 DEF ReplaySnapshot, SnapshotDoc
  <2>3. \A c \in doc.refs : CaptureDoc(c)
    BY <2>1, <2>2 DEF ReplayCaptures, CaptureDoc
  <2>4. UniquePaths(doc.refs)
    BY <2>2 DEF ReplayCaptures, UniquePaths
  <2>5. captured = [work[j] EXCEPT !.captures = work[j].captures \cup doc.refs]
        /\ done = WriteSnapshot(captured, "premarket", doc)
    OBVIOUS
  <2> HIDE DEF doc, captured, done
  <2>6. /\ InOrder(captured)
        /\ captured.captures = work[j].captures \cup doc.refs
        /\ captured.snapshots = work[j].snapshots /\ captured.latest = work[j].latest
        /\ captured.state = work[j].state /\ captured.manifests = work[j].manifests
    BY <1>2, <1>4, <2>3, <2>4, <2>5, CapturesInOrder
  <2>7. ~SnapshotConflict(captured, "premarket", doc)
    BY <1>4, <2>6 DEF SnapshotConflict
  <2>8. (doc.path[1] = "request" <=> "premarket" = "discovery") /\ "premarket" \in Stage
    BY <2>2 DEF Stage
  <2>r. doc.refs \subseteq captured.captures /\ SnapshotDoc(doc)
    BY <2>2, <2>6
  <2>9. /\ InOrder(done) /\ done.captures = captured.captures
        /\ done.snapshots = captured.snapshots \cup {doc}
        /\ done.state = captured.state /\ done.manifests = captured.manifests
    <3>1. done = WriteSnapshot(captured, "premarket", doc)
      BY <2>5
    <3>2. InOrder(captured)
      BY <2>6
    <3> QED
      BY <2>r, <2>7, <2>8, <3>1, <3>2, WriteSnapshotInOrder
  <2>10. StepOf(j) /\ base'[j] = base[j] /\ pc'[j] = "publish" /\ work'[j] = done
         /\ pass'[j] = pass[j]
    BY <1>4 DEF IInv, StepOf
  <2>11. Untouched(j)'
    BY <1>2, <2>6, <2>9, <2>10 DEF Untouched
  <2> QED
    BY <1>1, <1>2, <2>6, <2>9, <2>10, <2>11, WorkKeeps
<1> QED
  BY <1>1, <1>3, <1>4

(* A successful rebase.                                                    *)
LEMMA MergeKeeps ==
  ASSUME IInv, NEW j \in Job, Rebases(work[j], base[j], store)
  PROVE  /\ InOrder(Merged(work[j], base[j], store))
         /\ UpTo(Merged(work[j], base[j], store).state, passes)
         /\ store.captures \subseteq Merged(work[j], base[j], store).captures
         /\ store.snapshots \subseteq Merged(work[j], base[j], store).snapshots
<1> DEFINE u == Merged(work[j], base[j], store)
<1>1. /\ InOrder(work[j]) /\ InOrder(base[j]) /\ InOrder(store)
      /\ Adds(base[j], work[j], store)
      /\ UpTo(work[j].state, passes) /\ UpTo(store.state, passes)
  BY DEF IInv, JobInv
<1>2. InOrder(u)
  BY <1>1, MergeInOrder
<1>3. u.state = work[j].state \/ u.state = store.state
  <2>1. u.state = MergeFile(work[j].state, base[j].state, store.state)
    BY DEF Merged
  <2>2. u.state # Conflict
    BY DEF Rebases
  <2> QED
    BY <2>1, <2>2, MergeFileOutcome
<1>4. UpTo(u.state, passes)
  BY <1>1, <1>3
<1> QED
  BY <1>2, <1>4 DEF Merged

LEMMA PublishKeeps == ASSUME IInv, NEW j \in Job, Publish(j)  PROVE IInv'
<1>1. End(j) /\ UNCHANGED <<now, passes>>
  BY DEF Publish
<1>2. /\ InOrder(store') /\ UpTo(store'.state, passes)
      /\ store.captures \subseteq store'.captures /\ store.snapshots \subseteq store'.snapshots
  <2>1. CASE Rebases(work[j], base[j], store)
    BY <2>1, MergeKeeps DEF Publish
  <2>2. CASE ~Rebases(work[j], base[j], store)
    BY <2>2 DEF Publish, IInv
  <2> QED
    BY <2>1, <2>2
<1>3. passes \in Nat
  BY DEF IInv
<1>4. StepOf(j) /\ pc'[j] \in {"idle", "fetch", "publish"}
  BY <1>1, EndKeeps
<1>5. JobInv(j)'
  BY <1>1, EndKeeps
<1> QED
  BY <1>1, <1>2, <1>3, <1>4, <1>5, StepKeeps

LEMMA StepPreserves == IInv /\ [Next]_vars => IInv'
<1> SUFFICES ASSUME IInv, [Next]_vars  PROVE IInv'
  OBVIOUS
<1>1. CASE Tick \/ UNCHANGED vars
  <2>1. now' \in Nat /\ UNCHANGED <<store, base, work, pc, pass, passes>>
    BY <1>1 DEF Tick, vars, IInv
  <2>2. \A j \in Job : JobInv(j)'
    BY <2>1 DEF IInv, JobInv, Untouched, Pinned
  <2> QED
    BY <2>1, <2>2 DEF IInv
<1>2. ASSUME NEW j \in Job, Start(j)  PROVE IInv'
  BY <1>2, StartKeeps
<1>3. ASSUME NEW j \in Job, FetchSymbol(j)  PROVE IInv'
  BY <1>3, FetchSymbolKeeps
<1>4. ASSUME NEW j \in Job, FinishPass(j)  PROVE IInv'
  BY <1>4, FinishPassKeeps
<1>5. ASSUME NEW j \in Job, NEW p \in Probe, Replay(j, p)  PROVE IInv'
  BY <1>5, ReplayKeeps
<1>6. ASSUME NEW j \in Job, Publish(j)  PROVE IInv'
  BY <1>6, PublishKeeps
<1>7. ASSUME NEW j \in Job, JobFails(j)  PROVE IInv'
  BY <1>7, EndingKeeps DEF JobFails
<1> QED
  BY <1>1, <1>2, <1>3, <1>4, <1>5, <1>6, <1>7 DEF Next

LEMMA Invariant == Spec => []IInv
<1>1. Init => IInv
  BY InitEstablishes
<1>2. IInv /\ [Next]_vars => IInv'
  BY StepPreserves
<1> QED
  BY <1>1, <1>2, PTL DEF Spec

-----------------------------------------------------------------------------
(* Whatever order passes, replays of older probes and their rebases come   *)
(* in: latest.json is at the one newest snapshot of its stage.             *)
THEOREM LatestStaysNewest == Spec => []LatestIsNewest
<1>1. IInv => LatestIsNewest
  BY DEF IInv, InOrder, Leads, LatestIsNewest, Newest
<1> QED
  BY <1>1, Invariant, PTL

(* A published reference names one capture, with the content it pins.      *)
THEOREM RefsStayResolved == Spec => []RefsResolve
<1>1. IInv => RefsResolve
  BY DEF IInv, InOrder, UniquePaths, RefsResolve
<1> QED
  BY <1>1, Invariant, PTL

(* A step that changes what is published is the rebase of one job.         *)
LEMMA OnlyPublishes ==
  ASSUME IInv, [Next]_vars, store' # store
  PROVE  \E j \in Job : /\ pc[j] = "publish" /\ Rebases(work[j], base[j], store)
                       /\ store' = Merged(work[j], base[j], store)
BY DEF Next, vars, Start, FetchSymbol, FinishPass, Replay, Publish, JobFails, Tick

(* A manifest is published together with the outputs it pins, also when    *)
(* the commit is rebased over other requests.                              *)
THEOREM ManifestsPinTheirOutputs == Spec => ManifestPinsItsOutputs
<1> DEFINE Pins == \A j \in Job : store'.manifests[j] # store.manifests[j] =>
              \A m \in store'.manifests[j] :
                store'.state = {m.state} /\ m.snapshots \subseteq store'.snapshots
<1>1. IInv /\ [Next]_vars => [Pins]_vars
  <2> SUFFICES ASSUME IInv, [Next]_vars, NEW k \in Job,
                      store'.manifests[k] # store.manifests[k], NEW m \in store'.manifests[k]
               PROVE  store'.state = {m.state} /\ m.snapshots \subseteq store'.snapshots
    OBVIOUS
  <2>1. PICK j \in Job : /\ pc[j] = "publish" /\ Rebases(work[j], base[j], store)
                         /\ store' = Merged(work[j], base[j], store)
    BY OnlyPublishes
  <2>2. /\ store'.manifests[k] =
             MergeFile(work[j].manifests[k], base[j].manifests[k], store.manifests[k])
        /\ store'.state = MergeFile(work[j].state, base[j].state, store.state)
        /\ work[j].snapshots \subseteq store'.snapshots
    BY <2>1 DEF Merged
  <2>3. store'.manifests[k] # Conflict /\ store'.state # Conflict
    BY <2>1 DEF Rebases
  <2>4. work[j].manifests[k] # base[j].manifests[k] /\ store'.manifests[k] = work[j].manifests[k]
    BY <2>2, <2>3, MergeFileOutcome
  <2>5. JobInv(j)
    BY DEF IInv
  <2>6. ~Untouched(j)
    BY <2>4 DEF Untouched
  <2>7. PICK n : /\ work[j].state = {n.state} /\ n.snapshots \subseteq work[j].snapshots
                 /\ work[j].state # base[j].state
                 /\ work[j].manifests = [base[j].manifests EXCEPT ![j] = {n}]
    BY <2>1, <2>5, <2>6 DEF JobInv, Pinned
  <2>8. IsTree(base[j])
    BY <2>5 DEF JobInv, InOrder
  <2>9. k = j /\ work[j].manifests[j] = {n}
    BY <2>4, <2>7, <2>8 DEF IsTree
  <2>10. store'.state = work[j].state
    BY <2>2, <2>3, <2>7, MergeFileOutcome
  <2> QED
    BY <2>2, <2>4, <2>7, <2>9, <2>10
<1> QED
  BY <1>1, Invariant, PTL DEF Spec, ManifestPinsItsOutputs

(* A merged pointer stays or moves to a newer snapshot.                    *)
LEMMA MergeForward ==
  ASSUME IInv, NEW j \in Job, Rebases(work[j], base[j], store), NEW s \in Stage
  PROVE  LET l == Merged(work[j], base[j], store).latest[s]
         IN  \/ l = store.latest[s]
             \/ \E d \in Merged(work[j], base[j], store).snapshots :
                   l = {d} /\ \A e \in store.latest[s] : e.at < d.at
<1> DEFINE mine == work[j]
           old == base[j]
           l == Merged(mine, old, store).latest[s]
<1>1. /\ l = MergeFile(mine.latest[s], old.latest[s], store.latest[s])
      /\ l # Conflict
  BY DEF Merged, Rebases
<1>2. /\ InOrder(mine) /\ InOrder(old) /\ InOrder(store) /\ Adds(old, mine, store)
  BY DEF IInv, JobInv
<1> HIDE DEF mine, old, l
<1>3. /\ Leads(mine.latest[s], Of(mine, s)) /\ Leads(old.latest[s], Of(old, s))
      /\ Of(old, s) \subseteq Of(mine, s) /\ \A d \in Of(mine, s) : d.at \in Nat
  BY <1>2 DEF InOrder, Adds, Of, SnapshotDoc
<1>4. CASE l = store.latest[s]
  BY <1>4 DEF l, mine, old
<1>5. CASE l # store.latest[s]
  <2>1. l = mine.latest[s] /\ store.latest[s] = old.latest[s]
    BY <1>1, <1>5, MergeFileOutcome
  <2>2. old.latest[s] \subseteq Of(mine, s)
    BY <1>3 DEF Leads
  <2>3. l # {}
    BY <1>3, <1>5, <2>1, <2>2 DEF Leads
  <2>4. PICK d : d \in l
    BY <2>3
  <2>5. l = {d} /\ d \in Of(mine, s)
    BY <1>3, <2>1, <2>4, LeadsOne DEF Leads
  <2>6. ASSUME NEW e \in store.latest[s]  PROVE e.at < d.at
    <3>1. e \in Of(mine, s) /\ (e = d \/ e.at < d.at)
      BY <1>3, <2>1, <2>2, <2>4 DEF Leads
    <3>2. e = d => old.latest[s] = {d}
      <4>1. \A a \in Of(old, s) : a.at \in Nat
        BY <1>3
      <4>2. e \in old.latest[s]
        BY <2>1
      <4> QED
        BY <1>3, <4>1, <4>2, LeadsOne
    <3> QED
      BY <1>5, <2>1, <2>5, <3>1, <3>2
  <2>7. d \in Merged(mine, old, store).snapshots
    BY <2>5 DEF Merged, Of
  <2> QED
    BY <2>5, <2>6, <2>7 DEF l, mine, old
<1> QED
  BY <1>4, <1>5

(* The published documents implement the contract of the snapshot area.    *)
THEOREM ImplementsDocumentStore == Spec => RefinesDocumentStore
<1>1. Init => Documents!DInit
  BY DEF Init, EmptyTree, Documents!DInit
<1>2. IInv /\ [Next]_vars => [Documents!Publish]_(Documents!dvars)
  <2> SUFFICES ASSUME IInv, [Next]_vars, store' # store
               PROVE  Documents!Publish
    BY DEF Documents!dvars
  <2>1. PICK j \in Job : /\ pc[j] = "publish" /\ Rebases(work[j], base[j], store)
                         /\ store' = Merged(work[j], base[j], store)
    BY OnlyPublishes
  <2>2. /\ InOrder(store') /\ store.captures \subseteq store'.captures
        /\ store.snapshots \subseteq store'.snapshots
    BY <2>1, MergeKeeps
  <2>3. ASSUME NEW d \in store'.captures \cup store'.snapshots,
               NEW e \in store'.captures \cup store'.snapshots, d.path = e.path
        PROVE  d = e
    <3>1. \A c \in store'.captures, q \in store'.snapshots : c.path # q.path
      <4> SUFFICES ASSUME NEW c \in store'.captures, NEW q \in store'.snapshots
                   PROVE  c.path # q.path
        OBVIOUS
      <4>1. PICK k, s, x : c.path = <<k, s, x>>
        BY <2>2 DEF InOrder, CaptureDoc
      <4>2. PICK m, y : q.path = <<m, y>>
        BY <2>2 DEF InOrder, SnapshotDoc
      <4> QED
        BY <4>1, <4>2
    <3> QED
      BY <2>2, <2>3, <3>1 DEF InOrder, UniquePaths
  <2>4. Documents!Grows
    BY <2>2, <2>3 DEF Documents!Grows
  <2>5. ASSUME NEW s \in Stage  PROVE Documents!Forward(s)
    BY <2>1, MergeForward DEF Documents!Forward
  <2> QED
    BY <2>4, <2>5 DEF Documents!Publish
<1> QED
  BY <1>1, <1>2, Invariant, PTL DEF Spec, RefinesDocumentStore, Documents!DSpec
=============================================================================
