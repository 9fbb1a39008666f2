-------------------------- MODULE MetricProof_proofs --------------------------
(***************************************************************************)
(* What MetricProof promises, for all symbols, series, captures, windows   *)
(* and numbers of snapshots and commits.                                   *)
(*                                                                         *)
(* The invariant says where proofs come from (each was built from some     *)
(* series and its own snapshot, whose captures were not ambiguous), that a *)
(* job only adds to the tree it checked out, and that a snapshot names     *)
(* each capture once.  The rest are two lemmas: the verifier's comparisons *)
(* determine the proof, and captures that are not ambiguous agree about    *)
(* the latest instant.                                                     *)
(***************************************************************************)
EXTENDS MetricProof, FiniteSetTheorems, WellFoundedInduction, SequenceTheorems, TLAPS

(* A tree is a record with these four fields, the proofs by path.          *)
IsTree(t) ==
  /\ t = [snapshot |-> t.snapshot, daily |-> t.daily, proofs |-> t.proofs, latest |-> t.latest]
  /\ t.proofs = [p \in Path |-> t.proofs[p]]

(* References name each capture once, by its symbol and its path.          *)
Capture == [path : Nat, symbol : Symbol, facts : UNION {Answers[s] : s \in Symbol}]

IsRefs(refs) ==
  /\ refs \in Seq(Capture)
  /\ \A j, k \in DOMAIN refs :
       refs[j].symbol = refs[k].symbol /\ refs[j].path = refs[k].path => j = k

(* Paths are numbered in the order of the snapshots.                       *)
IsSnapshot(t) ==
  t.snapshot # None =>
    /\ IsRefs(t.snapshot.refs)
    /\ \A k \in DOMAIN t.snapshot.refs : t.snapshot.refs[k].path <= taken

(* The captures of a symbol agree about its latest instant.                *)
Agreeing(refs) ==
  \A s \in WithTarget(refs) :
    \A j, k \in At(refs, s, Max(Instants(refs, s))) :
      refs[j].facts[Max(Instants(refs, s))] = refs[k].facts[Max(Instants(refs, s))]

(* A proof was built from series and a snapshot whose captures agree.      *)
IsBuilt(proof) ==
  \E daily, snapshot : /\ proof = Proof(daily, snapshot)
                       /\ IsRefs(snapshot.refs) /\ Agreeing(snapshot.refs)

Built(t) == \A p \in Path : t.proofs[p] # None => IsBuilt(t.proofs[p])

Trees ==
  /\ IsTree(store) /\ IsTree(base) /\ IsTree(work)
  /\ Built(store) /\ Built(base) /\ Built(work)
  /\ work.daily = base.daily
  /\ \A p \in Path : base.proofs[p] # None => work.proofs[p] = base.proofs[p]

Snapshots == taken \in Nat /\ IsSnapshot(store) /\ IsSnapshot(work)

IInv == Trees /\ Snapshots

-----------------------------------------------------------------------------
(* Maxima and minima of finite sets.                                       *)

LEMMA SmallestSet ==
  ASSUME NEW D, IsFiniteSet(D), NEW T, T \subseteq SUBSET D, T # {}
  PROVE  \E s \in T : \A r \in T : ~(r \subseteq s /\ r # s)
<1>1. \A s \in SUBSET D : s \in FiniteSubsetsOf(D)
  BY FS_Subset DEF FiniteSubsetsOf
<1>2. \E s \in T : \A r \in T : ~(<<r, s>> \in StrictSubsetOrdering(D))
  BY <1>1, FS_StrictSubsetOrderingWellFounded, WFMin
<1> QED
  BY <1>2 DEF StrictSubsetOrdering

LEMMA LeastOf ==
  ASSUME NEW D, IsFiniteSet(D), D # {}, NEW f \in [D -> Int]
  PROVE  \E k \in D : \A j \in D : f[k] <= f[j]
<1> DEFINE T == {s \in SUBSET D : s # {} /\ ~ \E k \in s : \A j \in s : f[k] <= f[j]}
<1> SUFFICES ASSUME T # {}  PROVE FALSE
  OBVIOUS
<1>0. T \subseteq SUBSET D
  OBVIOUS
<1> HIDE DEF T
<1>1. PICK s \in T : \A r \in T : ~(r \subseteq s /\ r # s)
  BY <1>0, SmallestSet
<1> USE DEF T
<1>2. PICK x \in s : TRUE
  BY <1>1
<1>3. s \ {x} \notin T
  BY <1>1, <1>2
<1>4. CASE s \ {x} = {}
  BY <1>1, <1>2, <1>4
<1>5. CASE s \ {x} # {}
  <2>1. PICK k \in s \ {x} : \A j \in s \ {x} : f[k] <= f[j]
    BY <1>0, <1>3, <1>5
  <2>2. CASE f[x] <= f[k]
    BY <1>0, <1>1, <1>2, <2>1, <2>2
  <2>3. CASE f[k] <= f[x]
    BY <1>0, <1>1, <1>2, <2>1, <2>3
  <2> QED
    BY <1>0, <1>2, <2>1, <2>2, <2>3
<1> QED
  BY <1>4, <1>5

LEMMA MaxIsThere ==
  ASSUME NEW S \in SUBSET Nat, IsFiniteSet(S), S # {}
  PROVE  Max(S) \in S /\ \A t \in S : t <= Max(S)
<1>1. [t \in S |-> 0 - t] \in [S -> Int]
  OBVIOUS
<1>2. PICK k \in S : \A j \in S : [t \in S |-> 0 - t][k] <= [t \in S |-> 0 - t][j]
  BY <1>1, LeastOf
<1>3. \A j \in S : k >= j
  BY <1>2
<1> QED
  BY <1>3 DEF Max

-----------------------------------------------------------------------------
(* The selection of the target.                                            *)

LEMMA SelectedIsThere ==
  ASSUME NEW refs, IsRefs(refs), NEW s \in WithTarget(refs)
  PROVE  /\ Max(Instants(refs, s)) \in Instants(refs, s)
         /\ \A t \in Instants(refs, s) : t <= Max(Instants(refs, s))
         /\ SelectedRef(refs, s) \in At(refs, s, Max(Instants(refs, s)))
         /\ \A j \in At(refs, s, Max(Instants(refs, s))) :
              refs[SelectedRef(refs, s)].path <= refs[j].path
<1> DEFINE t == Max(Instants(refs, s))
<1>1. Instants(refs, s) \in SUBSET Nat /\ IsFiniteSet(Instants(refs, s)) /\ Instants(refs, s) # {}
  BY ProofAssumption, FS_Subset DEF Instants, WithTarget
<1>2. t \in Instants(refs, s) /\ \A u \in Instants(refs, s) : u <= t
  BY <1>1, MaxIsThere
<1> HIDE DEF t
<1>3. At(refs, s, t) # {} /\ At(refs, s, t) \subseteq DOMAIN refs
  BY <1>2 DEF Instants, At
<1>4. DOMAIN refs = 1 .. Len(refs) /\ IsFiniteSet(DOMAIN refs)
  BY FS_Interval DEF IsRefs
<1>5. IsFiniteSet(At(refs, s, t))
  BY <1>3, <1>4, FS_Subset
<1>6. \A k \in At(refs, s, t) : refs[k].path \in Int
  <2>1. \A k \in DOMAIN refs : refs[k] \in Capture
    BY <1>4 DEF IsRefs
  <2> QED
    BY <1>3, <2>1 DEF Capture
<1>7. \E k \in At(refs, s, t) : \A j \in At(refs, s, t) :
        [i \in At(refs, s, t) |-> refs[i].path][k] <= [i \in At(refs, s, t) |-> refs[i].path][j]
  <2>1. [k \in At(refs, s, t) |-> refs[k].path] \in [At(refs, s, t) -> Int]
    BY <1>6
  <2> QED
    BY <1>3, <1>5, <2>1, LeastOf
<1>8. \E k \in At(refs, s, t) : \A j \in At(refs, s, t) : refs[k].path <= refs[j].path
  BY <1>7
<1> QED
  BY <1>2, <1>8 DEF SelectedRef, t

(* Captures that are not ambiguous agree about the latest instant.         *)
LEMMA AgreeAboutTheLatest ==
  ASSUME NEW refs, IsRefs(refs), Selectable(refs), NEW s \in WithTarget(refs),
         NEW j \in At(refs, s, Max(Instants(refs, s))),
         NEW k \in At(refs, s, Max(Instants(refs, s)))
  PROVE  refs[j].facts[Max(Instants(refs, s))] = refs[k].facts[Max(Instants(refs, s))]
<1> DEFINE t == Max(Instants(refs, s))
<1>1. t \in Instants(refs, s) /\ \A u \in Instants(refs, s) : u <= t
  BY SelectedIsThere
<1>2. j \in DOMAIN refs /\ k \in DOMAIN refs /\ DOMAIN refs \subseteq Nat
  BY DEF At, IsRefs
<1>3. s \in Observed(refs) /\ t \in Window
  BY <1>1 DEF WithTarget, Instants
<1>4. CASE stage # "close"
  BY <1>1, <1>3, <1>4 DEF Selectable, AmbiguousOpen
<1>5. ASSUME stage = "close",
             NEW a \in At(refs, s, t), NEW b \in At(refs, s, t), a < b
      PROVE  refs[a] = refs[b]
  <2> DEFINE earlier == {u \in Window : \E i \in At(refs, refs[b].symbol, u) :
                                          i < b /\ refs[i] # refs[b]}
  <2> SUFFICES ASSUME refs[a] # refs[b] PROVE FALSE
    OBVIOUS
  <2>1. refs[b].symbol = s /\ b \in DOMAIN refs /\ t \in DOMAIN refs[b].facts
    BY <1>5 DEF At
  <2>2. t \in earlier
    BY <1>3, <1>5, <2>1
  <2>3. earlier \subseteq Instants(refs, s)
    BY <2>1 DEF Instants
  <2>4. earlier \in SUBSET Nat /\ IsFiniteSet(earlier)
    BY ProofAssumption, FS_Subset
  <2> HIDE DEF earlier, t
  <2>5. Max(earlier) \in earlier /\ \A u \in earlier : u <= Max(earlier)
    BY <2>2, <2>4, MaxIsThere
  <2>6. Max(earlier) = t
    <3>1. t <= Max(earlier)
      BY <2>2, <2>5
    <3>2. Max(earlier) <= t
      BY <1>1, <2>3, <2>5
    <3>3. t \in Nat /\ Max(earlier) \in Nat
      BY <2>2, <2>4, <2>5
    <3> QED
      BY <3>1, <3>2, <3>3
  <2> USE DEF earlier, t
  <2>7. AmbiguousClose(refs)
    BY <2>1, <2>2, <2>6 DEF AmbiguousClose
  <2> QED
    BY <1>5, <2>7 DEF Selectable
<1>6. CASE stage = "close" /\ j # k
  <2>1. j < k \/ k < j
    BY <1>2, <1>6
  <2> QED
    BY <1>5, <1>6, <2>1
<1> QED
  BY <1>4, <1>6

-----------------------------------------------------------------------------
(* The references of a snapshot.                                           *)

LEMMA NewRefs ==
  ASSUME NEW S, IsFiniteSet(S)
  PROVE  /\ SetToSeq(S) \in Seq(S)
         /\ \A j, k \in DOMAIN SetToSeq(S) : SetToSeq(S)[j] = SetToSeq(S)[k] => j = k
<1>1. PICK n \in Nat : ExistsBijection(1 .. n, S)
  BY FS_NatBijection
<1>2. Cardinality(S) = n
  BY <1>1, FS_CountingElements
<1>3. \E f \in [1 .. n -> S] : IsInjective(f)
  BY <1>1 DEF ExistsBijection, Bijection, Injection, IsInjective
<1>4. SetToSeq(S) \in [1 .. n -> S] /\ IsInjective(SetToSeq(S))
  BY <1>2, <1>3 DEF SetToSeq
<1> HIDE DEF SetToSeq
<1> QED
  BY <1>1, <1>4 DEF IsInjective

(* What a proof holds.                                                     *)
LEMMA ProofFields ==
  ASSUME NEW daily, NEW snapshot
  PROVE  /\ Proof(daily, snapshot).snapshot = snapshot
         /\ Proof(daily, snapshot).missing = MissingReasons(daily, snapshot.refs)
         /\ Proof(daily, snapshot).subjects =
              [s \in Subjects(daily, snapshot.refs) |-> Subject(daily, snapshot.refs, s)]
BY DEF Proof

(* A subject depends on its own series and, through its benchmarks, on     *)
(* those of other subjects, and on no other series.                        *)
LEMMA SubjectDependsOnSubjects ==
  ASSUME NEW old, NEW new, NEW refs,
         Subjects(old, refs) = Subjects(new, refs),
         \A q \in Subjects(old, refs) : old[q] = new[q],
         NEW s \in Subjects(old, refs)
  PROVE  Subject(old, refs, s) = Subject(new, refs, s)
<1>1. \A b \in Benchmark : Comparable(old, refs, s, b) <=> Comparable(new, refs, s, b)
  BY DEF Comparable
<1>2. \A b \in Benchmark : Comparable(old, refs, s, b) => old[b] = new[b]
  BY DEF Comparable
<1>3. old[s] = new[s]
  OBVIOUS
<1>4. \A b \in Benchmark :
        (IF Comparable(old, refs, s, b)
         THEN RelativeStrength(Prior(old[s]), Target(refs, s), Prior(old[b]), Target(refs, b))
         ELSE None) =
        (IF Comparable(new, refs, s, b)
         THEN RelativeStrength(Prior(new[s]), Target(refs, s), Prior(new[b]), Target(refs, b))
         ELSE None)
  BY <1>1, <1>2, <1>3
<1> QED
  BY <1>3, <1>4 DEF Subject

(* A proof that verifies against other series than it was built from is    *)
(* nevertheless the proof of those.                                        *)
LEMMA VerifiedProofIsCurrent ==
  ASSUME NEW old, NEW new, NEW snapshot, Verifies(new, Proof(old, snapshot))
  PROVE  Proof(old, snapshot) = Proof(new, snapshot)
<1> DEFINE refs == snapshot.refs
<1>1. /\ Proof(old, snapshot).snapshot = snapshot
      /\ Proof(old, snapshot).missing = MissingReasons(old, refs)
      /\ Proof(old, snapshot).subjects = [s \in Subjects(old, refs) |-> Subject(old, refs, s)]
  BY ProofFields
<1>2. MissingReasons(old, refs) = MissingReasons(new, refs)
  BY <1>1 DEF Verifies
<1>3. Subjects(old, refs) = Subjects(new, refs)
  BY <1>1 DEF Verifies
<1>4. ASSUME NEW s \in Subjects(old, refs)  PROVE old[s] = new[s]
  <2>1. Proof(old, snapshot).subjects[s].daily = new[s]
    BY <1>1, <1>4 DEF Verifies
  <2>2. Proof(old, snapshot).subjects[s].daily = old[s]
    BY <1>1, <1>4 DEF Subject
  <2> QED
    BY <2>1, <2>2
<1>5. \A s \in Subjects(old, refs) : Subject(old, refs, s) = Subject(new, refs, s)
  BY <1>3, <1>4, SubjectDependsOnSubjects
<1>6. [s \in Subjects(old, refs) |-> Subject(old, refs, s)] =
      [s \in Subjects(new, refs) |-> Subject(new, refs, s)]
  BY <1>3, <1>5
<1> QED
  BY <1>2, <1>6 DEF Proof

LEMMA InitEstablishes == Init => IInv
BY DEF Init, NoTree, IInv, Trees, Snapshots, IsTree, IsSnapshot, Built

(* What a snapshot adds to a tree.                                         *)
LEMMA SnapshotFields ==
  ASSUME NEW t, NEW given, NEW inherit, IsTree(t)
  PROVE  LET new == WithSnapshot(t, given, inherit)
         IN  /\ IsTree(new) /\ new.proofs = t.proofs /\ new.daily = t.daily
             /\ new.latest = t.latest
<1>1. PICK snapshot : WithSnapshot(t, given, inherit) = [t EXCEPT !.snapshot = snapshot]
  BY DEF WithSnapshot
<1>2. WithSnapshot(t, given, inherit) =
        [snapshot |-> snapshot, daily |-> t.daily, proofs |-> t.proofs, latest |-> t.latest]
  BY <1>1 DEF IsTree
<1> QED
  BY <1>2 DEF IsTree

(* A pass names each of its captures once, and like none before.           *)
LEMMA SnapshotNumbered ==
  ASSUME NEW t, IsTree(t), IsSnapshot(t), taken \in Nat, taken' = taken + 1,
         NEW given \in Passes, NEW inherit \in BOOLEAN
  PROVE  LET refs == WithSnapshot(t, given, inherit).snapshot.refs
         IN  /\ IsRefs(refs)
             /\ \A k \in DOMAIN refs : refs[k].path <= taken + 1
<1> DEFINE C == {[path |-> taken + 1, symbol |-> s, facts |-> given[s]] : s \in DOMAIN given}
           new == SetToSeq(C)
           old == IF inherit /\ t.snapshot # None THEN t.snapshot.refs ELSE << >>
<1>1. /\ DOMAIN given \subseteq Symbol
      /\ \A s \in DOMAIN given : given[s] \in Answers[s]
  BY DEF Passes
<1>2. IsFiniteSet(C)
  <2> DEFINE f == [s \in DOMAIN given |->
                    [path |-> taken + 1, symbol |-> s, facts |-> given[s]]]
  <2>1. IsFiniteSet(DOMAIN given)
    BY <1>1, ProofAssumption, FS_Subset
  <2>2. f \in Surjection(DOMAIN given, C)
    BY DEF Surjection
  <2> QED
    BY <2>1, <2>2, FS_Surjection
<1>3. C \subseteq Capture
  BY <1>1 DEF Capture
<1>4. \A c \in C, d \in C : c.symbol = d.symbol => c = d
  OBVIOUS
<1>5. \A c \in C : c.path = taken + 1
  OBVIOUS
<1> HIDE DEF C
<1>6. new \in Seq(C) /\ \A j, k \in DOMAIN new : new[j] = new[k] => j = k
  BY <1>2, NewRefs
<1>7. WithSnapshot(t, given, inherit).snapshot.refs =
        IF inherit /\ t.snapshot # None THEN t.snapshot.refs \o new ELSE new
  BY DEF WithSnapshot, IsTree, C
<1> HIDE DEF new
<1>8. IsRefs(old) /\ \A k \in DOMAIN old : old[k].path <= taken
  BY DEF IsSnapshot, IsRefs
<1> HIDE DEF old
<1> DEFINE refs == old \o new
<1>9. /\ old \in Seq(Capture) /\ new \in Seq(Capture) /\ refs \in Seq(Capture)
      /\ DOMAIN old = 1 .. Len(old) /\ DOMAIN new = 1 .. Len(new)
      /\ Len(old) \in Nat /\ Len(new) \in Nat
      /\ DOMAIN refs = 1 .. Len(old) + Len(new)
      /\ \A k \in DOMAIN refs : refs[k] = IF k <= Len(old) THEN old[k] ELSE new[k - Len(old)]
  BY <1>3, <1>6, <1>8 DEF IsRefs
<1>10. /\ \A k \in DOMAIN old : old[k].path \in Nat /\ old[k].path <= taken
       /\ \A k \in DOMAIN new : new[k] \in C /\ new[k].path = taken + 1
  <2>1. \A k \in DOMAIN old : old[k] \in Capture
    BY <1>9
  <2>2. \A k \in DOMAIN old : old[k].path \in Nat
    BY <2>1 DEF Capture
  <2>3. \A k \in DOMAIN new : new[k] \in C
    BY <1>6
  <2> QED
    BY <1>5, <1>8, <2>2, <2>3
<1> HIDE DEF refs
<1>11. \A k \in DOMAIN refs :
         \/ k \in DOMAIN old /\ refs[k] = old[k]
         \/ k > Len(old) /\ k - Len(old) \in DOMAIN new /\ refs[k] = new[k - Len(old)]
  BY <1>9
<1>12. ASSUME NEW j \in DOMAIN refs, NEW k \in DOMAIN refs,
              refs[j].symbol = refs[k].symbol, refs[j].path = refs[k].path
       PROVE  j = k
  <2>1. CASE j \in DOMAIN old /\ refs[j] = old[j] /\ k \in DOMAIN old /\ refs[k] = old[k]
    BY <1>8, <1>12, <2>1 DEF IsRefs
  <2>2. CASE /\ j - Len(old) \in DOMAIN new /\ refs[j] = new[j - Len(old)]
             /\ k - Len(old) \in DOMAIN new /\ refs[k] = new[k - Len(old)]
    <3>1. new[j - Len(old)] = new[k - Len(old)]
      BY <1>4, <1>10, <1>12, <2>2
    <3>2. j - Len(old) = k - Len(old)
      BY <1>6, <2>2, <3>1
    <3>3. j \in Nat /\ k \in Nat
      BY <1>9
    <3> QED
      BY <1>9, <3>2, <3>3
  <2>3. CASE \/ /\ j \in DOMAIN old /\ refs[j] = old[j]
                /\ k - Len(old) \in DOMAIN new /\ refs[k] = new[k - Len(old)]
             \/ /\ k \in DOMAIN old /\ refs[k] = old[k]
                /\ j - Len(old) \in DOMAIN new /\ refs[j] = new[j - Len(old)]
    BY <1>10, <1>12, <2>3
  <2> QED
    BY <1>11, <2>1, <2>2, <2>3
<1>13. IsRefs(refs) /\ \A k \in DOMAIN refs : refs[k].path <= taken + 1
  BY <1>9, <1>10, <1>11, <1>12 DEF IsRefs
<1>14. WithSnapshot(t, given, inherit).snapshot.refs = refs
  <2>1. << >> \o new = new
    BY <1>9, ConcatEmptySeq
  <2> QED
    BY <1>7, <2>1 DEF refs, old
<1> QED
  BY <1>13, <1>14

(* A step of the job or of the others preserves the invariant.             *)
LEMMA TreesStep ==
  ASSUME IInv, [Next]_vars
  PROVE  Trees'
<1> USE DEF IInv, Trees, IsTree, Built
<1>0. End => (IsTree(base) /\ IsTree(work) /\ Built(base) /\ Built(work)
              /\ work.daily = base.daily
              /\ \A p \in Path : base.proofs[p] # None => work.proofs[p] = base.proofs[p])'
  BY DEF End, NoTree
<1>s. ASSUME NEW t, NEW given, NEW inherit, IsTree(t), Built(t)
      PROVE  /\ IsTree(WithSnapshot(t, given, inherit))
             /\ WithSnapshot(t, given, inherit).proofs = t.proofs
             /\ WithSnapshot(t, given, inherit).daily = t.daily
             /\ Built(WithSnapshot(t, given, inherit))
  BY <1>s, SnapshotFields
<1>1. CASE Collect
  <2>1. CASE \E given \in Passes, inherit \in BOOLEAN : work' = WithSnapshot(store, given, inherit)
    BY <1>1, <2>1, <1>s DEF Collect
  <2>2. CASE work' = store
    BY <1>1, <2>2 DEF Collect
  <2> QED
    BY <1>1, <2>1, <2>2 DEF Collect
<1>2. CASE Build
  <2> DEFINE new == Proof(work.daily, work.snapshot)
  <2>1. CASE work' = WithProof(work, ProofPath, new) /\ UNCHANGED <<store, base>>
             /\ Writable(work, ProofPath, new)
             /\ work.snapshot # None /\ Selectable(work.snapshot.refs)
    <3>1. IsTree(work') /\ work'.daily = work.daily
      BY <2>1 DEF WithProof
    <3>2. \A p \in Path : work'.proofs[p] = IF p = ProofPath THEN new ELSE work.proofs[p]
      BY <2>1 DEF WithProof
    <3>3. Built(work')
      <4>1. IsRefs(work.snapshot.refs) /\ Agreeing(work.snapshot.refs)
        BY <2>1, AgreeAboutTheLatest DEF Snapshots, IsSnapshot, Agreeing
      <4>2. IsBuilt(new)
        BY <4>1 DEF IsBuilt
      <4> QED
        BY <3>2, <4>2
    <3>4. \A p \in Path : base.proofs[p] # None => work'.proofs[p] = base.proofs[p]
      BY <2>1, <3>2 DEF Writable
    <3> QED
      BY <2>1, <3>1, <3>3, <3>4
  <2>2. CASE End
    BY <1>2, <2>2, <1>0 DEF Build
  <2> QED
    BY <1>2, <2>1, <2>2 DEF Build, Buildable
<1>3. CASE Persist
  <2>1. CASE Verified /\ MayPush
    <3>1. store' = [snapshot |-> work.snapshot, daily |-> store.daily,
                    proofs |-> work.proofs, latest |-> work.latest]
      BY <1>3, <2>1 DEF Persist
    <3>2. IsTree(store') /\ Built(store')
      BY <3>1
    <3> QED
      BY <1>3, <3>2, <1>0 DEF Persist
  <2>2. CASE ~(Verified /\ MayPush)
    BY <1>3, <2>2, <1>0 DEF Persist
  <2> QED
    BY <2>1, <2>2
<1>4. CASE JobFails
  BY <1>4, <1>0 DEF JobFails
<1>5. CASE Repair
  <2>1. PICK given, inherit : store' = WithSnapshot(store, given, inherit)
    BY <1>5, Zenon DEF Repair
  <2>2. IsTree(store') /\ Built(store')
    BY <2>1, <1>s
  <2>3. UNCHANGED <<base, work>>
    BY <1>5, Zenon DEF Repair
  <2> QED
    BY <2>2, <2>3
<1>6. CASE \E s \in Symbol : WriteDaily(s)
  BY <1>6 DEF WriteDaily
<1>7. CASE UNCHANGED vars
  BY <1>7 DEF vars
<1> QED
  BY <1>1, <1>2, <1>3, <1>4, <1>5, <1>6, <1>7 DEF Next

LEMMA SnapshotsStep ==
  ASSUME IInv, [Next]_vars
  PROVE  Snapshots'
<1> USE DEF IInv, Trees, Snapshots
<1>t. taken' = taken \/ taken' = taken + 1
  BY DEF Next, Collect, Build, Persist, JobFails, Repair, WriteDaily, vars
<1>k. ASSUME NEW t, IsSnapshot(t), NEW u, u.snapshot = t.snapshot PROVE IsSnapshot(u)'
  <2> SUFFICES ASSUME t.snapshot # None
               PROVE  \A k \in DOMAIN t.snapshot.refs : t.snapshot.refs[k].path <= taken'
    BY <1>k DEF IsSnapshot
  <2>1. ASSUME NEW k \in DOMAIN t.snapshot.refs
        PROVE  t.snapshot.refs[k].path \in Nat /\ t.snapshot.refs[k].path <= taken
    <3>1. t.snapshot.refs[k] \in Capture
      BY <1>k DEF IsSnapshot, IsRefs
    <3> QED
      BY <1>k, <3>1 DEF IsSnapshot, Capture
  <2> QED
    BY <1>t, <2>1
<1>e. ASSUME NEW u, u = NoTree PROVE IsSnapshot(u)'
  BY <1>e DEF NoTree, IsSnapshot
<1>s. ASSUME NEW given \in Passes, NEW inherit \in BOOLEAN, taken' = taken + 1,
             NEW u, u = WithSnapshot(store, given, inherit)
      PROVE  IsSnapshot(u)'
  BY <1>s, SnapshotNumbered DEF IsSnapshot
<1>1. CASE Collect
  <2>1. IsSnapshot(store)'
    BY <1>1, <1>k DEF Collect
  <2>2. IsSnapshot(work)'
    BY <1>1, <1>k, <1>s DEF Collect
  <2> QED
    BY <1>t, <2>1, <2>2
<1>2. CASE Build
  <2>1. store' = store /\ (work'.snapshot = work.snapshot \/ work' = NoTree)
    BY <1>2 DEF Build, End, WithProof, IsTree
  <2> QED
    BY <1>t, <1>k, <1>e, <2>1
<1>3. CASE Persist
  <2>1. work' = NoTree /\ store'.snapshot \in {store.snapshot, work.snapshot}
    BY <1>3 DEF Persist, End, IsTree
  <2> QED
    BY <1>t, <1>k, <1>e, <2>1
<1>4. CASE JobFails
  <2>1. work' = NoTree /\ store' = store
    BY <1>4 DEF JobFails, End
  <2> QED
    BY <1>t, <1>k, <1>e, <2>1
<1>5. CASE Repair
  <2>1. /\ work' = work /\ taken' = taken + 1
        /\ \E given \in Passes : store' = WithSnapshot(store, given, TRUE)
    BY <1>5, Zenon DEF Repair
  <2>2. PICK given \in Passes : store' = WithSnapshot(store, given, TRUE)
    BY <2>1
  <2>3. IsSnapshot(store)'
    BY <1>s, <2>1, <2>2
  <2>4. IsSnapshot(work)'
    BY <1>k, <2>1
  <2> QED
    BY <1>t, <2>3, <2>4
<1>6. CASE \E s \in Symbol : WriteDaily(s)
  <2>1. work' = work /\ store'.snapshot = store.snapshot
    BY <1>6 DEF WriteDaily, IsTree
  <2> QED
    BY <1>t, <1>k, <2>1
<1>7. CASE UNCHANGED vars
  <2>1. work' = work /\ store' = store
    BY <1>7 DEF vars
  <2> QED
    BY <1>t, <1>k, <2>1
<1> QED
  BY <1>1, <1>2, <1>3, <1>4, <1>5, <1>6, <1>7 DEF Next

LEMMA StepPreserves == IInv /\ [Next]_vars => IInv'
BY TreesStep, SnapshotsStep DEF IInv

LEMMA Invariant == Spec => []IInv
<1>1. Init => IInv
  BY InitEstablishes
<1>2. IInv /\ [Next]_vars => IInv'
  BY StepPreserves
<1> QED
  BY <1>1, <1>2, PTL DEF Spec

(* Whatever was written to the series since: a proof that verifies against *)
(* the published tree is the one that would be built from that tree.       *)
THEOREM AcceptedProofsAreCurrent == Spec => []AcceptedProofIsCurrent
<1>1. IInv => AcceptedProofIsCurrent
  <2> SUFFICES ASSUME IInv, NEW p \in Path, store.proofs[p] # None,
                      Verifies(store.daily, store.proofs[p])
               PROVE  store.proofs[p] = Proof(store.daily, store.proofs[p].snapshot)
    BY DEF AcceptedProofIsCurrent, Proofs
  <2>1. PICK daily, snapshot : store.proofs[p] = Proof(daily, snapshot)
    BY DEF IInv, Trees, Built, IsBuilt
  <2>2. store.proofs[p].snapshot = snapshot
    BY <2>1 DEF Proof
  <2> QED
    BY <2>1, <2>2, VerifiedProofIsCurrent
<1> QED
  BY <1>1, Invariant, PTL

(* No published proof is ever replaced, by any interleaving of jobs that   *)
(* build it again and writers of the series it pins.                       *)
THEOREM PublishedProofsStay == Spec => ProofsImmutable
<1> DEFINE Same == \A p \in Path : store.proofs[p] # None => store'.proofs[p] = store.proofs[p]
<1>1. IInv /\ [Next]_vars => [Same]_vars
  <2> SUFFICES ASSUME IInv, Next  PROVE Same
    BY DEF vars
  <2> USE DEF IInv, Trees, IsTree
  <2>1. CASE Persist
    BY <2>1 DEF Persist, MayPush
  <2>2. CASE Repair
    BY <2>2 DEF Repair, WithSnapshot
  <2>3. CASE \E s \in Symbol : WriteDaily(s)
    BY <2>3 DEF WriteDaily
  <2>4. CASE Collect \/ Build \/ JobFails
    BY <2>4 DEF Collect, Build, JobFails
  <2> QED
    BY <2>1, <2>2, <2>3, <2>4 DEF Next
<1> QED
  BY <1>1, Invariant, PTL DEF Spec, ProofsImmutable

(* The commit that publishes a proof is one the proof verifies against.    *)
THEOREM PublicationsVerify == Spec => PublishedProofVerifies
<1> DEFINE Ok == store'.latest # store.latest =>
                   /\ Verifies(store'.daily, store'.proofs[store'.latest])
                   /\ store'.proofs[store'.latest].snapshot = store'.snapshot
<1>1. IInv /\ [Next]_vars => [Ok]_vars
  <2> SUFFICES ASSUME IInv, Next, store'.latest # store.latest
               PROVE  /\ Verifies(store'.daily, store'.proofs[store'.latest])
                      /\ store'.proofs[store'.latest].snapshot = store'.snapshot
    BY DEF vars
  <2> USE DEF IInv, Trees, IsTree
  <2>1. CASE Persist
    <3>1. Verified /\ MayPush
      BY <2>1 DEF Persist
    <3>2. /\ store'.daily = work.daily /\ store'.proofs = work.proofs
          /\ store'.latest = work.latest /\ store'.snapshot = work.snapshot
      BY <2>1, <3>1 DEF Persist, MayPush
    <3>3. work.proofs[work.latest] = Proof(work.daily, work.snapshot)
      BY <3>1 DEF Verified
    <3>4. Verifies(work.daily, work.proofs[work.latest])
      BY <3>1 DEF Verified
    <3>5. Proof(work.daily, work.snapshot).snapshot = work.snapshot
      BY DEF Proof
    <3> QED
      BY <3>2, <3>3, <3>4, <3>5
  <2>2. CASE Repair
    BY <2>2 DEF Repair, WithSnapshot
  <2>3. CASE \E s \in Symbol : WriteDaily(s)
    BY <2>3 DEF WriteDaily
  <2>4. CASE Collect \/ Build \/ JobFails
    BY <2>4 DEF Collect, Build, JobFails
  <2> QED
    BY <2>1, <2>2, <2>3, <2>4 DEF Next
<1> QED
  BY <1>1, Invariant, PTL DEF Spec, PublishedProofVerifies

(* The price under a published proof is the latest one its snapshot knows, *)
(* and no capture of the snapshot contradicts it (_target_observations).   *)
THEOREM TargetsAreLatest == Spec => []TargetIsLatestAndUnambiguous
<1>1. IInv => TargetIsLatestAndUnambiguous
  <2> SUFFICES ASSUME IInv, NEW p \in Path, store.proofs[p] # None,
                      NEW s \in DOMAIN store.proofs[p].subjects
               PROVE  LET refs == store.proofs[p].snapshot.refs
                          target == store.proofs[p].subjects[s].target
                      IN  \A k \in DOMAIN refs : refs[k].symbol = s =>
                            \A t \in DOMAIN refs[k].facts \cap Window :
                              /\ t <= target.at
                              /\ t = target.at => refs[k].facts[t] = target.price
    BY DEF TargetIsLatestAndUnambiguous, Proofs
  <2>1. PICK daily, snapshot : /\ store.proofs[p] = Proof(daily, snapshot)
                               /\ IsRefs(snapshot.refs) /\ Agreeing(snapshot.refs)
    BY DEF IInv, Trees, Built, IsBuilt
  <2> DEFINE refs == snapshot.refs
             latest == Max(Instants(refs, s))
  <2>2. store.proofs[p].snapshot.refs = refs
    <3>1. Proof(daily, snapshot).snapshot = snapshot
      BY ProofFields
    <3> QED
      BY <2>1, <3>1
  <2>3. store.proofs[p].subjects = [q \in Subjects(daily, refs) |-> Subject(daily, refs, q)]
    BY <2>1, ProofFields
  <2>4. s \in Subjects(daily, refs)
    BY <2>3
  <2>5. s \in WithTarget(refs)
    BY <2>4 DEF Subjects, WithSeries
  <2>6. store.proofs[p].subjects[s].target = Target(refs, s)
    BY <2>3, <2>4 DEF Subject
  <2>7. /\ Target(refs, s).at = latest
        /\ Target(refs, s).price = refs[SelectedRef(refs, s)].facts[latest]
    BY DEF Target
  <2>8. /\ SelectedRef(refs, s) \in At(refs, s, latest)
        /\ \A t \in Instants(refs, s) : t <= latest
    BY <2>1, <2>5, SelectedIsThere
  <2>9. ASSUME NEW k \in DOMAIN refs, refs[k].symbol = s,
               NEW t \in DOMAIN refs[k].facts \cap Window
        PROVE  /\ t <= latest
               /\ t = latest => refs[k].facts[t] = refs[SelectedRef(refs, s)].facts[latest]
    <3>1. k \in At(refs, s, t)
      BY <2>9 DEF At
    <3>2. t \in Instants(refs, s)
      BY <2>9, <3>1 DEF Instants
    <3> QED
      BY <2>1, <2>5, <2>8, <3>1, <3>2 DEF Agreeing
  <2> QED
    BY <2>2, <2>6, <2>7, <2>9
<1> QED
  BY <1>1, Invariant, PTL

(* Another order of the references observes the same.                      *)
IsReordering(refs, p, other) ==
  /\ DOMAIN other = DOMAIN refs
  /\ \A k \in DOMAIN refs : p[k] \in DOMAIN refs /\ other[k] = refs[p[k]]
  /\ \A k \in DOMAIN refs : \E j \in DOMAIN refs : p[j] = k
  /\ \A j, k \in DOMAIN refs : p[j] = p[k] => j = k

LEMMA Reordering ==
  ASSUME NEW refs, NEW p \in Bijection(DOMAIN refs, DOMAIN refs), NEW other,
         other = [k \in DOMAIN refs |-> refs[p[k]]]
  PROVE  IsReordering(refs, p, other)
BY DEF IsReordering, Bijection, Injection, Surjection, IsInjective

LEMMA SameAt ==
  ASSUME NEW refs, NEW p, NEW other, IsReordering(refs, p, other), NEW s, NEW t
  PROVE  /\ \A k \in At(other, s, t) : p[k] \in At(refs, s, t) /\ other[k] = refs[p[k]]
         /\ \A k \in At(refs, s, t) : \E j \in At(other, s, t) : p[j] = k
<1>1. ASSUME NEW k \in At(other, s, t) PROVE p[k] \in At(refs, s, t) /\ other[k] = refs[p[k]]
  BY <1>1 DEF IsReordering, At
<1>2. ASSUME NEW k \in At(refs, s, t) PROVE \E j \in At(other, s, t) : p[j] = k
  <2>1. k \in DOMAIN refs
    BY DEF At
  <2>2. PICK j \in DOMAIN refs : p[j] = k
    BY <2>1 DEF IsReordering
  <2>3. j \in DOMAIN other /\ other[j] = refs[k]
    BY <2>2 DEF IsReordering
  <2>4. j \in At(other, s, t)
    BY <1>2, <2>3 DEF At
  <2> QED
    BY <2>2, <2>4
<1> QED
  BY <1>1, <1>2

LEMMA SameInstants ==
  ASSUME NEW refs, NEW p, NEW other, IsReordering(refs, p, other), NEW s
  PROVE  Instants(other, s) = Instants(refs, s)
<1>1. ASSUME NEW t PROVE At(other, s, t) # {} <=> At(refs, s, t) # {}
  <2>1. /\ \A k \in At(other, s, t) : p[k] \in At(refs, s, t)
        /\ \A k \in At(refs, s, t) : \E j \in At(other, s, t) : p[j] = k
    BY SameAt
  <2> QED
    BY <2>1
<1> QED
  BY <1>1 DEF Instants

LEMMA SameObserved ==
  ASSUME NEW refs, NEW p, NEW other, IsReordering(refs, p, other)
  PROVE  Observed(other) = Observed(refs)
<1>1. ASSUME NEW s \in Observed(other) PROVE s \in Observed(refs)
  <2>1. PICK k \in DOMAIN other : s = other[k].symbol
    BY DEF Observed
  <2>2. p[k] \in DOMAIN refs /\ other[k] = refs[p[k]]
    BY DEF IsReordering
  <2> QED
    BY <2>1, <2>2 DEF Observed
<1>2. ASSUME NEW s \in Observed(refs) PROVE s \in Observed(other)
  <2>1. PICK k \in DOMAIN refs : s = refs[k].symbol
    BY DEF Observed
  <2>2. PICK j \in DOMAIN refs : p[j] = k
    BY <2>1 DEF IsReordering
  <2>3. j \in DOMAIN other /\ other[j] = refs[k]
    BY <2>2 DEF IsReordering
  <2> QED
    BY <2>1, <2>3 DEF Observed
<1> QED
  BY <1>1, <1>2

LEMMA OpenSelectable ==
  ASSUME NEW refs, NEW p, NEW other, IsReordering(refs, p, other), stage # "close"
  PROVE  Selectable(refs) <=> Selectable(other)
<1>1. (\A k \in DOMAIN refs : DOMAIN refs[k].facts \subseteq Window)
      <=> (\A k \in DOMAIN other : DOMAIN other[k].facts \subseteq Window)
  <2>1. ASSUME \A k \in DOMAIN other : DOMAIN other[k].facts \subseteq Window,
               NEW k \in DOMAIN refs
        PROVE  DOMAIN refs[k].facts \subseteq Window
    <3>1. PICK j \in DOMAIN refs : p[j] = k
      BY DEF IsReordering
    <3>2. j \in DOMAIN other /\ other[j] = refs[k]
      BY <3>1 DEF IsReordering
    <3> QED
      BY <2>1, <3>2
  <2>2. ASSUME \A k \in DOMAIN refs : DOMAIN refs[k].facts \subseteq Window,
               NEW k \in DOMAIN other
        PROVE  DOMAIN other[k].facts \subseteq Window
    <3>1. p[k] \in DOMAIN refs /\ other[k] = refs[p[k]]
      BY DEF IsReordering
    <3>2. DOMAIN refs[p[k]].facts \subseteq Window
      BY <2>2, <3>1
    <3> QED
      BY <3>1, <3>2
  <2> QED
    BY <2>1, <2>2
<1>2. ASSUME NEW s, NEW t
      PROVE  (\E j, k \in At(refs, s, t) : refs[j].facts[t] # refs[k].facts[t])
             <=> (\E j, k \in At(other, s, t) : other[j].facts[t] # other[k].facts[t])
  <2>1. /\ \A k \in At(other, s, t) : p[k] \in At(refs, s, t) /\ other[k] = refs[p[k]]
        /\ \A k \in At(refs, s, t) : \E j \in At(other, s, t) : p[j] = k
    BY SameAt
  <2>2. ASSUME NEW j \in At(refs, s, t), NEW k \in At(refs, s, t),
               refs[j].facts[t] # refs[k].facts[t]
        PROVE  \E i, l \in At(other, s, t) : other[i].facts[t] # other[l].facts[t]
    <3>1. PICK i \in At(other, s, t) : other[i] = refs[j]
      BY <2>1
    <3>2. PICK l \in At(other, s, t) : other[l] = refs[k]
      BY <2>1
    <3> QED
      BY <2>2, <3>1, <3>2
  <2>3. ASSUME NEW j \in At(other, s, t), NEW k \in At(other, s, t),
               other[j].facts[t] # other[k].facts[t]
        PROVE  \E i, l \in At(refs, s, t) : refs[i].facts[t] # refs[l].facts[t]
    BY <2>1, <2>3
  <2> QED
    BY <2>2, <2>3
<1>3. Observed(other) = Observed(refs) /\ \A s : Instants(other, s) = Instants(refs, s)
  BY SameObserved, SameInstants
<1>4. AmbiguousOpen(refs) <=> AmbiguousOpen(other)
  <2>1. ASSUME NEW s \in Observed(refs)
        PROVE  (\E t \in Instants(refs, s) : \E j, k \in At(refs, s, t) :
                  refs[j].facts[t] # refs[k].facts[t])
               <=> (\E t \in Instants(other, s) : \E j, k \in At(other, s, t) :
                      other[j].facts[t] # other[k].facts[t])
    BY <1>2, <1>3
  <2> QED
    BY <1>3, <2>1 DEF AmbiguousOpen
<1> QED
  BY <1>1, <1>4 DEF Selectable

LEMMA SameTarget ==
  ASSUME NEW refs, IsRefs(refs), NEW p, NEW other, IsReordering(refs, p, other),
         IsRefs(other), NEW s \in WithTarget(refs)
  PROVE  Target(refs, s) = Target(other, s)
<1> DEFINE t == Max(Instants(refs, s))
           k == SelectedRef(refs, s)
           l == SelectedRef(other, s)
<1>1. Instants(other, s) = Instants(refs, s) /\ Observed(other) = Observed(refs)
  BY SameInstants, SameObserved
<1>2. k \in At(refs, s, t) /\ \A j \in At(refs, s, t) : refs[k].path <= refs[j].path
  BY SelectedIsThere
<1>3. l \in At(other, s, t) /\ \A j \in At(other, s, t) : other[l].path <= other[j].path
  <2>1. s \in WithTarget(other)
    BY <1>1 DEF WithTarget
  <2> QED
    BY <1>1, <2>1, SelectedIsThere
<1>4. Target(refs, s) = [capture |-> refs[k], at |-> t, price |-> refs[k].facts[t]]
  BY DEF Target
<1>5. Target(other, s) = [capture |-> other[l], at |-> t, price |-> other[l].facts[t]]
  BY <1>1 DEF Target
<1> HIDE DEF t, k, l
<1>6. p[l] \in At(refs, s, t) /\ other[l] = refs[p[l]]
  BY <1>3, SameAt
<1>7. PICK m \in At(other, s, t) : p[m] = k
  BY <1>2, SameAt
<1>8. other[m] = refs[k]
  BY <1>7, SameAt
<1>9. refs[k].path <= refs[p[l]].path /\ refs[p[l]].path <= refs[k].path
  BY <1>2, <1>3, <1>6, <1>7, <1>8
<1>10. /\ k \in DOMAIN refs /\ p[l] \in DOMAIN refs
       /\ refs[k].symbol = refs[p[l]].symbol
       /\ refs[k].path \in Nat /\ refs[p[l]].path \in Nat
  <2>1. /\ k \in DOMAIN refs /\ p[l] \in DOMAIN refs
        /\ refs[k].symbol = s /\ refs[p[l]].symbol = s
    BY <1>2, <1>6 DEF At
  <2>2. refs[k] \in Capture /\ refs[p[l]] \in Capture
    BY <2>1 DEF IsRefs
  <2> QED
    BY <2>1, <2>2 DEF Capture
<1>11. refs[k].path = refs[p[l]].path
  BY <1>9, <1>10
<1>12. k = p[l]
  BY <1>10, <1>11 DEF IsRefs
<1> QED
  BY <1>4, <1>5, <1>6, <1>12

(* Whether an open stage has its targets, and for every stage which, does  *)
(* not depend on the order of a snapshot's references.                     *)
THEOREM OrderIgnored == Spec => []SelectionIgnoresOrder
<1>1. IInv => SelectionIgnoresOrder
  <2> SUFFICES ASSUME IInv, NEW tree \in {store, work}, tree.snapshot # None,
                      NEW p \in Bijection(DOMAIN tree.snapshot.refs, DOMAIN tree.snapshot.refs), NEW other,
                      other = [k \in DOMAIN tree.snapshot.refs |-> tree.snapshot.refs[p[k]]]
               PROVE  /\ stage # "close" => (Selectable(tree.snapshot.refs) <=> Selectable(other))
                      /\ \A s \in WithTarget(tree.snapshot.refs) :
                           Target(tree.snapshot.refs, s) = Target(other, s)
    BY DEF SelectionIgnoresOrder, Reordered
  <2> DEFINE refs == tree.snapshot.refs
  <2>1. IsRefs(refs)
    BY DEF IInv, Snapshots, IsSnapshot
  <2> HIDE DEF refs
  <2>2. p \in Bijection(DOMAIN refs, DOMAIN refs) /\ other = [k \in DOMAIN refs |-> refs[p[k]]]
    BY DEF refs
  <2>3. IsReordering(refs, p, other)
    BY <2>2, Reordering
  <2>4. IsRefs(other)
    <3>1. /\ DOMAIN refs = 1 .. Len(refs) /\ Len(refs) \in Nat
          /\ \A k \in DOMAIN refs : refs[k] \in Capture
      BY <2>1 DEF IsRefs
    <3>2. \A k \in DOMAIN refs : other[k] \in Capture
      BY <2>3, <3>1 DEF IsReordering
    <3>3. other \in [1 .. Len(refs) -> Capture]
      BY <2>2, <3>1, <3>2
    <3>4. other \in Seq(Capture)
      BY <3>1, <3>3
    <3>5. ASSUME NEW j \in DOMAIN other, NEW k \in DOMAIN other,
                 other[j].symbol = other[k].symbol, other[j].path = other[k].path
          PROVE  j = k
      <4>1. /\ j \in DOMAIN refs /\ p[j] \in DOMAIN refs /\ other[j] = refs[p[j]]
            /\ k \in DOMAIN refs /\ p[k] \in DOMAIN refs /\ other[k] = refs[p[k]]
        BY <2>3 DEF IsReordering
      <4>2. p[j] = p[k]
        BY <2>1, <3>5, <4>1 DEF IsRefs
      <4> QED
        BY <2>3, <4>1, <4>2 DEF IsReordering
    <3> QED
      BY <3>4, <3>5 DEF IsRefs
  <2>5. stage # "close" => (Selectable(refs) <=> Selectable(other))
    BY <2>3, OpenSelectable
  <2>6. \A s \in WithTarget(refs) : Target(refs, s) = Target(other, s)
    BY <2>1, <2>3, <2>4, SameTarget
  <2> QED
    BY <2>5, <2>6 DEF refs
<1> QED
  BY <1>1, Invariant, PTL
=============================================================================
