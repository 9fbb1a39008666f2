------------------------ MODULE GuardedRecovery_proofs ------------------------
(***************************************************************************)
(* What GuardedRecovery promises, for any number of symbols, credits, runs *)
(* and pushes of other writers.                                            *)
(*                                                                         *)
(* The argument has two halves.  What a commit adds is sound with respect  *)
(* to the commit it was prepared on, and it reaches main only directly on  *)
(* top of that one (Sound).  What a run knows about main is exact as long  *)
(* as it runs, and once it is over at most one entry of it is still to     *)
(* come (Remote, Active, Reports).                                         *)
(***************************************************************************)
EXTENDS GuardedRecovery, FiniteSetTheorems, SequenceTheorems, TLAPS

Kinds == {Opening, Debit, Terminal, Facts, Other}

TreeSet == [credits : 0 .. PerDay, series : [Target -> Nat],
            archive : [Target -> Nat \cup {None}]]

Entry == [run : Nat, kind : Kinds, told : Counts \cup {None}, tree : TreeSet]

Commit == {c \in Seq(Entry) : c # << >> /\ c[1] = Root[1]}

Publication == [base : Commit, entry : Entry]

Prefix(c, d) == Len(c) <= Len(d) /\ \A i \in 1 .. Len(c) : c[i] = d[i]

(* A run has nothing in d after the prefix c.                              *)
NothingAfter(c, d, r) == \A i \in Len(c) + 1 .. Len(d) : d[i].run # r

Count(c, r) == Cardinality(On(c, r, Debit))

-----------------------------------------------------------------------------
(* What an entry may add to a commit, in run n at most, given the          *)
(* selections s.                                                           *)

(* Facts replace the selected histories; nothing else touches a history.   *)
Replaces(p, q, S) ==
  \A t \in Target :
    IF t \in S THEN /\ p.archive[t] = None /\ q.archive[t] = p.series[t]
                    /\ q.series[t] = p.series[t] + 1
               ELSE q.archive[t] = p.archive[t] /\ q.series[t] = p.series[t]

(* The last word of a run was not spoken yet.                              *)
Open(c, r) == On(c, r, Facts) = {} /\ On(c, r, Terminal) = {}

Sound(c, e, n, s) ==
  /\ e.run \in 1 .. n /\ e.kind \in {Opening, Debit, Terminal, Facts}
  /\ Open(c, e.run)
  /\ Replaces(Tree(c), e.tree, IF e.kind = Facts THEN s[e.run] ELSE {})
  /\ e.tree.credits = Tree(c).credits + (IF e.kind = Debit THEN 1 ELSE 0)
  /\ e.kind = Facts => Count(c, e.run) = Cardinality(s[e.run])
  /\ e.kind = Terminal =>
       e.told \in Counts /\ e.told.debits = Count(c, e.run) /\ e.told.doubt = 0

Foreign(e) == e.kind = Other /\ e.run = 0

Before(c, i) == SubSeq(c, 1, i - 1)

Good(c, n, s) == \A i \in 2 .. Len(c) : Foreign(c[i]) \/ Sound(Before(c, i), c[i], n, s)

(* What a run reported brackets what is on main and may still come.        *)
Pending(L, r, kind) == \E d \in L : d.entry.run = r /\ d.entry.kind = kind

Bracket(c, L, r, o) ==
  /\ o.confirmed \in Nat /\ o.unconfirmed \in 0 .. 1
  /\ o.confirmed <= Count(c, r)
  /\ Count(c, r) + (IF Pending(L, r, Debit) THEN 1 ELSE 0) <= o.confirmed + o.unconfirmed
  /\ o.requests <= o.confirmed
  /\ o.status = "PASS" => On(c, r, Facts) # {}
  /\ On(c, r, Facts) # {} \/ Pending(L, r, Facts) => o.candidate = Facts
  /\ o.unconfirmed = 1 => o.report # "CONFIRMED"

-----------------------------------------------------------------------------
(* The invariant.                                                          *)

Publishing == {"recheck", "check", "push", "readback", "verify"}

Types ==
  /\ main \in Commit /\ head \in Commit /\ late \subseteq Publication
  /\ outside \in 0 .. OutsideLimit /\ run \in 0 .. MaxRuns
  /\ pc \in Steps /\ phase \in {"work", "terminal"}
  /\ local \in {"clean", "dirty", "ahead"} /\ work \in 0 .. PerDay
  /\ old \in [Target -> Nat] /\ sel \in [Run -> SUBSET Target] /\ todo \subseteq Target
  /\ rep \in Counts /\ rep.requests <= rep.debits
  /\ results = [r \in Run |-> results[r]]
  /\ pc # "idle" => run > 0
  /\ pc \in Publishing => cand \in Publication

(* Main is made of sound entries, the verified head is part of it, and at  *)
(* most one entry of a finished run is on its way, on a part of main after *)
(* which its run has nothing.                                              *)
Remote ==
  /\ Good(main, run, sel) /\ Prefix(head, main)
  /\ \A i \in 1 .. Len(main) : main[i].run <= run
  /\ \A d \in late :
       /\ Prefix(d.base, main) /\ Sound(d.base, d.entry, run, sel)
       /\ NothingAfter(d.base, main, d.entry.run)
       /\ pc # "idle" => d.entry.run < run
       /\ \A e \in late : d.entry.run = e.entry.run => d = e

(* The entry under way is sound on the verified head, and the checkout     *)
(* holds its ledger.                                                       *)
Prepared ==
  /\ local = "clean" => work = Tree(head).credits
  /\ pc \in Publishing =>
       /\ cand.base = head /\ cand.entry.run = run /\ Sound(head, cand.entry, run, sel)
       /\ cand.entry.tree.credits = work
       /\ rep.doubt = 0
       /\ cand.entry.kind = Terminal <=> phase = "terminal"
       /\ pc = "recheck" => cand.entry.kind = Facts
       /\ pc \in {"check", "readback"} => cand.entry.kind # Facts
       /\ cand.entry.kind = Opening => todo = sel[run]
       /\ cand.entry.kind = Debit => todo # {} /\ Cardinality(todo) + work <= PerDay + 1
  /\ phase = "terminal" => pc \in {"report", "check", "push", "readback", "verify"}

(* While a run is active, everything of it on main is under its head, but  *)
(* for the entry it has just pushed.                                       *)
Active ==
  pc # "idle" =>
    /\ results[run] = None
    /\ Open(head, run)
    /\ Count(head, run) = rep.debits + (IF pc = "slot" THEN 1 ELSE 0)
    /\ pc \notin {"readback", "verify"} => NothingAfter(head, main, run)
    /\ pc \in {"readback", "verify"} => /\ Prefix(Candidate(cand), main)
                                        /\ NothingAfter(Candidate(cand), main, run)
    /\ rep.doubt = 1 => phase = "terminal" /\ local # "clean"
    /\ rep.debits + (IF pc = "slot" THEN 1 ELSE 0) <= Cardinality(sel[run])
    /\ pc = "begin" => rep = NoCounts

(* Every debit was for a symbol that is done with, and the batch is paid   *)
(* for to its end.                                                         *)
Funding ==
  pc \notin {"idle", "begin"} /\ phase = "work" =>
    /\ todo \subseteq sel[run]
    /\ Cardinality(todo) + rep.debits = Cardinality(sel[run]) + (IF pc = "request" THEN 1 ELSE 0)
    /\ pc = "report" => todo = sel[run]
    /\ pc = "request" => rep.requests < rep.debits
    /\ pc = "next" /\ todo # sel[run] => Cardinality(todo) + work <= PerDay
    /\ pc = "debit" => todo # {} /\ Cardinality(todo) + work <= PerDay
    /\ pc \in {"slot", "request"} => todo # {} /\ Cardinality(todo) + work <= PerDay + 1
    /\ pc = "stage" => todo = {}

(* Every report is true, and only of runs that ended.                      *)
Reports ==
  /\ \A r \in Run : results[r] # None => Bracket(main, late, r, results[r])
  /\ \A r \in Run : r > run => results[r] = None

IInv == Types /\ Remote /\ Prepared /\ Active /\ Funding /\ Reports
-----------------------------------------------------------------------------
(* Commits.                                                                *)

LEMMA AppendCommit ==
  ASSUME NEW c \in Commit, NEW e \in Entry
  PROVE  /\ Append(c, e) \in Commit
         /\ Len(c) \in Nat \ {0}
         /\ Len(Append(c, e)) = Len(c) + 1
         /\ \A i \in 1 .. Len(c) : Append(c, e)[i] = c[i]
         /\ Append(c, e)[Len(c) + 1] = e
         /\ Tree(Append(c, e)) = e.tree
         /\ Tree(c) \in TreeSet
<1>1. c \in Seq(Entry) /\ c # << >> /\ Len(c) \in Nat \ {0} /\ c[1] = Root[1]
  BY DEF Commit
<1>2. /\ Append(c, e) \in Seq(Entry)
      /\ Len(Append(c, e)) = Len(c) + 1
      /\ \A i \in 1 .. Len(c) : Append(c, e)[i] = c[i]
      /\ Append(c, e)[Len(c) + 1] = e
  BY <1>1
<1>3. Append(c, e) \in Commit
  <2>1. Append(c, e)[1] = c[1]
    BY <1>1, <1>2
  <2>2. Append(c, e) # << >>
    BY <1>1, <1>2
  <2> QED
    BY <1>1, <1>2, <2>1, <2>2 DEF Commit
<1>4. Tree(Append(c, e)) = e.tree
  BY <1>1, <1>2 DEF Tree, Last
<1>5. c[Len(c)] \in Entry
  BY <1>1
<1>6. Tree(c) \in TreeSet
  BY <1>5 DEF Tree, Last, Entry
<1> QED
  BY <1>1, <1>2, <1>3, <1>4, <1>6

LEMMA EntryType ==
  ASSUME NEW c \in Commit
  PROVE  DOMAIN c = 1 .. Len(c) /\ \A i \in 1 .. Len(c) : c[i] \in Entry /\ c[i].run \in Nat
<1>1. DOMAIN c = 1 .. Len(c) /\ \A i \in 1 .. Len(c) : c[i] \in Entry
  BY DEF Commit
<1> QED
  BY <1>1 DEF Entry

LEMMA PrefixAppend ==
  ASSUME NEW c \in Commit, NEW d \in Commit, NEW e \in Entry, Prefix(c, d)
  PROVE  /\ Prefix(c, Append(d, e))
         /\ \A r : NothingAfter(c, d, r) /\ e.run # r => NothingAfter(c, Append(d, e), r)
<1>1. /\ Len(c) \in Nat /\ Len(d) \in Nat
      /\ Len(Append(d, e)) = Len(d) + 1
      /\ \A i \in 1 .. Len(d) : Append(d, e)[i] = d[i]
      /\ Append(d, e)[Len(d) + 1] = e
  BY AppendCommit
<1>2. Prefix(c, Append(d, e))
  BY <1>1 DEF Prefix
<1>3. ASSUME NEW r, NothingAfter(c, d, r), e.run # r
      PROVE  NothingAfter(c, Append(d, e), r)
  BY <1>1, <1>3 DEF NothingAfter
<1> QED
  BY <1>2, <1>3

LEMMA PrefixSelf ==
  ASSUME NEW c \in Commit
  PROVE  Prefix(c, c) /\ \A r : NothingAfter(c, c, r)
BY DEF Prefix, NothingAfter, Commit

LEMMA OnAppend ==
  ASSUME NEW c \in Commit, NEW e \in Entry, NEW r, NEW kind
  PROVE  IF e.run = r /\ e.kind = kind
         THEN On(Append(c, e), r, kind) = On(c, r, kind) \cup {Len(c) + 1}
         ELSE On(Append(c, e), r, kind) = On(c, r, kind)
<1>1. DOMAIN c = 1 .. Len(c) /\ DOMAIN Append(c, e) = 1 .. Len(c) + 1
  BY AppendCommit DEF Commit
<1> QED
  BY <1>1, AppendCommit DEF On

LEMMA CountType ==
  ASSUME NEW c \in Commit, NEW r
  PROVE  /\ Count(c, r) \in Nat /\ IsFiniteSet(On(c, r, Debit))
         /\ Len(c) + 1 \notin On(c, r, Debit)
<1>1. DOMAIN c = 1 .. Len(c) /\ Len(c) \in Nat
  BY DEF Commit
<1>2. On(c, r, Debit) \subseteq 1 .. Len(c)
  BY <1>1 DEF On
<1>3. IsFiniteSet(1 .. Len(c))
  BY <1>1, FS_Interval
<1>4. IsFiniteSet(On(c, r, Debit))
  BY <1>2, <1>3, FS_Subset
<1> QED
  BY <1>1, <1>2, <1>4, FS_CardinalityType DEF Count

LEMMA CountAppend ==
  ASSUME NEW c \in Commit, NEW e \in Entry, NEW r
  PROVE  Count(Append(c, e), r) =
           Count(c, r) + (IF e.run = r /\ e.kind = Debit THEN 1 ELSE 0)
<1>2. IsFiniteSet(On(c, r, Debit)) /\ Len(c) + 1 \notin On(c, r, Debit) /\ Count(c, r) \in Nat
  BY CountType
<1>3. CASE e.run = r /\ e.kind = Debit
  <2>1. On(Append(c, e), r, Debit) = On(c, r, Debit) \cup {Len(c) + 1}
    BY <1>3, OnAppend
  <2>2. Cardinality(On(c, r, Debit) \cup {Len(c) + 1}) = Cardinality(On(c, r, Debit)) + 1
    BY <1>2, FS_AddElement
  <2> QED
    BY <2>1, <2>2, <1>3 DEF Count
<1>4. CASE ~(e.run = r /\ e.kind = Debit)
  <2>1. On(Append(c, e), r, Debit) = On(c, r, Debit)
    BY <1>4, OnAppend
  <2> QED
    BY <2>1, <1>2, <1>4 DEF Count
<1> QED
  BY <1>3, <1>4

LEMMA OnExtend ==
  ASSUME NEW c \in Commit, NEW d \in Commit, NEW r, Prefix(c, d), NothingAfter(c, d, r)
  PROVE  (\A kind : On(d, r, kind) = On(c, r, kind)) /\ Count(d, r) = Count(c, r)
<1>1. DOMAIN c = 1 .. Len(c) /\ DOMAIN d = 1 .. Len(d) /\ Len(c) \in Nat /\ Len(d) \in Nat
  BY DEF Commit
<1>2. ASSUME NEW kind  PROVE On(d, r, kind) = On(c, r, kind)
  BY <1>1 DEF On, Prefix, NothingAfter
<1> QED
  BY <1>2 DEF Count

LEMMA SoundLater ==
  ASSUME NEW c, NEW e, NEW n \in Nat, NEW s, NEW m \in Nat, NEW z,
         Sound(c, e, n, s), n <= m, \A r \in 1 .. n : z[r] = s[r]
  PROVE  Sound(c, e, m, z)
BY DEF Sound

LEMMA GoodLater ==
  ASSUME NEW c, NEW n \in Nat, NEW s, NEW m \in Nat, NEW z,
         Good(c, n, s), n <= m, \A r \in 1 .. n : z[r] = s[r]
  PROVE  Good(c, m, z)
BY SoundLater DEF Good

LEMMA GoodAppend ==
  ASSUME NEW c \in Commit, NEW e \in Entry, NEW n, NEW s,
         Good(c, n, s), Foreign(e) \/ Sound(c, e, n, s)
  PROVE  Good(Append(c, e), n, s)
<1>1. /\ Len(c) \in Nat \ {0} /\ Len(Append(c, e)) = Len(c) + 1
      /\ \A i \in 1 .. Len(c) : Append(c, e)[i] = c[i]
      /\ Append(c, e)[Len(c) + 1] = e
  BY AppendCommit
<1>2. c \in Seq(Entry)
  BY DEF Commit
<1>3. ASSUME NEW i \in 2 .. Len(c) + 1  PROVE Before(Append(c, e), i) = SubSeq(c, 1, i - 1)
  BY <1>1, <1>2 DEF Before
<1>4. SubSeq(c, 1, Len(c)) = c
  BY <1>2
<1>5. ASSUME NEW i \in 2 .. Len(c) + 1
      PROVE  \/ Foreign(Append(c, e)[i])
             \/ Sound(Before(Append(c, e), i), Append(c, e)[i], n, s)
  <2>1. CASE i = Len(c) + 1
    <3>1. Before(Append(c, e), i) = c
      BY <1>1, <1>3, <1>4, <2>1
    <3> QED
      BY <1>1, <2>1, <3>1
  <2>2. CASE i # Len(c) + 1
    <3>1. i \in 2 .. Len(c) /\ Append(c, e)[i] = c[i]
      BY <1>1, <2>2
    <3>2. Before(Append(c, e), i) = Before(c, i)
      BY <1>3 DEF Before
    <3> QED
      BY <3>1, <3>2 DEF Good
  <2> QED
    BY <2>1, <2>2
<1> QED
  BY <1>1, <1>5 DEF Good

(* A report stays true when its run adds nothing.                          *)
LEMMA BracketStays ==
  ASSUME NEW c \in Commit, NEW L, NEW K, NEW r, NEW o, Bracket(c, L, r, o),
         \A d \in K : d \in L \/ d.entry.run # r
  PROVE  /\ Bracket(c, K, r, o)
         /\ \A e \in Entry : e.run # r => Bracket(Append(c, e), K, r, o)
<1>1. \A kind : Pending(K, r, kind) => Pending(L, r, kind)
  BY DEF Pending
<1>2. Count(c, r) \in Nat
  BY CountType
<1>3. Bracket(c, K, r, o)
  BY <1>1, <1>2 DEF Bracket
<1>4. ASSUME NEW e \in Entry, e.run # r  PROVE Bracket(Append(c, e), K, r, o)
  <2>1. Count(Append(c, e), r) = Count(c, r)
    BY <1>2, <1>4, CountAppend
  <2>2. On(Append(c, e), r, Facts) = On(c, r, Facts)
    BY <1>4, OnAppend
  <2> QED
    BY <1>3, <2>1, <2>2 DEF Bracket
<1> QED
  BY <1>3, <1>4

(* Nor does the one entry that was still to come make it untrue.           *)
LEMMA BracketLands ==
  ASSUME NEW c \in Commit, NEW L, NEW r, NEW o, Bracket(c, L, r, o),
         NEW d \in L, d.entry \in Entry, d.entry.run = r,
         \A e \in L : e.entry.run = r => e = d
  PROVE  Bracket(Append(c, d.entry), L \ {d}, r, o)
<1>1. \A kind : ~Pending(L \ {d}, r, kind)
  BY DEF Pending
<1>2. Count(c, r) \in Nat
  BY CountType
<1>3. Count(Append(c, d.entry), r) = Count(c, r) + (IF d.entry.kind = Debit THEN 1 ELSE 0)
  BY CountAppend
<1>4. IF d.entry.kind = Facts THEN On(Append(c, d.entry), r, Facts) = On(c, r, Facts) \cup {Len(c) + 1}
      ELSE On(Append(c, d.entry), r, Facts) = On(c, r, Facts)
  BY OnAppend
<1>5. d.entry.kind = Debit => Pending(L, r, Debit)
  BY DEF Pending
<1>6. d.entry.kind = Facts => Pending(L, r, Facts)
  BY DEF Pending
<1>7. On(c, r, Facts) # {} => On(Append(c, d.entry), r, Facts) # {}
  BY <1>4
<1>8. On(Append(c, d.entry), r, Facts) # {} => o.candidate = Facts
  BY <1>4, <1>6 DEF Bracket
<1>9. /\ o.confirmed <= Count(Append(c, d.entry), r)
      /\ Count(Append(c, d.entry), r) <= o.confirmed + o.unconfirmed
  BY <1>2, <1>3, <1>5 DEF Bracket
<1>10. ~Pending(L \ {d}, r, Debit) /\ ~Pending(L \ {d}, r, Facts)
  BY <1>1
<1>11. Count(Append(c, d.entry), r) \in Nat
  BY AppendCommit, CountType
<1> QED
  BY <1>7, <1>8, <1>9, <1>10, <1>11 DEF Bracket

-----------------------------------------------------------------------------
(* What an active run knows.                                               *)

LEMMA SelectedFinite ==
  ASSUME Types, NEW r \in Run
  PROVE  /\ IsFiniteSet(sel[r]) /\ Cardinality(sel[r]) \in Nat
         /\ Cardinality(sel[r]) <= Cardinality(Target) /\ Cardinality(Target) \in Nat
<1>1. sel[r] \subseteq Target
  BY DEF Types
<1>2. IsFiniteSet(Target)
  BY RecoveryAssumption
<1> QED
  BY <1>1, <1>2, FS_Subset, FS_CardinalityType

LEMMA TodoFinite ==
  ASSUME Types
  PROVE  IsFiniteSet(todo) /\ Cardinality(todo) \in Nat
<1>1. todo \subseteq Target
  BY DEF Types
<1>2. IsFiniteSet(Target)
  BY RecoveryAssumption
<1> QED
  BY <1>1, <1>2, FS_Subset, FS_CardinalityType

LEMMA NothingPending ==
  ASSUME Types, Remote, pc # "idle"
  PROVE  /\ run \in Run
         /\ \A kind : ~Pending(late, run, kind)
BY RecoveryAssumption DEF Types, Remote, Pending, Run

LEMMA MineOnMain ==
  ASSUME Types, Remote, Active, pc \notin {"idle", "readback", "verify"}
  PROVE  /\ \A kind : On(main, run, kind) = On(head, run, kind)
         /\ Count(main, run) = Count(head, run)
BY OnExtend DEF Types, Remote, Active

LEMMA CandidateType ==
  ASSUME Types, Prepared, pc \in Publishing
  PROVE  /\ cand.entry \in Entry /\ Candidate(cand) = Append(head, cand.entry)
         /\ Candidate(cand) \in Commit /\ Tree(Candidate(cand)) = cand.entry.tree
<1>1. cand.entry \in Entry /\ cand.base = head /\ head \in Commit
  BY DEF Types, Prepared, Publication
<1> QED
  BY <1>1, AppendCommit DEF Candidate

(* What it has on main right after a push.                                 *)
LEMMA MinePushed ==
  ASSUME Types, Remote, Prepared, Active, pc \in {"readback", "verify"}
  PROVE  /\ Count(main, run) = rep.debits + (IF cand.entry.kind = Debit THEN 1 ELSE 0)
         /\ On(main, run, Facts) # {} <=> cand.entry.kind = Facts
         /\ rep.debits \in Nat
<1>1. pc \in Publishing
  BY DEF Publishing
<1>2. /\ \A kind : On(main, run, kind) = On(Candidate(cand), run, kind)
      /\ Count(main, run) = Count(Candidate(cand), run)
  BY <1>1, CandidateType, OnExtend DEF Types, Active
<1>3. cand.entry \in Entry /\ Candidate(cand) = Append(head, cand.entry) /\ cand.entry.run = run
  BY <1>1, CandidateType DEF Prepared
<1>4. Count(head, run) = rep.debits /\ On(head, run, Facts) = {} /\ head \in Commit
  <2>1. rep.debits \in Nat
    BY DEF Types, Counts
  <2> QED
    BY <2>1 DEF Active, Types, Open
<1>5. Count(Candidate(cand), run) = rep.debits + (IF cand.entry.kind = Debit THEN 1 ELSE 0)
  BY <1>3, <1>4, CountAppend
<1>6. IF cand.entry.kind = Facts THEN On(Candidate(cand), run, Facts) = {} \cup {Len(head) + 1}
      ELSE On(Candidate(cand), run, Facts) = {}
  BY <1>3, <1>4, OnAppend
<1>7. rep.debits \in Nat
  BY DEF Types, Counts
<1> QED
  BY <1>2, <1>5, <1>6, <1>7

LEMMA DoubtedCounts ==
  ASSUME Types
  PROVE  /\ Doubted \in Counts /\ Doubted.debits = rep.debits /\ Doubted.requests = rep.requests
         /\ Doubted.doubt = IF cand.entry.kind = Debit THEN 1 ELSE rep.doubt
<1>1. rep \in Counts
  BY DEF Types
<1>2. CASE cand.entry.kind = Debit
  BY <1>1, <1>2 DEF Doubted, Counts
<1>3. CASE cand.entry.kind # Debit
  BY <1>1, <1>3 DEF Doubted
<1> QED
  BY <1>2, <1>3

-----------------------------------------------------------------------------
(* How a run goes on and how it ends.                                      *)

(* A step of the active run that leaves main alone.                        *)
LEMMA QuietRemote ==
  ASSUME Types, Remote, pc # "idle", UNCHANGED <<main, late, run, sel>>, head' = head
  PROVE  Remote'
BY DEF Remote

LEMMA QuietReports ==
  ASSUME Reports, UNCHANGED <<main, late, run, results>>
  PROVE  Reports'
BY DEF Reports

(* A true report ends a run.                                               *)
LEMMA FinishReports ==
  ASSUME IInv, pc # "idle", NEW status, NEW report, NEW candidate,
         Finish(status, report, candidate), UNCHANGED <<main, run>>,
         \A d \in late' : d \in late \/ d.entry.run = run,
         rep'.debits \in Nat, rep'.doubt \in 0 .. 1, rep'.requests <= rep'.debits,
         rep'.debits <= Count(main, run),
         Count(main, run) + (IF Pending(late', run, Debit) THEN 1 ELSE 0)
           <= rep'.debits + rep'.doubt,
         status = "PASS" => On(main, run, Facts) # {},
         On(main, run, Facts) # {} \/ Pending(late', run, Facts) => candidate = Facts,
         rep'.doubt = 1 => report # "CONFIRMED"
  PROVE  Reports' /\ results' = [r \in Run |-> results'[r]]
<1>1. run \in Run /\ results = [r \in Run |-> results[r]] /\ main \in Commit
  BY NothingPending DEF IInv, Types
<1> DEFINE o == [status |-> status, report |-> report, candidate |-> candidate,
                 confirmed |-> rep'.debits, unconfirmed |-> rep'.doubt,
                 requests |-> rep'.requests]
<1>2. results' = [results EXCEPT ![run] = o]
  BY DEF Finish
<1>3. /\ results'[run] = o /\ \A r \in Run \ {run} : results'[r] = results[r]
      /\ results' = [r \in Run |-> results'[r]]
  BY <1>1, <1>2
<1>4. Bracket(main, late', run, o)
  BY DEF Bracket
<1> HIDE DEF o
<1>5. ASSUME NEW r \in Run, r # run, results[r] # None
      PROVE  Bracket(main, late', r, results[r])
  <2>1. Bracket(main, late, r, results[r])
    BY <1>5 DEF IInv, Reports
  <2>2. \A d \in late' : d \in late \/ d.entry.run # r
    BY <1>5
  <2> QED
    BY <1>1, <2>1, <2>2, BracketStays
<1>6. \A r \in Run : r > run => r # run /\ results[r] = None
  BY <1>1 DEF IInv, Reports, Run
<1> QED
  BY <1>1, <1>3, <1>4, <1>5, <1>6 DEF Reports

(* A run that ends without moving main leaves the rest as it is.           *)
LEMMA Ends ==
  ASSUME IInv, pc # "idle", pc' = "idle", phase' = "work",
         UNCHANGED <<main, late, outside, run, sel, head, old>>,
         work' = work \/ (work' \in 0 .. PerDay /\ local' = "dirty"),
         local' \in {local, "dirty", "ahead"}, todo' \subseteq Target,
         rep' \in Counts, rep'.requests <= rep'.debits,
         results' = [r \in Run |-> results'[r]], Reports'
  PROVE  IInv'
<1>1. Types'
  BY DEF IInv, Types, Publishing, Steps
<1>2. Remote'
  BY QuietRemote DEF IInv
<1>3. Prepared'
  BY DEF IInv, Prepared, Publishing
<1>4. Active' /\ Funding'
  BY DEF Active, Funding
<1> QED
  BY <1>1, <1>2, <1>3, <1>4 DEF IInv

(* An exception without a publication in it.                               *)
LEMMA Fails ==
  ASSUME IInv, pc \notin {"idle", "begin", "readback", "verify"}, Fail,
         UNCHANGED <<main, late, outside, run, sel, head, old>>,
         work' = work \/ (work' \in 0 .. PerDay /\ local' = "dirty"),
         local' \in {local, "dirty", "ahead"}, todo' \subseteq Target,
         rep' \in Counts, rep'.requests <= rep'.debits,
         Count(head, run) = rep'.debits,
         rep'.doubt = 1 => local' # "clean"
  PROVE  IInv'
<1>1. Count(main, run) = Count(head, run) /\ On(main, run, Facts) = {}
  BY MineOnMain DEF IInv, Active, Open
<1>2. rep'.debits \in Nat /\ rep'.doubt \in 0 .. 1
  BY DEF Counts
<1>3. CASE phase = "work" /\ pc' = "report" /\ phase' = "terminal" /\ UNCHANGED results
  <2>1. Types'
    BY <1>3 DEF IInv, Types, Publishing, Steps
  <2>2. Remote'
    BY QuietRemote DEF IInv
  <2>3. Prepared'
    BY <1>3 DEF IInv, Prepared, Publishing
  <2>4. rep'.debits <= Cardinality(sel[run])
    BY DEF IInv, Active
  <2>5. Active'
    BY <1>2, <1>3, <2>4 DEF IInv, Active
  <2>6. Funding'
    BY <1>3 DEF Funding
  <2>7. Reports'
    BY <1>3, QuietReports DEF IInv
  <2> QED
    BY <2>1, <2>2, <2>3, <2>5, <2>6, <2>7 DEF IInv
<1>4. CASE phase = "terminal" /\ Finish("BLOCKED", "UNCONFIRMED", None)
  <2>1. ~Pending(late', run, Debit) /\ ~Pending(late', run, Facts)
    BY NothingPending DEF IInv
  <2>2. Reports' /\ results' = [r \in Run |-> results'[r]]
    BY <1>1, <1>2, <1>4, <2>1, FinishReports
  <2>3. pc' = "idle" /\ phase' = "work"
    BY <1>4 DEF Finish
  <2> QED
    BY <2>2, <2>3, Ends
<1> QED
  BY <1>3, <1>4 DEF Fail

(* An exception after the push was acknowledged.                           *)
LEMMA FailsPushed ==
  ASSUME IInv, pc \in {"readback", "verify"}, rep' = Doubted, FailInDoubt,
         UNCHANGED <<main, late, outside, run, sel, head, local, work, old, todo, cand>>
  PROVE  IInv'
<1>1. /\ Count(main, run) = rep.debits + (IF cand.entry.kind = Debit THEN 1 ELSE 0)
      /\ On(main, run, Facts) # {} <=> cand.entry.kind = Facts
      /\ rep.debits \in Nat /\ rep.doubt = 0 /\ rep.requests <= rep.debits
      /\ cand.entry.kind = Terminal <=> phase = "terminal"
  BY MinePushed DEF IInv, Prepared, Publishing, Types
<1>2. /\ rep' \in Counts /\ rep'.debits = rep.debits /\ rep'.requests = rep.requests
      /\ rep'.doubt = IF cand.entry.kind = Debit THEN 1 ELSE 0
  BY <1>1, DoubtedCounts DEF IInv
<1>3. ~Pending(late', run, Debit) /\ ~Pending(late', run, Facts)
  BY NothingPending DEF IInv
<1>4. Reports' /\ results' = [r \in Run |-> results'[r]]
  <2>1. CASE phase = "work" /\ Finish("BLOCKED", "NOT_ATTEMPTED", cand.entry.kind)
    BY <1>1, <1>2, <1>3, <2>1, FinishReports
  <2>2. CASE phase = "terminal" /\ Finish("BLOCKED", "UNCONFIRMED", None)
    BY <1>1, <1>2, <1>3, <2>2, FinishReports DEF Terminal, Facts
  <2> QED
    BY <2>1, <2>2 DEF FailInDoubt
<1>5. pc' = "idle" /\ phase' = "work"
  BY DEF FailInDoubt, Finish
<1>6. todo' \subseteq Target
  BY DEF IInv, Types
<1> QED
  BY <1>1, <1>2, <1>4, <1>5, <1>6, Ends

-----------------------------------------------------------------------------
(* Every step preserves the invariant.                                     *)

LEMMA InitEstablishes == Init => IInv
<1> SUFFICES ASSUME Init  PROVE IInv
  OBVIOUS
<1>1. Root[1] \in Entry
  BY RecoveryAssumption DEF Root, EmptyTree, Entry, Kinds, TreeSet, Other
<1>2. Root \in Commit /\ Len(Root) = 1
  BY <1>1 DEF Commit, Root
<1>3. Cardinality(Target) \in Nat
  BY RecoveryAssumption, FS_CardinalityType
<1>4. NoCounts \in Counts /\ NoCounts.requests <= NoCounts.debits
  BY <1>3 DEF NoCounts, Counts
<1>5. Tree(Root).credits = 0
  BY <1>2 DEF Tree, Last, Root, EmptyTree
<1>6. Types
  BY <1>2, <1>4, RecoveryAssumption DEF Init, Types, Steps, Publishing, EmptyTree
<1>7. Remote
  BY <1>2, PrefixSelf DEF Init, Remote, Good, Root
<1>8. Prepared /\ Active /\ Funding
  BY <1>5 DEF Init, Prepared, Active, Funding, Publishing
<1>9. Reports
  BY DEF Init, Reports
<1> QED
  BY <1>6, <1>7, <1>8, <1>9 DEF IInv

LEMMA DispatchStep == IInv /\ Dispatch => IInv'
<1> SUFFICES ASSUME IInv, Dispatch  PROVE IInv'
  OBVIOUS
<1>1. PICK S \in (SUBSET Target) \ {{}} : sel' = [sel EXCEPT ![run + 1] = S]
  BY DEF Dispatch
<1>2. /\ run' = run + 1 /\ run \in Nat /\ run + 1 \in Run /\ run \in 0 .. MaxRuns
      /\ head' = main /\ main' = main /\ late' = late /\ results' = results
      /\ local' = "clean" /\ work' = Tree(main).credits /\ rep' = NoCounts
      /\ pc' = "begin" /\ pc = "idle" /\ phase' = phase
  BY RecoveryAssumption DEF Dispatch, Goto, remoteVars, IInv, Types, Run
<1>3. sel' \in [Run -> SUBSET Target] /\ \A r \in 1 .. run : sel'[r] = sel[r]
  BY <1>1, <1>2, RecoveryAssumption DEF IInv, Types, Run
<1>4. Tree(main) \in TreeSet /\ main \in Commit
  <2>1. main \in Commit
    BY DEF IInv, Types
  <2>2. main[Len(main)] \in Entry
    BY <2>1 DEF Commit
  <2> QED
    BY <2>1, <2>2 DEF Tree, Last, Entry
<1>5. NoCounts \in Counts /\ NoCounts.requests <= NoCounts.debits /\ NoCounts.debits = 0
      /\ NoCounts.doubt = 0
  BY RecoveryAssumption, FS_CardinalityType DEF NoCounts, Counts
<1>6. Types'
  BY <1>2, <1>3, <1>4, <1>5, RecoveryAssumption
  DEF Dispatch, Goto, remoteVars, IInv, Types, Steps, Publishing, TreeSet, Run
<1>7. Remote'
  <2>1. Good(main, run', sel')
    BY <1>2, <1>3, GoodLater DEF IInv, Remote
  <2>2. \A d \in late : Sound(d.base, d.entry, run', sel') /\ d.entry.run < run'
    <3> SUFFICES ASSUME NEW d \in late  PROVE Sound(d.base, d.entry, run', sel') /\ d.entry.run < run'
      OBVIOUS
    <3>1. Sound(d.base, d.entry, run, sel)
      BY DEF IInv, Remote
    <3>2. d.entry.run < run'
      BY <1>2, <3>1 DEF Sound
    <3> QED
      BY <1>2, <1>3, <3>1, <3>2, SoundLater
  <2>3. \A i \in 1 .. Len(main) : main[i].run <= run'
    <3> SUFFICES ASSUME NEW i \in 1 .. Len(main)  PROVE main[i].run <= run'
      OBVIOUS
    <3>1. main[i].run \in Nat /\ main[i].run <= run
      BY <1>4, EntryType DEF IInv, Remote
    <3> QED
      BY <1>2, <3>1
  <2>4. Prefix(main, main)
    BY <1>4, PrefixSelf
  <2> QED
    BY <1>2, <2>1, <2>2, <2>3, <2>4 DEF IInv, Remote
<1>8. Prepared'
  BY <1>2 DEF IInv, Prepared, Publishing
<1>9. \A kind : On(main, run + 1, kind) = {}
  <2>1. \A i \in DOMAIN main : main[i].run \in Nat /\ main[i].run <= run
    BY <1>4, EntryType DEF IInv, Remote
  <2> QED
    BY <1>2, <2>1 DEF On
<1>10. Count(main, run + 1) = 0
  BY <1>9, FS_EmptySet DEF Count
<1>11. Active'
  <2>1. results[run + 1] = None
    BY <1>2 DEF IInv, Reports
  <2>2. Types' /\ run' \in Run
    BY <1>2, <1>6
  <2>3. sel'[run'] \in SUBSET Target
    BY <1>2, <1>3
  <2>4. Cardinality(sel'[run']) \in Nat
    BY <2>3, RecoveryAssumption, FS_Subset, FS_CardinalityType
  <2> QED
    BY <1>2, <1>4, <1>5, <1>9, <1>10, <2>1, <2>4, PrefixSelf DEF Active, Open
<1>12. Funding'
  BY <1>2 DEF Funding
<1>13. Reports'
  BY <1>2 DEF IInv, Reports, Run
<1> QED
  BY <1>6, <1>7, <1>8, <1>11, <1>12, <1>13 DEF IInv

LEMMA BeginStep == IInv /\ Begin => IInv'
<1> SUFFICES ASSUME IInv, Begin  PROVE IInv'
  OBVIOUS
<1>0. /\ pc = "begin" /\ rep' = rep /\ rep = NoCounts /\ rep.debits = 0 /\ rep.requests = 0
      /\ rep.doubt = 0 /\ rep \in Counts
      /\ UNCHANGED <<main, late, outside, run, sel, head, local, work, cand>>
  BY DEF Begin, remoteVars, checkout, IInv, Active, NoCounts, Types
<1>1. CASE /\ old' = Tree(head).series /\ todo' = sel[run]
           /\ Goto("report")
  <2>1. run \in Run /\ phase = "work"
    BY <1>0, NothingPending DEF IInv, Prepared, Types
  <2>2. Tree(head).series \in [Target -> Nat]
    <3>1. head \in Commit
      BY DEF IInv, Types
    <3>2. head[Len(head)] \in Entry
      BY <3>1 DEF Commit
    <3> QED
      BY <3>1, <3>2 DEF Tree, Last, Entry, TreeSet
  <2>3. Types'
    BY <1>0, <1>1, <2>1, <2>2 DEF Goto, IInv, Types, Steps, Publishing
  <2>4. Remote'
    BY <1>0, QuietRemote DEF IInv
  <2>5. Prepared'
    BY <1>0, <1>1, <2>1 DEF Goto, IInv, Prepared, Publishing
  <2>6. Active'
    BY <1>0, <1>1 DEF Goto, IInv, Active
  <2>7. Funding'
    <3>1. Cardinality(sel[run]) \in Nat
      BY <2>1, SelectedFinite DEF IInv
    <3> QED
      BY <1>0, <1>1, <2>1, <3>1 DEF Goto, Funding
  <2>8. Reports'
    BY <1>0, <1>1, QuietReports DEF Goto, IInv
  <2> QED
    BY <2>3, <2>4, <2>5, <2>6, <2>7, <2>8 DEF IInv
<1>2. CASE Finish("BLOCKED", None, None) /\ UNCHANGED <<old, todo>>
  <2>1. Count(main, run) = 0 /\ On(main, run, Facts) = {}
    BY <1>0, MineOnMain DEF IInv, Active, Open
  <2>2. ~Pending(late', run, Debit) /\ ~Pending(late', run, Facts)
    BY <1>0, NothingPending DEF IInv
  <2>3. Reports' /\ results' = [r \in Run |-> results'[r]]
    BY <1>0, <1>2, <2>1, <2>2, FinishReports
  <2>4. pc' = "idle" /\ phase' = "work"
    BY <1>2 DEF Finish
  <2>5. todo' \subseteq Target /\ local' = local
    BY <1>0, <1>2 DEF IInv, Types
  <2> QED
    BY <1>0, <1>2, <2>3, <2>4, <2>5, Ends
<1> QED
  BY <1>1, <1>2 DEF Begin

(* What a publication adds to the verified head is sound.                  *)
LEMMA TreeOfHead ==
  ASSUME Types
  PROVE  /\ head \in Commit /\ Tree(head) \in TreeSet
         /\ \A x \in 0 .. PerDay : /\ [Tree(head) EXCEPT !.credits = x] \in TreeSet
                                   /\ [Tree(head) EXCEPT !.credits = x].credits = x
                                   /\ Replaces(Tree(head), [Tree(head) EXCEPT !.credits = x], {})
<1>1. head \in Commit
  BY DEF Types
<1>2. Tree(head) \in TreeSet
  <2>1. head[Len(head)] \in Entry
    BY <1>1 DEF Commit
  <2> QED
    BY <2>1 DEF Tree, Last, Entry
<1> QED
  BY <1>1, <1>2 DEF TreeSet, Replaces

LEMMA WriteReportStep == IInv /\ WriteReport => IInv'
<1> SUFFICES ASSUME IInv, WriteReport  PROVE IInv'
  OBVIOUS
<1>0. /\ pc = "report" /\ rep' = rep
      /\ UNCHANGED <<main, late, outside, run, sel, head, work, old, todo>>
  BY DEF WriteReport, remoteVars
<1>1. /\ run \in Run /\ rep \in Counts /\ rep.requests <= rep.debits /\ todo \subseteq Target
      /\ Count(head, run) = rep.debits /\ rep.doubt \in 0 .. 1 /\ rep.debits \in Nat
  <2>1. rep.debits \in Nat /\ rep.doubt \in 0 .. 1
    BY DEF IInv, Types, Counts
  <2> QED
    BY <1>0, <2>1, NothingPending DEF IInv, Types, Active
<1>2. CASE /\ Current
           /\ Propose(IF phase = "work" THEN Opening ELSE Terminal, rep,
                      [Tree(head) EXCEPT !.credits = work])
           /\ local' = "dirty" /\ Goto("check")
  <2> DEFINE k == IF phase = "work" THEN Opening ELSE Terminal
             tree == [Tree(head) EXCEPT !.credits = work]
             e == [run |-> run, kind |-> k, told |-> rep, tree |-> tree]
  <2>1. cand' = [base |-> head, entry |-> e]
    BY <1>2 DEF Propose
  <2>2. tree \in TreeSet /\ tree.credits = work /\ Replaces(Tree(head), tree, {})
    BY TreeOfHead DEF IInv, Types
  <2>3. work = Tree(head).credits /\ rep.doubt = 0
    BY <1>0, <1>1, <1>2 DEF Current, IInv, Prepared, Active
  <2>4. Tree(head).credits \in Nat
    BY TreeOfHead DEF IInv, TreeSet
  <2> HIDE DEF tree
  <2>5. e \in Entry /\ e.kind = k /\ e.run = run /\ e.tree = tree /\ e.told = rep
    BY <1>1, <2>2 DEF Entry, Kinds, Run
  <2>6. run \in 1 .. run /\ Open(head, run)
    BY <1>0, <1>1, RecoveryAssumption DEF Run, IInv, Active
  <2>7. k \in {Opening, Terminal} /\ (k = Terminal <=> phase = "terminal")
    BY DEF Opening, Terminal, IInv, Types
  <2>8. Sound(head, e, run, sel)
    BY <1>1, <2>2, <2>3, <2>4, <2>5, <2>6, <2>7 DEF Sound, Opening, Terminal, Facts, Debit
  <2> HIDE DEF e, k
  <2>9. cand' \in Publication /\ cand'.base = head /\ cand'.entry = e
    BY <2>1, <2>5, TreeOfHead DEF IInv, Publication
  <2>10. Types'
    BY <1>0, <1>2, <2>9 DEF Goto, IInv, Types, Steps
  <2>11. Remote'
    BY <1>0, QuietRemote DEF IInv
  <2>12. e.kind = Opening => todo = sel[run]
    BY <1>0, <2>5 DEF k, Opening, Terminal, IInv, Funding
  <2>13. Prepared'
    BY <1>0, <1>2, <2>2, <2>3, <2>5, <2>7, <2>8, <2>9, <2>12
    DEF Goto, IInv, Prepared, Publishing, Opening, Terminal, Facts, Debit
  <2>14. Active'
    BY <1>0, <1>1, <1>2, <2>3 DEF Goto, IInv, Active
  <2>15. Funding'
    BY <1>0, <1>2 DEF Goto, IInv, Funding
  <2>16. Reports'
    BY <1>0, <1>2, QuietReports DEF Goto, IInv
  <2> QED
    BY <2>10, <2>11, <2>13, <2>14, <2>15, <2>16 DEF IInv
<1>3. CASE Fail /\ local' \in {local, "dirty"} /\ UNCHANGED cand
  BY <1>0, <1>1, <1>3, Fails DEF IInv, Active
<1> QED
  BY <1>2, <1>3 DEF WriteReport

LEMMA CheckStep == IInv /\ Check => IInv'
<1> SUFFICES ASSUME IInv, Check  PROVE IInv'
  OBVIOUS
<1>0. /\ pc = "check"
      /\ UNCHANGED <<main, late, outside, run, sel, head, work, old, todo, cand>>
  BY DEF Check, remoteVars
<1>1. CASE main = head /\ local' = "ahead" /\ Goto("push") /\ UNCHANGED rep
  <2>1. Types'
    BY <1>0, <1>1 DEF Goto, IInv, Types, Steps, Publishing
  <2>2. Remote'
    BY <1>0, QuietRemote DEF IInv
  <2>3. Prepared' /\ Active' /\ Funding'
    BY <1>0, <1>1 DEF Goto, IInv, Prepared, Active, Funding, Publishing
  <2>4. Reports'
    BY <1>0, <1>1, QuietReports DEF Goto, IInv
  <2> QED
    BY <2>1, <2>2, <2>3, <2>4 DEF IInv
<1>2. CASE local' \in {"dirty", "ahead"} /\ rep' = Doubted /\ Fail
  <2>1. /\ rep' \in Counts /\ rep'.debits = rep.debits /\ rep'.requests = rep.requests
        /\ local' # "clean" /\ rep.debits \in Nat /\ todo' \subseteq Target
        /\ rep.requests <= rep.debits
    BY <1>0, <1>2, DoubtedCounts DEF IInv, Types, Counts
  <2>2. Count(head, run) = rep.debits
    BY <1>0, <2>1 DEF IInv, Active
  <2> QED
    BY <1>0, <1>2, <2>1, <2>2, Fails
<1> QED
  BY <1>1, <1>2 DEF Check

LEMMA PushStep == IInv /\ Push => IInv'
<1> SUFFICES ASSUME IInv, Push  PROVE IInv'
  OBVIOUS
<1>0. /\ pc = "push" /\ pc \in Publishing
      /\ UNCHANGED <<outside, run, sel, head, local, work, old, todo, cand>>
  BY DEF Push, checkout, Publishing
<1>1. /\ cand \in Publication /\ cand.base = head /\ cand.entry \in Entry /\ cand.entry.run = run
      /\ Sound(head, cand.entry, run, sel) /\ Candidate(cand) = Append(head, cand.entry)
      /\ Candidate(cand) \in Commit /\ head \in Commit /\ main \in Commit
      /\ run \in Run /\ NothingAfter(head, main, run) /\ Prefix(head, main)
  BY <1>0, CandidateType, NothingPending DEF IInv, Types, Prepared, Active, Remote
<1>2. /\ Count(head, run) = rep.debits /\ rep.debits \in Nat /\ rep.doubt = 0
      /\ rep \in Counts /\ rep.requests <= rep.debits
  <2>1. rep.debits \in Nat
    BY DEF IInv, Types, Counts
  <2> QED
    BY <1>0, <2>1 DEF IInv, Active, Prepared, Types
<1>3. CASE /\ main = cand.base /\ main' = Candidate(cand)
           /\ Goto(IF cand.entry.kind = Facts THEN "verify" ELSE "readback")
           /\ UNCHANGED <<late, rep>>
  <2>1. pc' \in {"verify", "readback"} /\ (pc' = "readback" => cand.entry.kind # Facts)
        /\ phase' = phase /\ results' = results
    BY <1>3 DEF Goto
  <2>2. main = head /\ main' = Append(main, cand.entry) /\ main' \in Commit
    BY <1>1, <1>3
  <2>3. Types'
    BY <1>0, <1>1, <1>3, <2>1, <2>2 DEF IInv, Types, Steps, Publishing
  <2>4. Remote'
    <3>1. Good(main', run, sel)
      BY <1>1, <2>2, GoodAppend DEF IInv, Remote
    <3>2. Prefix(head, main')
      BY <1>1, <2>2, PrefixAppend
    <3>3. \A i \in 1 .. Len(main') : main'[i].run <= run
      <4> SUFFICES ASSUME NEW i \in 1 .. Len(main')  PROVE main'[i].run <= run
        OBVIOUS
      <4>1. CASE i \in 1 .. Len(main)
        BY <1>1, <2>2, <4>1, AppendCommit DEF IInv, Remote
      <4>2. CASE i = Len(main) + 1
        BY <1>1, <2>2, <4>2, AppendCommit, RecoveryAssumption DEF Run
      <4> QED
        BY <1>1, <2>2, <4>1, <4>2, AppendCommit
    <3>4. ASSUME NEW d \in late
          PROVE Prefix(d.base, main') /\ NothingAfter(d.base, main', d.entry.run)
      <4>1. d.base \in Commit /\ Prefix(d.base, main) /\ NothingAfter(d.base, main, d.entry.run)
        BY DEF IInv, Remote, Types, Publication
      <4>2. cand.entry.run # d.entry.run
        <5>1. d.entry.run < run
          BY <1>0 DEF IInv, Remote
        <5> QED
          BY <1>1, <5>1, RecoveryAssumption DEF Run
      <4> QED
        BY <1>1, <2>2, <4>1, <4>2, PrefixAppend
    <3> QED
      BY <1>0, <1>3, <2>1, <3>1, <3>2, <3>3, <3>4 DEF IInv, Remote
  <2>5. Prepared'
    BY <1>0, <1>3, <2>1 DEF IInv, Prepared, Publishing
  <2>6. Active'
    <3>1. Prefix(Candidate(cand), main') /\ NothingAfter(Candidate(cand), main', run)
      BY <1>1, <1>3, PrefixSelf
    <3> QED
      BY <1>0, <1>2, <1>3, <2>1, <3>1 DEF IInv, Active, Candidate
  <2>7. Funding'
    BY <1>0, <1>3, <2>1 DEF IInv, Funding
  <2>8. Reports'
    <3>1. ASSUME NEW r \in Run, results[r] # None  PROVE Bracket(main', late, r, results[r])
      <4>1. Bracket(main, late, r, results[r])
        BY <3>1 DEF IInv, Reports
      <4>2. r # run
        BY <1>0, <3>1 DEF IInv, Active
      <4> QED
        BY <1>1, <2>2, <4>1, <4>2, BracketStays
    <3> QED
      BY <1>0, <1>3, <2>1, <3>1 DEF IInv, Reports
  <2> QED
    BY <2>3, <2>4, <2>5, <2>6, <2>7, <2>8 DEF IInv
<1>4. CASE /\ late' = late \cup {cand} /\ rep' = Doubted /\ FailInDoubt
           /\ UNCHANGED main
  <2>1. /\ rep' \in Counts /\ rep'.debits = rep.debits /\ rep'.requests = rep.requests
        /\ rep'.doubt = IF cand.entry.kind = Debit THEN 1 ELSE 0
    BY <1>2, <1>4, DoubtedCounts DEF IInv
  <2>2. /\ Pending(late', run, Debit) <=> cand.entry.kind = Debit
        /\ Pending(late', run, Facts) <=> cand.entry.kind = Facts
    <3>1. \A kind : ~Pending(late, run, kind)
      BY <1>0, NothingPending DEF IInv
    <3> QED
      BY <1>1, <1>4, <3>1 DEF Pending
  <2>3. Count(main, run) = rep.debits /\ On(main, run, Facts) = {}
    BY <1>0, <1>2, MineOnMain DEF IInv, Active, Open
  <2>4. \A d \in late' : d \in late \/ d.entry.run = run
    BY <1>1, <1>4
  <2>5. Reports' /\ results' = [r \in Run |-> results'[r]]
    <3>1. CASE phase = "work" /\ Finish("BLOCKED", "NOT_ATTEMPTED", cand.entry.kind)
      BY <1>0, <1>2, <1>4, <2>1, <2>2, <2>3, <2>4, <3>1, FinishReports
    <3>2. CASE phase = "terminal" /\ Finish("BLOCKED", "UNCONFIRMED", None)
      <4>1. cand.entry.kind = Terminal
        BY <1>0, <3>2 DEF IInv, Prepared
      <4>2. rep'.doubt = 0 /\ ~Pending(late', run, Debit) /\ ~Pending(late', run, Facts)
        BY <2>1, <2>2, <4>1 DEF Terminal, Facts, Debit
      <4> QED
        BY <1>0, <1>2, <1>4, <2>1, <2>3, <2>4, <3>2, <4>2, FinishReports
    <3> QED
      BY <1>4, <3>1, <3>2 DEF FailInDoubt
  <2>6. pc' = "idle" /\ phase' = "work"
    BY <1>4 DEF FailInDoubt, Finish
  <2>7. Types'
    BY <1>0, <1>1, <1>2, <1>4, <2>1, <2>5, <2>6 DEF IInv, Types, Steps, Publishing
  <2>8. Remote'
    <3>1. \A d \in late : d.entry.run # run
      BY <1>0, <1>1, RecoveryAssumption DEF IInv, Remote, Run
    <3> QED
      BY <1>0, <1>1, <1>4, <2>6, <3>1 DEF IInv, Remote
  <2>9. Prepared' /\ Active' /\ Funding'
    BY <1>0, <1>4, <2>6 DEF IInv, Prepared, Active, Funding, Publishing
  <2> QED
    BY <2>5, <2>7, <2>8, <2>9 DEF IInv
<1> QED
  BY <1>3, <1>4 DEF Push

LEMMA ReadbackStep == IInv /\ Readback => IInv'
<1> SUFFICES ASSUME IInv, Readback  PROVE IInv'
  OBVIOUS
<1>0. /\ pc = "readback"
      /\ UNCHANGED <<main, late, outside, run, sel, head, local, work, old, todo, cand>>
  BY DEF Readback, remoteVars, checkout
<1>1. CASE main = Candidate(cand) /\ Goto("verify") /\ UNCHANGED rep
  <2>1. Types'
    BY <1>0, <1>1 DEF Goto, IInv, Types, Steps, Publishing
  <2>2. Remote'
    BY <1>0, QuietRemote DEF IInv
  <2>3. Prepared' /\ Funding'
    BY <1>0, <1>1 DEF Goto, IInv, Prepared, Funding, Publishing
  <2>4. Active'
    BY <1>0, <1>1 DEF Goto, IInv, Active, Candidate
  <2>5. Reports'
    BY <1>0, <1>1, QuietReports DEF Goto, IInv
  <2> QED
    BY <2>1, <2>2, <2>3, <2>4, <2>5 DEF IInv
<1>2. CASE rep' = Doubted /\ FailInDoubt
  BY <1>0, <1>2, FailsPushed
<1> QED
  BY <1>1, <1>2 DEF Readback

LEMMA VerifyStep == IInv /\ Verify => IInv'
<1> SUFFICES ASSUME IInv, Verify  PROVE IInv'
  OBVIOUS
<1>0. /\ pc = "verify" /\ pc \in Publishing /\ pc \in {"readback", "verify"}
      /\ UNCHANGED <<main, late, outside, run, sel, work, old, todo, cand>>
  BY DEF Verify, remoteVars, Publishing
<1>1. CASE /\ main = Candidate(cand)
           /\ UNCHANGED rep /\ head' = Candidate(cand) /\ local' = "clean"
           /\ \/ cand.entry.kind = Opening /\ Goto("next")
              \/ cand.entry.kind = Debit /\ Goto("slot")
              \/ cand.entry.kind = Terminal /\ Finish("BLOCKED", "CONFIRMED", None)
              \/ cand.entry.kind = Facts /\ Finish("PASS", None, Facts)
  <2>1. /\ cand.entry.run = run /\ cand.entry.tree.credits = work /\ rep.doubt = 0
        /\ cand.entry.kind = Terminal <=> phase = "terminal"
        /\ Sound(head, cand.entry, run, sel) /\ results[run] = None /\ run \in Run
        /\ head \in Commit /\ main \in Commit /\ cand.entry \in Entry
        /\ rep \in Counts /\ rep.requests <= rep.debits /\ rep.debits \in Nat
        /\ Count(head, run) = rep.debits /\ Open(head, run)
    <3>1. rep.debits \in Nat
      BY DEF IInv, Types, Counts
    <3> QED
      BY <1>0, <3>1, NothingPending, CandidateType DEF IInv, Types, Prepared, Active
  <2>2. head' \in Commit /\ head' = Append(head, cand.entry) /\ main = head'
        /\ Tree(head') = cand.entry.tree
    BY <1>0, <1>1, CandidateType DEF IInv
  <2>3. Remote'
    <3>1. Prefix(head', main)
      BY <2>1, <2>2, PrefixSelf
    <3> QED
      BY <1>0, <3>1 DEF IInv, Remote
  <2>4. Prefix(head', main) /\ NothingAfter(head', main, run)
    BY <2>1, <2>2, PrefixSelf
  <2> DEFINE new == Append(head, cand.entry)
  <2>5. /\ Count(new, run) = rep.debits + (IF cand.entry.kind = Debit THEN 1 ELSE 0)
        /\ cand.entry.kind \in {Opening, Debit} => Open(new, run)
    <3>1. Count(new, run) = rep.debits + (IF cand.entry.kind = Debit THEN 1 ELSE 0)
      BY <2>1, CountAppend
    <3>2. \A kind : cand.entry.kind # kind => On(new, run, kind) = On(head, run, kind)
      BY <2>1, OnAppend
    <3>3. cand.entry.kind \in {Opening, Debit} => cand.entry.kind # Facts /\ cand.entry.kind # Terminal
      BY DEF Opening, Debit, Facts, Terminal
    <3> HIDE DEF new
    <3> QED
      BY <2>1, <3>1, <3>2, <3>3 DEF Open
  <2> HIDE DEF new
  <2>6. CASE cand.entry.kind = Opening /\ Goto("next")
    <3>1. Open(head', run) /\ Count(head', run) = rep.debits
      <4>1. head' = new
        BY <2>2 DEF new
      <4> QED
        BY <2>1, <2>5, <2>6, <4>1 DEF Opening, Debit
    <3>2. phase' = "work" /\ phase = "work" /\ pc' = "next" /\ results' = results
      BY <2>1, <2>6 DEF Goto, Opening, Terminal, IInv, Types
    <3>3. Types'
      BY <1>0, <1>1, <2>1, <2>2, <3>2 DEF IInv, Types, Steps, Publishing
    <3>4. Prepared'
      BY <1>0, <2>1, <2>2, <3>2 DEF Prepared, Publishing
    <3>5. Active'
      BY <1>0, <1>1, <2>1, <2>4, <3>1, <3>2 DEF IInv, Active
    <3>6. Funding'
      BY <1>0, <1>1, <2>6, <3>2 DEF IInv, Funding, Prepared
    <3> QED
      BY <1>0, <2>3, <3>2, <3>3, <3>4, <3>5, <3>6, QuietReports DEF IInv
  <2>7. CASE cand.entry.kind = Debit /\ Goto("slot")
    <3>1. Open(head', run) /\ Count(head', run) = rep.debits + 1
      <4>1. head' = new
        BY <2>2 DEF new
      <4> QED
        BY <2>1, <2>5, <2>7, <4>1
    <3>2. phase' = "work" /\ phase = "work" /\ pc' = "slot" /\ results' = results
      BY <2>1, <2>7 DEF Goto, Debit, Terminal, IInv, Types
    <3>3. Types'
      BY <1>0, <1>1, <2>1, <2>2, <3>2 DEF IInv, Types, Steps, Publishing
    <3>4. Prepared'
      BY <1>0, <2>1, <2>2, <3>2 DEF Prepared, Publishing
    <3>5. todo # {} /\ Cardinality(todo) + work <= PerDay + 1
      BY <1>0, <2>7 DEF IInv, Prepared
    <3>6. Funding'
      BY <1>0, <1>1, <3>2, <3>5 DEF IInv, Funding
    <3>7. rep.debits + 1 <= Cardinality(sel[run])
      <4>1. Cardinality(todo) \in Nat \ {0}
        BY <3>5, TodoFinite, FS_EmptySet DEF IInv
      <4>2. Cardinality(todo) + rep.debits = Cardinality(sel[run])
        BY <1>0, <3>2, SelectedFinite, <2>1, <4>1 DEF IInv, Funding
      <4> QED
        BY <2>1, <4>1, <4>2
    <3>8. Active'
      BY <1>0, <1>1, <2>1, <2>4, <3>1, <3>2, <3>7 DEF IInv, Active
    <3> QED
      BY <1>0, <2>3, <3>2, <3>3, <3>4, <3>6, <3>8, QuietReports DEF IInv
  <2>8. CASE \/ cand.entry.kind = Terminal /\ Finish("BLOCKED", "CONFIRMED", None)
             \/ cand.entry.kind = Facts /\ Finish("PASS", None, Facts)
    <3>1. /\ Count(main, run) = rep.debits
          /\ On(main, run, Facts) # {} <=> cand.entry.kind = Facts
      BY <1>0, <2>1, <2>8, MinePushed DEF IInv, Terminal, Facts, Debit
    <3>2. ~Pending(late', run, Debit) /\ ~Pending(late', run, Facts)
      BY <1>0, NothingPending DEF IInv
    <3>3. Reports' /\ results' = [r \in Run |-> results'[r]]
      <4>1. CASE cand.entry.kind = Terminal /\ Finish("BLOCKED", "CONFIRMED", None)
        BY <1>0, <1>1, <2>1, <3>1, <3>2, <4>1, FinishReports DEF Terminal, Facts
      <4>2. CASE cand.entry.kind = Facts /\ Finish("PASS", None, Facts)
        BY <1>0, <1>1, <2>1, <3>1, <3>2, <4>2, FinishReports
      <4> QED
        BY <2>8, <4>1, <4>2
    <3>4. pc' = "idle" /\ phase' = "work"
      BY <2>8 DEF Finish
    <3>5. Types'
      BY <1>0, <1>1, <2>1, <2>2, <3>3, <3>4 DEF IInv, Types, Steps, Publishing
    <3>6. Prepared' /\ Active' /\ Funding'
      BY <1>0, <2>1, <2>2, <3>4 DEF Prepared, Active, Funding, Publishing
    <3> QED
      BY <2>3, <3>3, <3>5, <3>6 DEF IInv
  <2> QED
    BY <1>1, <2>6, <2>7, <2>8
<1>2. CASE rep' = Doubted /\ FailInDoubt /\ UNCHANGED <<head, local>>
  BY <1>0, <1>2, FailsPushed
<1> QED
  BY <1>1, <1>2 DEF Verify

LEMMA NextTargetStep == IInv /\ NextTarget => IInv'
<1> SUFFICES ASSUME IInv, NextTarget  PROVE IInv'
  OBVIOUS
<1>0. /\ pc = "next" /\ rep' = rep
      /\ UNCHANGED <<main, late, outside, run, sel, head, local, work, old, todo, cand>>
  BY DEF NextTarget, remoteVars, checkout
<1>1. /\ rep \in Counts /\ rep.requests <= rep.debits /\ todo \subseteq Target
      /\ Count(head, run) = rep.debits /\ rep.debits \in Nat
  <2>1. rep.debits \in Nat
    BY DEF IInv, Types, Counts
  <2> QED
    BY <1>0, <2>1 DEF IInv, Types, Active
<1>2. ASSUME NEW l, Goto(l), l \in {"stage", "debit"}, l = "stage" => todo = {},
             l = "debit" => todo # {} /\ Funded
      PROVE  IInv'
  <2>1. pc' = l /\ phase' = phase /\ results' = results
    BY <1>2 DEF Goto
  <2>2. Types'
    BY <1>0, <1>2, <2>1 DEF IInv, Types, Steps, Publishing
  <2>3. Remote'
    BY <1>0, QuietRemote DEF IInv
  <2>4. Prepared' /\ Active'
    BY <1>0, <1>2, <2>1 DEF IInv, Prepared, Active, Publishing
  <2>5. l = "debit" => Cardinality(todo) + work <= PerDay
    <3>1. CASE todo = sel[run]
      BY <1>2, <3>1, TodoFinite, RecoveryAssumption DEF Funded, IInv, Types
    <3>2. CASE todo # sel[run]
      BY <1>0, <1>2, <3>2 DEF IInv, Funding, Prepared, Types
    <3> QED
      BY <3>1, <3>2
  <2>6. Funding'
    BY <1>0, <1>2, <2>1, <2>5 DEF IInv, Funding
  <2>7. Reports'
    BY <1>0, <2>1, QuietReports DEF IInv
  <2> QED
    BY <2>2, <2>3, <2>4, <2>6, <2>7 DEF IInv
<1>3. CASE AllQualified /\ Goto("stage")
  BY <1>2, <1>3 DEF AllQualified
<1>4. CASE todo # {} /\ Funded /\ Goto("debit")
  BY <1>2, <1>4
<1>5. CASE todo # {} /\ Fail
  BY <1>0, <1>1, <1>5, Fails DEF IInv, Active
<1> QED
  BY <1>3, <1>4, <1>5 DEF NextTarget

LEMMA DebitLedgerStep == IInv /\ DebitLedger => IInv'
<1> SUFFICES ASSUME IInv, DebitLedger  PROVE IInv'
  OBVIOUS
<1>0. /\ pc = "debit" /\ rep' = rep /\ phase = "work"
      /\ UNCHANGED <<main, late, outside, run, sel, head, old, todo>>
  BY DEF DebitLedger, remoteVars, IInv, Prepared, Types
<1>1. /\ run \in Run /\ rep \in Counts /\ rep.requests <= rep.debits /\ todo \subseteq Target
      /\ Count(head, run) = rep.debits /\ rep.debits \in Nat
      /\ rep.doubt = 0 /\ Open(head, run)
      /\ todo # {} /\ Cardinality(todo) + work <= PerDay /\ Cardinality(todo) \in Nat
  <2>1. rep.debits \in Nat /\ rep.doubt \in 0 .. 1
    BY DEF IInv, Types, Counts
  <2> QED
    BY <1>0, <2>1, NothingPending, TodoFinite DEF IInv, Types, Active, Funding
<1>2. CASE /\ Current /\ work < PerDay
           /\ work' = work + 1 /\ local' = "dirty"
           /\ Propose(Debit, None, [Tree(head) EXCEPT !.credits = work'])
           /\ Goto("check")
  <2> DEFINE tree == [Tree(head) EXCEPT !.credits = work + 1]
             e == [run |-> run, kind |-> Debit, told |-> None, tree |-> tree]
  <2>1. cand' = [base |-> head, entry |-> e]
    BY <1>0, <1>2 DEF Propose
  <2>2. work \in Nat /\ work + 1 \in 0 .. PerDay
    BY <1>2, RecoveryAssumption DEF IInv, Types
  <2>3. tree \in TreeSet /\ tree.credits = work + 1 /\ Replaces(Tree(head), tree, {})
    BY <2>2, TreeOfHead DEF IInv
  <2>4. work = Tree(head).credits
    BY <1>2 DEF Current, IInv, Prepared
  <2> HIDE DEF tree
  <2>5. e \in Entry /\ e.kind = Debit /\ e.run = run /\ e.tree = tree
    BY <1>1, <2>3 DEF Entry, Kinds, Run
  <2>6. run \in 1 .. run
    BY <1>1, RecoveryAssumption DEF Run
  <2>7. Sound(head, e, run, sel)
    BY <1>1, <2>3, <2>4, <2>5, <2>6 DEF Sound, Opening, Terminal, Facts, Debit
  <2> HIDE DEF e
  <2>8. cand' \in Publication /\ cand'.base = head /\ cand'.entry = e
    BY <2>1, <2>5, TreeOfHead DEF IInv, Publication
  <2>9. Types'
    BY <1>0, <1>2, <2>2, <2>8 DEF Goto, IInv, Types, Steps
  <2>10. Remote'
    BY <1>0, QuietRemote DEF IInv
  <2>11. Cardinality(todo) + (work + 1) <= PerDay + 1
    BY <1>1, <2>2, RecoveryAssumption
  <2>12. Prepared'
    BY <1>0, <1>1, <1>2, <2>3, <2>5, <2>7, <2>8, <2>11
    DEF Goto, IInv, Prepared, Publishing, Opening, Terminal, Facts, Debit
  <2>13. Active' /\ Funding'
    BY <1>0, <1>1, <1>2 DEF Goto, IInv, Active, Funding
  <2>14. Reports'
    BY <1>0, <1>2, QuietReports DEF Goto, IInv
  <2> QED
    BY <2>9, <2>10, <2>12, <2>13, <2>14 DEF IInv
<1>3. CASE Fail /\ UNCHANGED <<local, work, cand>>
  BY <1>0, <1>1, <1>3, Fails
<1>4. CASE work < PerDay /\ work' = work + 1 /\ local' = "dirty" /\ Fail
  <2>1. work' \in 0 .. PerDay
    BY <1>4, RecoveryAssumption DEF IInv, Types
  <2> QED
    BY <1>0, <1>1, <1>4, <2>1, Fails
<1> QED
  BY <1>2, <1>3, <1>4 DEF DebitLedger

LEMMA AfterDebitStep == IInv /\ AfterDebit => IInv'
<1> SUFFICES ASSUME IInv, AfterDebit  PROVE IInv'
  OBVIOUS
<1>0. /\ pc = "slot" /\ phase = "work"
      /\ UNCHANGED <<main, late, outside, run, sel, head, local, work, old, todo, cand>>
  BY DEF AfterDebit, remoteVars, checkout, IInv, Prepared, Types
<1>1. /\ run \in Run /\ rep \in Counts /\ rep.requests <= rep.debits /\ todo \subseteq Target
      /\ rep.debits \in Nat /\ rep.requests \in Nat /\ rep.doubt = 0
      /\ Count(head, run) = rep.debits + 1 /\ rep.debits + 1 <= Cardinality(sel[run])
      /\ Cardinality(sel[run]) \in Nat /\ Cardinality(sel[run]) <= Cardinality(Target)
      /\ Cardinality(Target) \in Nat
  <2>1. rep.debits \in Nat /\ rep.requests \in Nat /\ rep.doubt \in 0 .. 1
    BY DEF IInv, Types, Counts
  <2>2. run \in Run
    BY <1>0, NothingPending DEF IInv
  <2> QED
    BY <1>0, <2>1, <2>2, SelectedFinite DEF IInv, Types, Active
<1>2. /\ CountedExpired \in Counts /\ CountedExpired.debits = rep.debits + 1
      /\ CountedExpired.requests = rep.requests /\ CountedExpired.doubt = 0
  BY <1>1 DEF CountedExpired, Counts
<1>3. CASE rep' = [rep EXCEPT !.debits = @ + 1] /\ Goto("request")
  <2>1. rep' = CountedExpired
    BY <1>3 DEF CountedExpired
  <2>2. Types'
    BY <1>0, <1>1, <1>2, <1>3, <2>1 DEF Goto, IInv, Types, Steps, Publishing
  <2>3. Remote'
    BY <1>0, QuietRemote DEF IInv
  <2>4. Prepared' /\ Active'
    BY <1>0, <1>1, <1>2, <1>3, <2>1 DEF Goto, IInv, Prepared, Active, Publishing
  <2>5. Funding'
    BY <1>0, <1>1, <1>2, <1>3, <2>1, TodoFinite DEF Goto, IInv, Funding
  <2>6. Reports'
    BY <1>0, <1>3, QuietReports DEF Goto, IInv
  <2> QED
    BY <2>2, <2>3, <2>4, <2>5, <2>6 DEF IInv
<1>4. CASE rep' = CountedExpired /\ Fail
  BY <1>0, <1>1, <1>2, <1>4, Fails
<1> QED
  BY <1>3, <1>4 DEF AfterDebit

LEMMA RequestStep == IInv /\ Request => IInv'
<1> SUFFICES ASSUME IInv, Request  PROVE IInv'
  OBVIOUS
<1>0. /\ pc = "request" /\ phase = "work"
      /\ UNCHANGED <<main, late, outside, run, sel, head, local, work, old, cand>>
  BY DEF Request, remoteVars, checkout, IInv, Prepared, Types
<1>1. /\ rep \in Counts /\ rep.requests < rep.debits /\ todo \subseteq Target
      /\ rep.debits \in Nat /\ rep.requests \in Nat /\ rep.doubt = 0
      /\ Count(head, run) = rep.debits /\ Cardinality(Target) \in Nat
      /\ Cardinality(todo) + rep.debits = Cardinality(sel[run]) + 1
      /\ Cardinality(todo) + work <= PerDay + 1 /\ todo \subseteq sel[run]
      /\ Cardinality(sel[run]) \in Nat
  <2>1. rep.debits \in Nat /\ rep.requests \in Nat /\ rep.doubt \in 0 .. 1
    BY DEF IInv, Types, Counts
  <2>2. run \in Run
    BY <1>0, NothingPending DEF IInv
  <2> QED
    BY <1>0, <2>1, <2>2, SelectedFinite DEF IInv, Types, Active, Funding
<1> DEFINE counted == [rep EXCEPT !.requests = @ + 1]
<1>2. /\ counted \in Counts /\ counted.debits = rep.debits
      /\ counted.requests = rep.requests + 1 /\ counted.doubt = 0
  BY <1>1 DEF Counts
<1> HIDE DEF counted
<1>3. ASSUME NEW t \in todo, rep' = counted, todo' = todo \ {t}, Goto("next")
      PROVE  IInv'
  <2>1. Types'
    BY <1>0, <1>1, <1>2, <1>3 DEF Goto, IInv, Types, Steps, Publishing
  <2>2. Remote'
    BY <1>0, QuietRemote DEF IInv
  <2>3. Prepared' /\ Active'
    BY <1>0, <1>1, <1>2, <1>3 DEF Goto, IInv, Prepared, Active, Publishing
  <2>4. Cardinality(todo \ {t}) = Cardinality(todo) - 1 /\ Cardinality(todo) \in Nat
    BY <1>3, TodoFinite, FS_RemoveElement DEF IInv
  <2>5. Funding'
    <3>1. Cardinality(todo \ {t}) + rep.debits = Cardinality(sel[run])
      BY <1>1, <2>4
    <3>2. Cardinality(todo \ {t}) + work <= PerDay
      BY <1>1, <2>4, RecoveryAssumption DEF IInv, Types
    <3> QED
      BY <1>0, <1>1, <1>2, <1>3, <3>1, <3>2 DEF Goto, Funding
  <2>6. Reports'
    BY <1>0, <1>3, QuietReports DEF Goto, IInv
  <2> QED
    BY <2>1, <2>2, <2>3, <2>5, <2>6 DEF IInv
<1>4. CASE rep' = counted /\ UNCHANGED todo /\ Fail
  BY <1>0, <1>1, <1>2, <1>4, Fails
<1>5. CASE UNCHANGED <<rep, todo>> /\ Fail
  BY <1>0, <1>1, <1>5, Fails
<1> QED
  BY <1>3, <1>4, <1>5 DEF Request, counted

LEMMA StageStep == IInv /\ Stage => IInv'
<1> SUFFICES ASSUME IInv, Stage  PROVE IInv'
  OBVIOUS
<1>0. /\ pc = "stage" /\ rep' = rep /\ phase = "work"
      /\ UNCHANGED <<main, late, outside, run, sel, head, local, work, old, todo>>
  BY DEF Stage, remoteVars, checkout, IInv, Prepared, Types
<1>1. /\ run \in Run /\ rep \in Counts /\ rep.requests <= rep.debits /\ todo \subseteq Target
      /\ rep.debits \in Nat /\ rep.doubt = 0 /\ Count(head, run) = rep.debits
      /\ Count(head, run) = Cardinality(sel[run]) /\ Open(head, run)
  <2>1. rep.debits \in Nat /\ rep.doubt \in 0 .. 1
    BY DEF IInv, Types, Counts
  <2>2. run \in Run
    BY <1>0, NothingPending DEF IInv
  <2>3. Cardinality(todo) = 0
    BY <1>0, FS_EmptySet DEF IInv, Funding
  <2> QED
    BY <1>0, <2>1, <2>2, <2>3, SelectedFinite DEF IInv, Types, Active, Funding
<1>2. CASE /\ Current
           /\ \A t \in sel[run] : Tree(head).series[t] = old[t] /\ Tree(head).archive[t] = None
           /\ Propose(Facts, rep, Rebuilt(Tree(head)))
           /\ Goto("recheck")
  <2> DEFINE p == Tree(head)
             q == Rebuilt(p)
             e == [run |-> run, kind |-> Facts, told |-> rep, tree |-> q]
  <2>1. cand' = [base |-> head, entry |-> e]
    BY <1>2 DEF Propose
  <2>2. p \in TreeSet /\ sel[run] \subseteq Target /\ old \in [Target -> Nat]
    BY <1>1, TreeOfHead DEF IInv, Types
  <2>3. q = [credits |-> p.credits,
             series |-> [t \in Target |-> IF t \in sel[run] THEN old[t] + 1 ELSE p.series[t]],
             archive |-> [t \in Target |-> IF t \in sel[run] THEN old[t] ELSE p.archive[t]]]
    <3>1. p = [credits |-> p.credits, series |-> p.series, archive |-> p.archive]
      BY <2>2 DEF TreeSet
    <3>2. q = [p EXCEPT
                 !.series = [t \in Target |-> IF t \in sel[run] THEN old[t] + 1 ELSE p.series[t]],
                 !.archive = [t \in Target |-> IF t \in sel[run] THEN old[t] ELSE p.archive[t]]]
      BY DEF Rebuilt
    <3> HIDE DEF q, p
    <3> QED
      BY <3>1, <3>2
  <2>4. q \in TreeSet /\ q.credits = p.credits
    <3>1. [t \in Target |-> IF t \in sel[run] THEN old[t] + 1 ELSE p.series[t]] \in [Target -> Nat]
      BY <2>2 DEF TreeSet
    <3>2. [t \in Target |-> IF t \in sel[run] THEN old[t] ELSE p.archive[t]]
            \in [Target -> Nat \cup {None}]
      BY <2>2 DEF TreeSet
    <3> QED
      BY <2>2, <2>3, <3>1, <3>2 DEF TreeSet
  <2>5. Replaces(p, q, sel[run])
    BY <1>2, <2>3 DEF Replaces
  <2>6. work = p.credits /\ p.credits \in Nat
    BY <1>2, <2>2 DEF Current, IInv, Prepared, TreeSet
  <2> HIDE DEF q
  <2>7. e \in Entry /\ e.kind = Facts /\ e.run = run /\ e.tree = q
    BY <1>1, <2>4 DEF Entry, Kinds, Run
  <2>8. run \in 1 .. run
    BY <1>1, RecoveryAssumption DEF Run
  <2>9. Sound(head, e, run, sel)
    BY <1>1, <2>4, <2>5, <2>6, <2>7, <2>8 DEF Sound, Opening, Terminal, Facts, Debit
  <2> HIDE DEF e, p
  <2>10. cand' \in Publication /\ cand'.base = head /\ cand'.entry = e
    BY <2>1, <2>7, TreeOfHead DEF IInv, Publication
  <2>11. Types'
    BY <1>0, <1>2, <2>10 DEF Goto, IInv, Types, Steps
  <2>12. Remote'
    BY <1>0, QuietRemote DEF IInv
  <2>13. Prepared'
    BY <1>0, <1>1, <1>2, <2>4, <2>6, <2>7, <2>9, <2>10
    DEF Goto, IInv, Prepared, Publishing, Opening, Terminal, Facts, Debit, p
  <2>14. Active' /\ Funding'
    BY <1>0, <1>1, <1>2 DEF Goto, IInv, Active, Funding
  <2>15. Reports'
    BY <1>0, <1>2, QuietReports DEF Goto, IInv
  <2> QED
    BY <2>11, <2>12, <2>13, <2>14, <2>15 DEF IInv
<1>3. CASE Fail /\ UNCHANGED cand
  BY <1>0, <1>1, <1>3, Fails
<1> QED
  BY <1>2, <1>3 DEF Stage

LEMMA RecheckStep == IInv /\ Recheck => IInv'
<1> SUFFICES ASSUME IInv, Recheck  PROVE IInv'
  OBVIOUS
<1>0. /\ pc = "recheck" /\ rep' = rep
      /\ UNCHANGED <<main, late, outside, run, sel, head, local, work, old, todo, cand>>
  BY DEF Recheck, remoteVars, checkout
<1>1. CASE Goto("push")
  <2>1. Types'
    BY <1>0, <1>1 DEF Goto, IInv, Types, Steps, Publishing
  <2>2. Remote'
    BY <1>0, QuietRemote DEF IInv
  <2>3. Prepared' /\ Active' /\ Funding'
    BY <1>0, <1>1 DEF Goto, IInv, Prepared, Active, Funding, Publishing
  <2>4. Reports'
    BY <1>0, <1>1, QuietReports DEF Goto, IInv
  <2> QED
    BY <2>1, <2>2, <2>3, <2>4 DEF IInv
<1>2. CASE Fail
  <2>1. rep \in Counts /\ rep.requests <= rep.debits /\ todo \subseteq Target /\ rep.debits \in Nat
        /\ rep.doubt = 0
    BY <1>0 DEF IInv, Types, Counts, Prepared, Publishing
  <2>2. Count(head, run) = rep.debits
    BY <1>0, <2>1 DEF IInv, Active
  <2> QED
    BY <1>0, <1>2, <2>1, <2>2, Fails
<1> QED
  BY <1>1, <1>2 DEF Recheck

LEMMA RunnerLostStep == IInv /\ RunnerLost => IInv'
<1> SUFFICES ASSUME IInv, RunnerLost  PROVE IInv'
  OBVIOUS
<1>0. /\ pc # "idle" /\ pc' = "idle" /\ phase' = "work"
      /\ UNCHANGED <<main, outside, run, sel, head, local, work, old, todo, rep, cand, results>>
  BY DEF RunnerLost, checkout
<1>1. CASE late' = late
  <2>1. /\ todo \subseteq Target /\ rep \in Counts /\ rep.requests <= rep.debits
        /\ results' = [r \in Run |-> results'[r]]
    BY <1>0 DEF IInv, Types
  <2>2. Reports'
    BY <1>0, <1>1, QuietReports DEF IInv
  <2> QED
    BY <1>0, <1>1, <2>1, <2>2, Ends
<1>2. CASE pc = "push" /\ late' = late \cup {cand}
  <2>1. /\ cand \in Publication /\ cand.base = head /\ cand.entry.run = run
        /\ Sound(head, cand.entry, run, sel)
        /\ NothingAfter(head, main, run) /\ Prefix(head, main)
    BY <1>2 DEF IInv, Types, Prepared, Active, Remote, Publishing
  <2>2. Types'
    BY <1>0, <1>2, <2>1 DEF IInv, Types, Steps, Publishing
  <2>3. Remote'
    <3>1. \A d \in late : d.entry.run # run
      BY <1>0, NothingPending, RecoveryAssumption DEF IInv, Remote, Run
    <3> QED
      BY <1>0, <1>2, <2>1, <3>1 DEF IInv, Remote
  <2>4. Prepared' /\ Active' /\ Funding'
    BY <1>0 DEF IInv, Prepared, Active, Funding, Publishing
  <2>5. Reports'
    <3>1. ASSUME NEW r \in Run, results[r] # None  PROVE Bracket(main, late', r, results[r])
      <4>1. Bracket(main, late, r, results[r])
        BY <3>1 DEF IInv, Reports
      <4>2. r # run
        BY <1>0, <3>1 DEF IInv, Active
      <4>3. \A d \in late' : d \in late \/ d.entry.run # r
        BY <1>2, <2>1, <4>2
      <4>4. main \in Commit
        BY DEF IInv, Types
      <4> QED
        BY <4>1, <4>3, <4>4, BracketStays
    <3> QED
      BY <1>0, <3>1 DEF IInv, Reports
  <2> QED
    BY <2>2, <2>3, <2>4, <2>5 DEF IInv
<1> QED
  BY <1>1, <1>2 DEF RunnerLost

(* Main moves by an entry of another writer, or of a run that is over.     *)
LEMMA MainMoves ==
  ASSUME IInv, NEW e \in Entry, Foreign(e) \/ Sound(main, e, run, sel),
         e.run <= run, pc # "idle" => e.run # run,
         \A d \in late' : d \in late /\ d.entry.run # e.run,
         main' = Append(main, e), outside' \in 0 .. OutsideLimit,
         UNCHANGED <<head, local, work, run, pc, phase, old, sel, todo, rep, cand, results>>,
         Reports'
  PROVE  IInv'
<1>0. main \in Commit /\ main' \in Commit
  BY AppendCommit DEF IInv, Types
<1>1. Types'
  BY <1>0 DEF IInv, Types, Steps, Publishing
<1>2. Remote'
  <2>1. Good(main', run, sel)
    BY <1>0, GoodAppend DEF IInv, Remote
  <2>2. Prefix(head, main')
    BY <1>0, PrefixAppend DEF IInv, Remote, Types
  <2>3. \A i \in 1 .. Len(main') : main'[i].run <= run
    <3> SUFFICES ASSUME NEW i \in 1 .. Len(main')  PROVE main'[i].run <= run
      OBVIOUS
    <3>1. CASE i \in 1 .. Len(main)
      BY <1>0, <3>1, AppendCommit DEF IInv, Remote
    <3>2. CASE i = Len(main) + 1
      BY <1>0, <3>2, AppendCommit
    <3> QED
      BY <1>0, <3>1, <3>2, AppendCommit
  <2>4. ASSUME NEW d \in late'
        PROVE Prefix(d.base, main') /\ NothingAfter(d.base, main', d.entry.run)
    <3>1. d \in late /\ d.base \in Commit /\ e.run # d.entry.run
      BY DEF IInv, Types, Publication
    <3>2. Prefix(d.base, main) /\ NothingAfter(d.base, main, d.entry.run)
      BY <3>1 DEF IInv, Remote
    <3> QED
      BY <1>0, <3>1, <3>2, PrefixAppend
  <2> QED
    BY <2>1, <2>2, <2>3, <2>4 DEF IInv, Remote
<1>3. Prepared' /\ Funding'
  BY DEF IInv, Prepared, Funding, Publishing
<1>4. Active'
  <2>1. CASE pc \notin {"idle", "readback", "verify"}
    <3>1. NothingAfter(head, main', run)
      BY <1>0, <2>1, PrefixAppend DEF IInv, Active, Remote, Types
    <3> QED
      BY <2>1, <3>1 DEF IInv, Active
  <2>2. CASE pc \in {"readback", "verify"}
    <3>1. Candidate(cand) \in Commit
      BY <2>2, CandidateType DEF IInv, Publishing
    <3>2. Prefix(Candidate(cand), main') /\ NothingAfter(Candidate(cand), main', run)
      BY <1>0, <2>2, <3>1, PrefixAppend DEF IInv, Active
    <3> QED
      BY <2>2, <3>2 DEF IInv, Active, Candidate
  <2> QED
    BY <2>1, <2>2 DEF Active
<1> QED
  BY <1>1, <1>2, <1>3, <1>4 DEF IInv

LEMMA LateLandsStep == IInv /\ LateLands => IInv'
<1> SUFFICES ASSUME IInv, LateLands  PROVE IInv'
  OBVIOUS
<1>1. PICK d \in late : main = d.base /\ main' = Candidate(d) /\ late' = late \ {d}
  BY DEF LateLands
<1>2. UNCHANGED <<outside, head, local, work, run, pc, phase, old, sel, todo, rep, cand, results>>
  BY DEF LateLands, runVars, checkout
<1>3. /\ main' = Append(main, d.entry) /\ d.entry \in Entry /\ main \in Commit
      /\ Sound(main, d.entry, run, sel) /\ (pc # "idle" => d.entry.run < run)
      /\ \A e \in late : e.entry.run = d.entry.run => e = d
  BY <1>1 DEF Candidate, IInv, Types, Remote, Publication
<1>4. d.entry.run \in 1 .. run /\ run \in Nat
  BY <1>3, RecoveryAssumption DEF Sound, IInv, Types
<1>5. Reports'
  <2>1. ASSUME NEW r \in Run, results[r] # None  PROVE Bracket(main', late', r, results[r])
    <3>1. Bracket(main, late, r, results[r])
      BY <2>1 DEF IInv, Reports
    <3>2. r = d.entry.run => Bracket(Append(main, d.entry), late \ {d}, r, results[r])
      BY <1>3, <3>1, BracketLands
    <3>3. r # d.entry.run => Bracket(Append(main, d.entry), late \ {d}, r, results[r])
      <4>1. \A x \in late \ {d} : x \in late \/ x.entry.run # r
        OBVIOUS
      <4> QED
        BY <1>3, <3>1, <4>1, BracketStays
    <3>4. Bracket(Append(main, d.entry), late \ {d}, r, results[r])
      BY <3>2, <3>3
    <3> QED
      BY <1>1, <1>3, <3>4
  <2> QED
    BY <1>2, <2>1 DEF IInv, Reports
<1>6. \A e \in late' : e \in late /\ e.entry.run # d.entry.run
  BY <1>1, <1>3
<1>7. outside' \in 0 .. OutsideLimit
  BY <1>2 DEF IInv, Types
<1>8. d.entry.run <= run /\ (pc # "idle" => d.entry.run # run)
  BY <1>3, <1>4
<1> QED
  BY <1>2, <1>3, <1>5, <1>6, <1>7, <1>8, MainMoves

LEMMA OutsideStep == IInv /\ Outside => IInv'
<1> SUFFICES ASSUME IInv, Outside  PROVE IInv'
  OBVIOUS
<1>1. PICK tree \in {[Tree(main) EXCEPT !.series[t] = @ + 1] : t \in Target}
                    \cup {[Tree(main) EXCEPT !.credits = @ + 1]} :
        /\ tree.credits <= PerDay
        /\ main' = Append(main, [run |-> 0, kind |-> Other, told |-> None, tree |-> tree])
  BY DEF Outside
<1> DEFINE e == [run |-> 0, kind |-> Other, told |-> None, tree |-> tree]
<1>2. UNCHANGED <<late, head, local, work, run, pc, phase, old, sel, todo, rep, cand, results>>
  BY DEF Outside, runVars, checkout
<1>3. main \in Commit /\ Tree(main) \in TreeSet
  <2>1. main \in Commit
    BY DEF IInv, Types
  <2>2. main[Len(main)] \in Entry
    BY <2>1 DEF Commit
  <2> QED
    BY <2>1, <2>2 DEF Tree, Last, Entry
<1>4. tree \in TreeSet
  <2>1. CASE tree \in {[Tree(main) EXCEPT !.series[t] = @ + 1] : t \in Target}
    <3>1. PICK t \in Target : tree = [Tree(main) EXCEPT !.series[t] = @ + 1]
      BY <2>1
    <3> QED
      BY <1>3, <3>1 DEF TreeSet
  <2>2. CASE tree = [Tree(main) EXCEPT !.credits = @ + 1]
    <3>1. Tree(main).credits \in Nat
      BY <1>3 DEF TreeSet
    <3>2. tree.credits \in 0 .. PerDay
      BY <1>1, <1>3, <2>2, <3>1, RecoveryAssumption DEF TreeSet
    <3> QED
      BY <1>3, <2>2, <3>2 DEF TreeSet
  <2> QED
    BY <2>1, <2>2
<1>5. e \in Entry /\ Foreign(e) /\ e.run = 0
  BY <1>4 DEF Entry, Kinds, Foreign
<1> HIDE DEF e
<1>6. /\ outside' \in 0 .. OutsideLimit /\ run \in Nat
      /\ pc # "idle" => run # 0
      /\ \A d \in late : d.entry.run # 0
  BY RecoveryAssumption DEF Outside, IInv, Types, Remote, Sound
<1>7. Reports'
  <2>1. ASSUME NEW r \in Run, results[r] # None  PROVE Bracket(main', late, r, results[r])
    <3>1. Bracket(main, late, r, results[r]) /\ r # 0
      BY <2>1, RecoveryAssumption DEF IInv, Reports, Run
    <3> QED
      BY <1>1, <1>3, <1>5, <3>1, BracketStays DEF e
  <2> QED
    BY <1>2, <2>1 DEF IInv, Reports
<1>8. main' = Append(main, e)
  BY <1>1 DEF e
<1>9. e.run <= run /\ (pc # "idle" => e.run # run) /\ \A d \in late' : d \in late /\ d.entry.run # e.run
  BY <1>2, <1>5, <1>6
<1> QED
  BY <1>2, <1>5, <1>6, <1>7, <1>8, <1>9, MainMoves

LEMMA StepPreserves == IInv /\ [Next]_vars => IInv'
<1> SUFFICES ASSUME IInv, [Next]_vars  PROVE IInv'
  OBVIOUS
<1>1. CASE Next
  BY <1>1, DispatchStep, BeginStep, WriteReportStep, CheckStep, PushStep, ReadbackStep,
     VerifyStep, NextTargetStep, DebitLedgerStep, AfterDebitStep, RequestStep, StageStep,
     RecheckStep, RunnerLostStep, LateLandsStep, OutsideStep DEF Next
<1>2. CASE UNCHANGED vars
  <2>1. UNCHANGED <<main, late, outside, head, local, work, run, pc, phase, old, sel, todo,
                    rep, cand, results>>
    BY <1>2 DEF vars, remoteVars, checkout
  <2>2. Types' /\ Remote'
    BY <2>1 DEF IInv, Types, Remote
  <2>3. Prepared' /\ Active'
    BY <2>1 DEF IInv, Prepared, Active
  <2>4. Funding' /\ Reports'
    BY <2>1 DEF IInv, Funding, Reports
  <2> QED
    BY <2>2, <2>3, <2>4 DEF IInv
<1> QED
  BY <1>1, <1>2

(* Done with a symbol, a run has debited and requested it once; of the     *)
(* debits at most one is for a symbol it is not done with.                 *)
Purchases ==
  pc \notin {"idle", "begin"} =>
    /\ todo \subseteq sel[run]
    /\ Cardinality(sel[run]) <= Cardinality(todo) + rep.requests
    /\ Cardinality(todo) + rep.debits <= Cardinality(sel[run]) + 1

LEMMA PurchasesStep == IInv /\ Purchases /\ [Next]_vars => Purchases'
<1> SUFFICES ASSUME IInv, Purchases, [Next]_vars  PROVE Purchases'
  OBVIOUS
<1>1. IsFiniteSet(todo) /\ Cardinality(todo) \in Nat
  BY TodoFinite DEF IInv
<1>2. /\ rep.debits \in Nat /\ rep.requests \in Nat /\ rep.requests <= rep.debits
      /\ rep = [debits |-> rep.debits, requests |-> rep.requests, doubt |-> rep.doubt]
  BY DEF IInv, Types, Counts
<1>3. ASSUME pc # "idle"  PROVE run \in Run /\ Cardinality(sel[run]) \in Nat
  BY <1>3, NothingPending, SelectedFinite DEF IInv
<1>4. ASSUME UNCHANGED <<run, sel, todo>>, rep'.debits = rep.debits, rep'.requests = rep.requests,
             pc' \in {"idle", "begin"} \/ pc \notin {"idle", "begin"}
      PROVE  Purchases'
  BY <1>4 DEF Purchases
<1>5. CASE Dispatch
  BY <1>5 DEF Dispatch, Goto, Purchases
<1>6. CASE Begin
  <2>1. rep.debits = 0 /\ rep.requests = 0 /\ UNCHANGED <<rep, run, sel>> /\ pc # "idle"
    BY <1>6 DEF Begin, IInv, Active, NoCounts
  <2>2. pc' = "idle" \/ todo' = sel[run]
    BY <1>6 DEF Begin, Finish
  <2> QED
    BY <1>3, <2>1, <2>2 DEF Purchases
<1>7. CASE AfterDebit
  <2>1. pc = "slot" /\ phase = "work" /\ UNCHANGED <<run, sel, todo>>
    BY <1>7 DEF AfterDebit, IInv, Types, Prepared
  <2>2. rep' = [rep EXCEPT !.debits = @ + 1]
    BY <1>7 DEF AfterDebit, CountedExpired
  <2>3. rep'.debits = rep.debits + 1 /\ rep'.requests = rep.requests
    BY <1>2, <2>2
  <2>4. Cardinality(todo) + rep.debits = Cardinality(sel[run])
    BY <1>1, <1>2, <1>3, <2>1 DEF IInv, Funding
  <2> QED
    BY <1>1, <1>2, <1>3, <2>1, <2>3, <2>4 DEF Purchases
<1>8. CASE Request
  <2>1. pc = "request" /\ phase = "work" /\ UNCHANGED <<run, sel>>
    BY <1>8 DEF Request, IInv, Types, Prepared
  <2>2. Cardinality(todo) + rep.debits = Cardinality(sel[run]) + 1
    BY <2>1 DEF IInv, Funding
  <2>3. CASE \/ UNCHANGED <<rep, todo>>
             \/ rep' = [rep EXCEPT !.requests = @ + 1] /\ UNCHANGED todo
    BY <1>1, <1>2, <1>3, <2>1, <2>3 DEF Purchases
  <2>4. ASSUME NEW t \in todo, todo' = todo \ {t}, rep' = [rep EXCEPT !.requests = @ + 1]
        PROVE  Purchases'
    <3>1. Cardinality(todo \ {t}) = Cardinality(todo) - 1
      BY <1>1, <2>4, FS_RemoveElement
    <3>2. rep'.debits = rep.debits /\ rep'.requests = rep.requests + 1
      BY <1>2, <2>4
    <3> QED
      BY <1>1, <1>2, <1>3, <2>1, <2>2, <2>4, <3>1, <3>2 DEF Purchases
  <2> QED
    BY <1>8, <2>3, <2>4 DEF Request
<1>9. CASE Check \/ Push \/ Readback \/ Verify
  <2>1. UNCHANGED <<run, sel, todo>> /\ pc \notin {"idle", "begin"}
    BY <1>9 DEF Check, Push, Readback, Verify, remoteVars, checkout
  <2>2. rep' = rep \/ rep' = Doubted
    BY <1>9 DEF Check, Push, Readback, Verify
  <2> QED
    BY <1>4, <2>1, <2>2, DoubtedCounts DEF IInv
<1>10. CASE WriteReport \/ NextTarget \/ DebitLedger \/ Stage \/ Recheck
  <2>1. UNCHANGED <<run, sel, todo, rep>> /\ pc \notin {"idle", "begin"}
    BY <1>10 DEF WriteReport, NextTarget, DebitLedger, Stage, Recheck, remoteVars, checkout
  <2> QED
    BY <1>4, <2>1
<1>11. CASE RunnerLost \/ LateLands \/ Outside \/ UNCHANGED vars
  <2>1. UNCHANGED <<run, sel, todo, rep>> /\ (pc' = "idle" \/ pc' = pc)
    BY <1>11 DEF RunnerLost, LateLands, Outside, vars, runVars
  <2> QED
    BY <1>4, <2>1
<1> QED
  BY <1>5, <1>6, <1>7, <1>8, <1>9, <1>10, <1>11 DEF Next

(* In every reachable state of any number of runs, over any number of      *)
(* symbols: main is made of sound entries, and what an active run, a push  *)
(* on its way and a printed report say of main is right.                   *)
THEOREM Invariant == Spec => []IInv
BY InitEstablishes, StepPreserves, PTL DEF Spec

-----------------------------------------------------------------------------
(* What the invariant says of the histories, the ledger and the reports.   *)

LEMMA BeforeOf ==
  ASSUME NEW c \in Commit, NEW i \in 2 .. Len(c)
  PROVE  /\ Tree(Before(c, i)) = c[i - 1].tree
         /\ \A r, kind : On(Before(c, i), r, kind) = {j \in On(c, r, kind) : j < i}
<1>1. c \in Seq(Entry) /\ Len(c) \in Nat /\ DOMAIN c = 1 .. Len(c)
  BY DEF Commit
<1> DEFINE b == Before(c, i)
<1>2. /\ Len(b) = i - 1 /\ DOMAIN b = 1 .. i - 1
      /\ \A j \in 1 .. i - 1 : b[j] = c[j]
  BY <1>1 DEF Before
<1>3. Tree(b) = c[i - 1].tree
  BY <1>2 DEF Tree, Last
<1> HIDE DEF b
<1>4. ASSUME NEW r, NEW kind  PROVE On(b, r, kind) = {j \in On(c, r, kind) : j < i}
  BY <1>1, <1>2 DEF On
<1> QED
  BY <1>3, <1>4 DEF b

LEMMA SoundAt ==
  ASSUME NEW c \in Commit, NEW n, NEW s, Good(c, n, s),
         NEW i \in 1 .. Len(c), c[i].kind # Other
  PROVE  i \in 2 .. Len(c) /\ Sound(Before(c, i), c[i], n, s)
<1>1. c[1] = Root[1] /\ Len(c) \in Nat
  BY DEF Commit
<1>2. i # 1
  BY <1>1 DEF Root
<1> QED
  BY <1>1, <1>2 DEF Good, Foreign

(* Facts and a terminal report are the last entry of their run, and stand  *)
(* on all of its debits.                                                   *)
LEMMA LastWord ==
  ASSUME NEW c \in Commit, NEW n, NEW s, Good(c, n, s),
         NEW i \in 1 .. Len(c), c[i].kind \in {Facts, Terminal}
  PROVE  /\ \A j \in i + 1 .. Len(c) : c[j].run # c[i].run
         /\ Count(c, c[i].run) = Count(Before(c, i), c[i].run)
         /\ \A j \in 1 .. Len(c) \ {i} :
              c[j].kind \in {Facts, Terminal} => c[j].run # c[i].run
<1>1. c[i].kind # Other
  BY DEF Facts, Terminal, Other
<1>2. i \in 2 .. Len(c) /\ Sound(Before(c, i), c[i], n, s)
  BY <1>1, SoundAt
<1>3. Len(c) \in Nat /\ DOMAIN c = 1 .. Len(c)
  BY DEF Commit
<1>4. c[i].run # 0
  BY <1>2 DEF Sound
<1>5. ASSUME NEW j \in i + 1 .. Len(c), c[j].run = c[i].run  PROVE FALSE
  <2>1. j \in 2 .. Len(c) /\ Sound(Before(c, j), c[j], n, s)
    BY <1>3, <1>4, <1>5 DEF Good, Foreign
  <2>2. Open(Before(c, j), c[i].run)
    BY <2>1, <1>5 DEF Sound
  <2>3. i \in On(c, c[i].run, c[i].kind) /\ i < j
    BY <1>3 DEF On
  <2>4. i \in On(Before(c, j), c[i].run, c[i].kind)
    BY <2>1, <2>3, BeforeOf
  <2> QED
    BY <2>2, <2>4 DEF Open
<1>6. On(Before(c, i), c[i].run, Debit) = On(c, c[i].run, Debit)
  <2>1. \A j \in On(c, c[i].run, Debit) : j < i
    BY <1>3, <1>5 DEF On, Debit, Facts, Terminal
  <2>2. On(Before(c, i), c[i].run, Debit) = {j \in On(c, c[i].run, Debit) : j < i}
    BY <1>2, BeforeOf
  <2> QED
    BY <2>1, <2>2
<1>7. ASSUME NEW j \in 1 .. Len(c), j # i, c[j].kind \in {Facts, Terminal}, c[j].run = c[i].run
      PROVE  FALSE
  <2>1. j < i
    BY <1>3, <1>5, <1>7
  <2>2. j \in On(Before(c, i), c[i].run, c[j].kind)
    <3>1. j \in On(c, c[i].run, c[j].kind)
      BY <1>3, <1>7 DEF On
    <3>2. On(Before(c, i), c[i].run, c[j].kind) = {k \in On(c, c[i].run, c[j].kind) : k < i}
      BY <1>2, BeforeOf
    <3> QED
      BY <2>1, <3>1, <3>2
  <2> QED
    BY <1>2, <1>7, <2>2 DEF Sound, Open
<1> QED
  BY <1>5, <1>6, <1>7 DEF Count

(* Types, and that every commit begins with the root; and no run pays for  *)
(* or requests one of its symbols twice.                                   *)
THEOREM TypeCorrect == Spec => []TypeOK
<1>1. IInv /\ Purchases => TypeOK
  <2> SUFFICES ASSUME IInv, Purchases  PROVE TypeOK
    OBVIOUS
  <2>1. ASSUME NEW c \in Commit  PROVE IsPrefix(Root, c)
    <3>1. c \in Seq(Entry) /\ Len(c) \in Nat \ {0} /\ c[1] = Root[1]
      BY <2>1 DEF Commit
    <3>2. Len(Root) = 1 /\ Root \in Seq({Root[1]})
      BY DEF Root
    <3>3. SubSeq(Root, 1, 1) = SubSeq(c, 1, 1)
      <4>1. /\ SubSeq(Root, 1, 1) \in Seq({Root[1]} \cup Entry)
            /\ SubSeq(c, 1, 1) \in Seq({Root[1]} \cup Entry)
            /\ Len(SubSeq(Root, 1, 1)) = 1 /\ Len(SubSeq(c, 1, 1)) = 1
            /\ SubSeq(Root, 1, 1)[1] = Root[1] /\ SubSeq(c, 1, 1)[1] = c[1]
        BY <3>1, <3>2
      <4> QED
        BY <3>1, <4>1, SeqEqual
    <3> QED
      BY <3>1, <3>2, <3>3 DEF IsPrefix
  <2>2. \A c \in {main, head} \cup {d.base : d \in late} : c \in Commit
    BY DEF IInv, Types, Publication
  <2>3. pc \in {"check", "push", "readback", "verify"} => cand.entry.run = run
    BY DEF IInv, Prepared, Publishing
  <2>4. ASSUME pc \notin {"idle", "begin"}
        PROVE  LET done == Cardinality(sel[run] \ todo)
               IN  /\ todo \subseteq sel[run]
                   /\ done <= rep.requests /\ rep.requests <= rep.debits
                   /\ rep.debits <= done + 1
                   /\ pc = "debit" => rep.debits = done
                   /\ pc = "request" => rep.requests = done
    <3>1. run \in Run
      BY <2>4, NothingPending DEF IInv
    <3>2. IsFiniteSet(sel[run]) /\ Cardinality(sel[run]) \in Nat /\ Cardinality(todo) \in Nat
          /\ IsFiniteSet(todo)
      BY <3>1, SelectedFinite, TodoFinite DEF IInv
    <3>3. todo \subseteq sel[run]
      BY <2>4 DEF Purchases
    <3>4. Cardinality(sel[run] \ todo) = Cardinality(sel[run]) - Cardinality(todo)
      <4>1. sel[run] \cap todo = todo
        BY <3>3
      <4> QED
        BY <3>2, <4>1, FS_Difference
    <3>5. rep.debits \in Nat /\ rep.requests \in Nat /\ rep.requests <= rep.debits
      BY DEF IInv, Types, Counts
    <3>6. pc \in {"debit", "request"} => phase = "work"
      BY DEF IInv, Types, Prepared
    <3>7. pc = "debit" => Cardinality(todo) + rep.debits = Cardinality(sel[run])
      BY <3>2, <3>5, <3>6 DEF IInv, Funding
    <3>8. pc = "request" => /\ rep.requests < rep.debits
                            /\ Cardinality(todo) + rep.debits = Cardinality(sel[run]) + 1
      BY <3>2, <3>5, <3>6 DEF IInv, Funding
    <3> QED
      BY <2>4, <3>2, <3>3, <3>4, <3>5, <3>7, <3>8 DEF Purchases
  <2> QED
    BY <2>1, <2>2, <2>3, <2>4 DEF TypeOK, IInv, Types
<1>2. Init => Purchases
  BY DEF Init, Purchases
<1> QED
  BY <1>1, <1>2, PurchasesStep, Invariant, PTL DEF Spec

(* The histories on main are replaced whole, archive and all, by facts     *)
(* only, and no archive is overwritten.                                    *)
THEOREM ReplacedWhole == Spec => []HistoriesReplacedWhole
<1>1. IInv => HistoriesReplacedWhole
  <2> SUFFICES ASSUME IInv, NEW i \in 2 .. Len(main), main[i].kind # Other
               PROVE  Replaces(main[i - 1].tree, main[i].tree,
                               IF main[i].kind = Facts THEN sel[main[i].run] ELSE {})
    BY DEF HistoriesReplacedWhole, Replaces
  <2>1. main \in Commit /\ Good(main, run, sel)
    BY DEF IInv, Types, Remote
  <2>2. i \in 1 .. Len(main)
    BY <2>1 DEF Commit
  <2>3. Sound(Before(main, i), main[i], run, sel)
    BY <2>1, <2>2, SoundAt
  <2>4. Tree(Before(main, i)) = main[i - 1].tree
    BY <2>1, BeforeOf
  <2> QED
    BY <2>3, <2>4 DEF Sound
<1> QED
  BY <1>1, Invariant, PTL

(* Every published debit is one credit on main, and facts stand on one     *)
(* debit for each replaced history.                                        *)
THEOREM LedgerIsExact == Spec => []LedgerFollowsDebits
<1>1. IInv => LedgerFollowsDebits
  <2> SUFFICES ASSUME IInv  PROVE LedgerFollowsDebits
    OBVIOUS
  <2>1. main \in Commit /\ Good(main, run, sel) /\ DOMAIN main = 1 .. Len(main)
        /\ Len(main) \in Nat
    BY DEF IInv, Types, Remote, Commit
  <2>2. ASSUME NEW i \in 2 .. Len(main), main[i].kind # Other
        PROVE  main[i].tree.credits
                 = main[i - 1].tree.credits + (IF main[i].kind = Debit THEN 1 ELSE 0)
    <3>1. Sound(Before(main, i), main[i], run, sel)
      BY <2>1, <2>2, SoundAt
    <3>2. Tree(Before(main, i)) = main[i - 1].tree
      BY <2>1, BeforeOf
    <3> QED
      BY <3>1, <3>2 DEF Sound
  <2>3. ASSUME NEW r \in Run, On(main, r, Facts) # {}
        PROVE  Cardinality(On(main, r, Debit)) = Cardinality(sel[r])
    <3>1. PICK i \in 1 .. Len(main) : main[i].run = r /\ main[i].kind = Facts
      BY <2>1, <2>3 DEF On
    <3>2. Sound(Before(main, i), main[i], run, sel)
      BY <2>1, <3>1, SoundAt DEF Facts, Other
    <3>3. Count(main, r) = Count(Before(main, i), r)
      BY <2>1, <3>1, LastWord
    <3> QED
      BY <3>1, <3>2, <3>3 DEF Sound, Count
  <2> QED
    BY <2>2, <2>3 DEF LedgerFollowsDebits
<1> QED
  BY <1>1, Invariant, PTL

(* A batch that passed the preflight keeps the credits it still needs.     *)
THEOREM BatchFunded == Spec => []BatchStaysFunded
<1>1. IInv => BatchStaysFunded
  <2> SUFFICES ASSUME IInv, pc = "debit"  PROVE Cardinality(todo) <= PerDay - work
    BY DEF BatchStaysFunded
  <2>1. Cardinality(todo) + work <= PerDay
    BY DEF IInv, Types, Prepared, Funding
  <2>2. Cardinality(todo) \in Nat /\ work \in Nat /\ PerDay \in Nat
    BY TodoFinite, RecoveryAssumption DEF IInv, Types
  <2> QED
    BY <2>1, <2>2
<1> QED
  BY <1>1, Invariant, PTL

(* What a run printed at its end brackets what is on main, whatever lands  *)
(* later.                                                                  *)
THEOREM TerminalsBracket == Spec => []TerminalBracketsStore
<1>1. IInv => TerminalBracketsStore
  <2> SUFFICES ASSUME IInv, NEW r \in Run, results[r] # None
               PROVE  LET n == Count(main, r)
                          o == results[r]
                      IN  /\ o.confirmed <= n /\ n <= o.confirmed + o.unconfirmed
                          /\ o.requests <= o.confirmed
                          /\ o.status = "PASS" => On(main, r, Facts) # {}
                          /\ On(main, r, Facts) # {} => o.candidate = Facts
    BY DEF TerminalBracketsStore, Count
  <2>1. Bracket(main, late, r, results[r])
    BY DEF IInv, Reports
  <2>2. Count(main, r) \in Nat
    BY CountType DEF IInv, Types
  <2> QED
    BY <2>1, <2>2 DEF Bracket
<1> QED
  BY <1>1, Invariant, PTL

(* A terminal report on main is exact and the last word of its run, and a  *)
(* publication in doubt stays alone.                                       *)
THEOREM ReportsFinal == Spec => []ReportsAreFinal
<1>1. IInv => ReportsAreFinal
  <2> SUFFICES ASSUME IInv  PROVE TerminalReportIsFinal /\ DoubtIsFinal
    BY DEF ReportsAreFinal
  <2>1. main \in Commit /\ Good(main, run, sel) /\ DOMAIN main = 1 .. Len(main)
    BY DEF IInv, Types, Remote, Commit
  <2>2. ASSUME NEW i \in 1 .. Len(main), main[i].kind = Terminal
        PROVE  /\ main[i].told.debits = Count(main, main[i].run)
               /\ main[i].told.doubt = 0
               /\ On(main, main[i].run, Facts) = {}
               /\ \A j \in i + 1 .. Len(main) : main[j].run # main[i].run
    <3>1. Sound(Before(main, i), main[i], run, sel)
      BY <2>1, <2>2, SoundAt DEF Terminal, Other
    <3>2. /\ \A j \in i + 1 .. Len(main) : main[j].run # main[i].run
          /\ Count(main, main[i].run) = Count(Before(main, i), main[i].run)
          /\ \A j \in 1 .. Len(main) \ {i} :
               main[j].kind \in {Facts, Terminal} => main[j].run # main[i].run
      BY <2>1, <2>2, LastWord
    <3>3. On(main, main[i].run, Facts) = {}
      BY <2>1, <2>2, <3>2 DEF On, Facts, Terminal
    <3> QED
      BY <2>2, <3>1, <3>2, <3>3 DEF Sound
  <2>3. TerminalReportIsFinal
    BY <2>1, <2>2 DEF TerminalReportIsFinal, Count
  <2>4. DoubtIsFinal
    BY DEF IInv, Remote, Reports, NothingAfter, Bracket, DoubtIsFinal
  <2> QED
    BY <2>3, <2>4
<1> QED
  BY <1>1, Invariant, PTL
=============================================================================
