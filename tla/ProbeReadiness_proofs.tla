------------------------ MODULE ProbeReadiness_proofs ------------------------
(***************************************************************************)
(* What ProbeReadiness promises, for any targets, sessions, clocks, pages  *)
(* and jobs.                                                               *)
(*                                                                         *)
(* The argument: a date qualifies exactly if some file of it is complete   *)
(* (Qualifying), so more files never take a date back; files stay, and a   *)
(* record replaces only the one that was there when its files were read.   *)
(***************************************************************************)
EXTENDS ProbeReadiness, FiniteSetTheorems, TLAPS

(* What a file published until time n says: nothing of the future.         *)
FileBy(f, n) ==
  /\ f.at \in 0 .. n
  /\ \A s \in DOMAIN f.rows : \A t \in Target :
       f.rows[s][t] # None => f.rows[s][t].date \in 0 .. DateOf(n)

Evaluation(F) == [s \in Session |-> Readiness(F, s)]

(* The record b has no date that the record r lacks.                       *)
Keeps(b, r) == b # None => \A s \in Session : b.sessions[s].dates \subseteq r.sessions[s].dates

-----------------------------------------------------------------------------
(* The invariant.                                                          *)

Types ==
  /\ now \in Nat
  /\ work = [j \in Job |-> [kind |-> work[j].kind, at |-> work[j].at, output |-> work[j].output]]
  /\ base = [j \in Job |-> base[j]]
  /\ store = [files |-> store.files, readiness |-> store.readiness]
  /\ \A j \in Job : /\ work[j].kind \in {"idle", "probe", "evaluate"} /\ work[j].at \in 0 .. now
                    /\ work[j].kind = "idle" => work[j].output = None

(* Published files, and those about to be, are of the past.                *)
Files ==
  /\ \A f \in store.files : FileBy(f, now)
  /\ \A j \in Job : work[j].kind = "probe" /\ work[j].output # None => FileBy(work[j].output, now)

(* The published record is the evaluation of files that are there, and so  *)
(* is the record of a running evaluation, which has all the dates of the   *)
(* record it wants to replace.                                             *)
Records ==
  /\ store.readiness # None =>
       \E F \in SUBSET store.files : store.readiness.sessions = Evaluation(F)
  /\ \A j \in Job : work[j].kind = "evaluate" =>
       /\ \E F \in SUBSET store.files : work[j].output.sessions = Evaluation(F)
       /\ Keeps(base[j], work[j].output)

IInv == Types /\ Files /\ Records

-----------------------------------------------------------------------------
(* Dates.                                                                  *)

LEMMA DateType ==
  ASSUME NEW m \in Nat, NEW n \in Nat, m <= n
  PROVE  DateOf(m) \in Nat /\ DateOf(n) \in Nat /\ DateOf(m) <= DateOf(n)
<1>1. PerDay \in Nat /\ PerDay > 0
  BY ReadinessAssumption
<1> DEFINE a == m \div PerDay
           b == n \div PerDay
<1>2. /\ a \in Int /\ m = PerDay * a + (m % PerDay) /\ m % PerDay \in 0 .. PerDay - 1
  BY <1>1
<1>3. /\ b \in Int /\ n = PerDay * b + (n % PerDay) /\ n % PerDay \in 0 .. PerDay - 1
  BY <1>1
<1>4. DateOf(m) = a /\ DateOf(n) = b
  BY DEF DateOf
<1> HIDE DEF a, b
<1>5. a >= 0 /\ b >= 0
  <2>1. ASSUME NEW x \in Int, x < 0  PROVE PerDay * x <= - PerDay
    BY <1>1, <2>1
  <2> QED
    BY <1>1, <1>2, <1>3, <2>1
<1>6. a <= b
  <2>1. ASSUME a > b  PROVE FALSE
    <3>1. PerDay * a >= PerDay * b + PerDay
      BY <1>1, <1>2, <1>3, <2>1
    <3> QED
      BY <1>1, <1>2, <1>3, <3>1
  <2> QED
    BY <1>2, <1>3, <2>1
<1> QED
  BY <1>2, <1>3, <1>4, <1>5, <1>6

LEMMA FileLater ==
  ASSUME NEW m \in Nat, NEW n \in Nat, m <= n, NEW f, FileBy(f, m)
  PROVE  FileBy(f, n)
BY DateType DEF FileBy

(* The last of some files is one of them.                                  *)
LEMMA LastIsThere ==
  ASSUME NEW n \in Nat, NEW S, S # {}, \A f \in S : FileBy(f, n)
  PROVE  Last(S) \in S
<1> DEFINE T == {k \in Nat : \E f \in S : k = n - f.at}
<1>1. \A f \in S : f.at \in 0 .. n
  BY DEF FileBy
<1>2. T # {} /\ T \subseteq Nat
  <2>1. PICK f \in S : TRUE
    OBVIOUS
  <2>2. n - f.at \in T
    BY <1>1, <2>1
  <2> QED
    BY <2>2
<1>3. PICK k \in T : \A i \in T : ~(<<i, k>> \in OpToRel(<, Nat))
  <2> HIDE DEF T
  <2> QED
    BY <1>2, NatLessThanWellFounded, WFMin
<1>4. \A i \in T : ~(i < k)
  BY <1>2, <1>3 DEF OpToRel
<1>5. PICK f \in S : k = n - f.at
  OBVIOUS
<1>6. \A g \in S : g.at <= f.at
  <2> SUFFICES ASSUME NEW g \in S  PROVE g.at <= f.at
    OBVIOUS
  <2>1. n - g.at \in T
    BY <1>1
  <2> QED
    BY <1>1, <1>4, <1>5, <2>1
<1> QED
  BY <1>5, <1>6 DEF Last

-----------------------------------------------------------------------------
(* Which dates qualify.                                                    *)

(* A complete file saw every target on the date it is filed under.         *)
LEMMA CompleteSaw ==
  ASSUME NEW n \in Nat, NEW f, FileBy(f, n), NEW s, Complete(f, s)
  PROVE  Saw(f, s, DateKey(f, s)) /\ DateKey(f, s) \in 0 .. DateOf(n)
<1>1. Accepted(f, s) = Target /\ ObservedDate(f, s) # None
  BY DEF Complete
<1>2. Cardinality(TradeDates(f, s)) = 1 /\ ObservedDate(f, s) \in TradeDates(f, s)
  <2>1. Cardinality(TradeDates(f, s)) = 1
    BY <1>1 DEF ObservedDate
  <2>2. TradeDates(f, s) # {}
    BY <2>1, FS_EmptySet
  <2> QED
    BY <2>1, <2>2 DEF ObservedDate
<1>3. DateKey(f, s) = ObservedDate(f, s)
  BY <1>1 DEF DateKey
<1>4. s \in DOMAIN f.rows /\ \A t \in Target : Qualifies(f.rows[s][t])
  <2>1. Accepted(f, s) # {}
    BY <1>2 DEF TradeDates
  <2>2. s \in DOMAIN f.rows
    BY <2>1 DEF Accepted
  <2> QED
    BY <1>1, <2>2 DEF Accepted
<1>5. \A t \in Target : f.rows[s][t].date \in TradeDates(f, s) /\ f.rows[s][t].date \in 0 .. DateOf(n)
  BY <1>1, <1>4 DEF TradeDates, FileBy, Qualifies
<1>6. TradeDates(f, s) = {ObservedDate(f, s)} /\ ObservedDate(f, s) \in 0 .. DateOf(n)
  <2>1. TradeDates(f, s) \in SUBSET (0 .. DateOf(n))
    BY <1>1, <1>5 DEF TradeDates
  <2>2. IsFiniteSet(0 .. DateOf(n))
    BY DateType, FS_Interval
  <2>3. IsFiniteSet(TradeDates(f, s))
    BY <2>1, <2>2, FS_Subset
  <2>4. \E x : TradeDates(f, s) = {x}
    BY <1>2, <2>3, FS_Singleton
  <2> QED
    BY <1>2, <2>1, <2>4
<1> QED
  BY <1>3, <1>4, <1>5, <1>6 DEF Saw

(* A date qualifies exactly if one of its files is complete; the selected  *)
(* file is such a one.                                                     *)
LEMMA Qualifying ==
  ASSUME NEW n \in Nat, NEW F, \A f \in F : FileBy(f, n), NEW s
  PROVE  /\ \A f \in F : Complete(f, s) => DateKey(f, s) \in QualifyingDates(F, s)
         /\ \A d \in QualifyingDates(F, s) :
              /\ \E f \in F : Complete(f, s) /\ DateKey(f, s) = d
              /\ Selected(F, s, d) \in F /\ Saw(Selected(F, s, d), s, d)
              /\ d \in 0 .. DateOf(n)
<1> DEFINE observations(d) == {f \in F : DateKey(f, s) = d}
           complete(d) == {f \in observations(d) : Complete(f, s)}
<1>1. ASSUME NEW d, complete(d) # {}
      PROVE  Selected(F, s, d) \in complete(d)
  <2>1. Selected(F, s, d) = Last(complete(d))
    BY <1>1 DEF Selected
  <2>2. \A f \in complete(d) : FileBy(f, n)
    OBVIOUS
  <2> HIDE DEF complete
  <2> QED
    BY <1>1, <2>1, <2>2, LastIsThere
<1>2. ASSUME NEW d, observations(d) # {}, Complete(Selected(F, s, d), s)
      PROVE  complete(d) # {}
  <2> SUFFICES ASSUME complete(d) = {}  PROVE FALSE
    OBVIOUS
  <2>1. Selected(F, s, d) = Last(observations(d))
    BY DEF Selected
  <2>2. \A f \in observations(d) : FileBy(f, n)
    OBVIOUS
  <2>3. Last(observations(d)) \in observations(d)
    <3> HIDE DEF observations
    <3> QED
      BY <1>2, <2>2, LastIsThere
  <2> QED
    BY <1>2, <2>1, <2>3
<1>3. ASSUME NEW f \in F, Complete(f, s)  PROVE DateKey(f, s) \in QualifyingDates(F, s)
  <2>1. f \in complete(DateKey(f, s))
    BY <1>3
  <2>2. Selected(F, s, DateKey(f, s)) \in complete(DateKey(f, s))
    BY <1>1, <2>1
  <2>3. Complete(Selected(F, s, DateKey(f, s)), s)
    BY <2>2
  <2> QED
    BY <2>3 DEF QualifyingDates
<1>4. ASSUME NEW d \in QualifyingDates(F, s)
      PROVE  /\ \E f \in F : Complete(f, s) /\ DateKey(f, s) = d
             /\ Selected(F, s, d) \in F /\ Saw(Selected(F, s, d), s, d)
             /\ d \in 0 .. DateOf(n)
  <2>1. PICK g \in F : d = DateKey(g, s) /\ Complete(Selected(F, s, d), s)
    BY DEF QualifyingDates
  <2>2. g \in observations(d)
    BY <2>1
  <2>3. complete(d) # {}
    BY <1>2, <2>1, <2>2
  <2>4. Selected(F, s, d) \in complete(d)
    BY <1>1, <2>3
  <2>5. /\ Selected(F, s, d) \in F /\ DateKey(Selected(F, s, d), s) = d
        /\ Complete(Selected(F, s, d), s)
    BY <2>4
  <2>6. Saw(Selected(F, s, d), s, d) /\ d \in 0 .. DateOf(n)
    BY <2>5, CompleteSaw
  <2> QED
    BY <2>5, <2>6
<1> QED
  BY <1>3, <1>4

(* More files never take a date back.                                      *)
LEMMA MoreFiles ==
  ASSUME NEW n \in Nat, NEW G, \A f \in G : FileBy(f, n), NEW F \in SUBSET G, NEW s
  PROVE  QualifyingDates(F, s) \subseteq QualifyingDates(G, s)
<1> SUFFICES ASSUME NEW d \in QualifyingDates(F, s)  PROVE d \in QualifyingDates(G, s)
  OBVIOUS
<1>1. \A f \in F : FileBy(f, n)
  OBVIOUS
<1>2. PICK f \in F : Complete(f, s) /\ DateKey(f, s) = d
  BY <1>1, Qualifying
<1> QED
  BY <1>2, Qualifying

(* A set of values that counts one holds one value.                        *)
LEMMA OneValue ==
  ASSUME NEW D, IsFiniteSet(D), NEW V, NEW v \in [D -> V], V = {v[d] : d \in D},
         Cardinality(V) = 1
  PROVE  \A d, e \in D : v[d] = v[e]
<1>1. v \in Surjection(D, V)
  BY DEF Surjection
<1>2. \A d \in D : v[d] \in V
  OBVIOUS
<1>3. IsFiniteSet(V)
  BY <1>1, FS_Surjection
<1>4. \E x : V = {x}
  BY <1>3, FS_Singleton
<1> QED
  BY <1>2, <1>4

(* What a record says of a session is earned by the files it was made of.  *)
EarnedBy(record, F, s, n) ==
  /\ \A d \in record.dates : \E f \in F : Saw(f, s, d) /\ d <= DateOf(n)
  /\ record.status = "promotion_ready" =>
       /\ Cardinality(record.dates) >= Minimum
       /\ \E pick \in [record.dates -> F] :
            /\ \A d \in record.dates : Saw(pick[d], s, d)
            /\ \A d, e \in record.dates : \A t \in Target :
                 pick[d].rows[s][t].shape = pick[e].rows[s][t].shape

LEMMA Earned ==
  ASSUME NEW n \in Nat, NEW F, \A f \in F : FileBy(f, n), NEW s
  PROVE  EarnedBy(Readiness(F, s), F, s, n)
<1> DEFINE dates == QualifyingDates(F, s)
           pick == [d \in dates |-> Selected(F, s, d)]
<1>1. Readiness(F, s).dates = dates
  BY DEF Readiness
<1>2. /\ \A d \in dates : /\ Selected(F, s, d) \in F /\ Saw(Selected(F, s, d), s, d)
                          /\ d \in 0 .. DateOf(n)
  BY Qualifying
<1>3. \A d \in dates : \E f \in F : Saw(f, s, d) /\ d <= DateOf(n)
  BY <1>2, DateType
<1>4. ASSUME Readiness(F, s).status = "promotion_ready"
      PROVE  /\ Cardinality(dates) >= Minimum
             /\ pick \in [dates -> F]
             /\ \A d \in dates : Saw(pick[d], s, d)
             /\ \A d, e \in dates : \A t \in Target :
                  pick[d].rows[s][t].shape = pick[e].rows[s][t].shape
  <2>1. Cardinality(dates) >= Minimum /\ StableShape(F, s)
    BY <1>4 DEF Readiness
  <2>2. pick \in [dates -> F] /\ \A d \in dates : Saw(pick[d], s, d)
    BY <1>2
  <2>3. IsFiniteSet(dates)
    <3>1. dates \in SUBSET (0 .. DateOf(n)) /\ IsFiniteSet(0 .. DateOf(n))
      BY <1>2, DateType, FS_Interval
    <3> HIDE DEF dates
    <3> QED
      BY <3>1, FS_Subset
  <2>4. ASSUME NEW t \in Target
        PROVE  \A d, e \in dates : pick[d].rows[s][t].shape = pick[e].rows[s][t].shape
    <3> DEFINE v == [d \in dates |-> Selected(F, s, d).rows[s][t].shape]
    <3>1. Cardinality(Variants(F, s, t)) = 1
      BY <2>1 DEF StableShape
    <3>2. Variants(F, s, t) = {v[d] : d \in dates}
      BY DEF Variants
    <3>3. v \in [dates -> Variants(F, s, t)]
      BY <3>2
    <3>4. \A d \in dates : v[d] = pick[d].rows[s][t].shape
      OBVIOUS
    <3> HIDE DEF v, dates, pick
    <3>5. \A d, e \in dates : v[d] = v[e]
      BY <2>3, <3>1, <3>2, <3>3, OneValue
    <3> QED
      BY <3>4, <3>5
  <2> QED
    BY <2>1, <2>2, <2>4
<1> HIDE DEF dates, pick
<1> QED
  BY <1>1, <1>3, <1>4 DEF EarnedBy

-----------------------------------------------------------------------------
(* Every step keeps the invariant.                                         *)

LEMMA InitEstablishes == Init => IInv
<1> SUFFICES ASSUME Init  PROVE IInv
  OBVIOUS
<1>1. \A j \in Job : work[j] = [kind |-> "idle", at |-> 0, output |-> None]
  BY DEF Init, NoWork
<1>2. Types
  BY <1>1 DEF Init, Types, NoWork
<1>3. Files /\ Records
  BY <1>1 DEF Init, Files, Records
<1> QED
  BY <1>2, <1>3 DEF IInv

(* One job works on, in a world that only gains files.                     *)
LEMMA JobMoves ==
  ASSUME IInv, NEW j \in Job, NEW w, work' = [work EXCEPT ![j] = w],
         NEW b, base' = [base EXCEPT ![j] = b], now' = now,
         w = [kind |-> w.kind, at |-> w.at, output |-> w.output],
         w.kind \in {"idle", "probe", "evaluate"}, w.at \in 0 .. now,
         w.kind = "idle" => w.output = None,
         w.kind = "probe" /\ w.output # None => FileBy(w.output, now),
         w.kind = "evaluate" => /\ \E F \in SUBSET store'.files : w.output.sessions = Evaluation(F)
                                /\ Keeps(b, w.output),
         store' = [files |-> store'.files, readiness |-> store'.readiness],
         store.files \subseteq store'.files, \A f \in store'.files : FileBy(f, now),
         store'.readiness # None =>
           \E F \in SUBSET store'.files : store'.readiness.sessions = Evaluation(F)
  PROVE  IInv'
<1>1. /\ work'[j] = w /\ \A i \in Job \ {j} : work'[i] = work[i]
      /\ work' = [i \in Job |-> work'[i]]
      /\ base'[j] = b /\ \A i \in Job \ {j} : base'[i] = base[i]
      /\ base' = [i \in Job |-> base'[i]]
  BY DEF IInv, Types
<1>2. Types'
  <2>1. \A i \in Job : work'[i] = [kind |-> work'[i].kind, at |-> work'[i].at,
                                   output |-> work'[i].output]
    BY <1>1 DEF IInv, Types
  <2> QED
    BY <1>1, <2>1 DEF IInv, Types
<1>3. Files'
  BY <1>1 DEF IInv, Files
<1>4. Records'
  <2>1. ASSUME NEW i \in Job, work'[i].kind = "evaluate"
        PROVE  /\ \E F \in SUBSET store'.files : work'[i].output.sessions = Evaluation(F)
               /\ Keeps(base'[i], work'[i].output)
    BY <1>1, <2>1 DEF IInv, Records
  <2> QED
    BY <2>1 DEF Records
<1> QED
  BY <1>2, <1>3, <1>4 DEF IInv

(* A job ends, whatever it did to the store.                               *)
LEMMA Ends ==
  ASSUME IInv, NEW j \in Job, End(j), now' = now,
         store' = [files |-> store'.files, readiness |-> store'.readiness],
         store.files \subseteq store'.files, \A f \in store'.files : FileBy(f, now),
         store'.readiness # None =>
           \E F \in SUBSET store'.files : store'.readiness.sessions = Evaluation(F)
  PROVE  IInv'
<1>1. work' = [work EXCEPT ![j] = NoWork] /\ base' = [base EXCEPT ![j] = None]
  BY DEF End
<1>2. /\ NoWork = [kind |-> NoWork.kind, at |-> NoWork.at, output |-> NoWork.output]
      /\ NoWork.kind = "idle" /\ NoWork.at \in 0 .. now /\ NoWork.output = None
  BY DEF NoWork, IInv, Types
<1> QED
  BY <1>1, <1>2, JobMoves

(* What holds of the store, as JobMoves wants it.                          *)
LEMMA StoreHolds ==
  ASSUME IInv
  PROVE  /\ store = [files |-> store.files, readiness |-> store.readiness]
         /\ \A f \in store.files : FileBy(f, now)
         /\ store.readiness # None =>
              \E F \in SUBSET store.files : store.readiness.sessions = Evaluation(F)
BY DEF IInv, Types, Files, Records

LEMMA StartProbeStep == ASSUME IInv, NEW j \in Job, StartProbe(j)  PROVE IInv'
<1> DEFINE w == [kind |-> "probe", at |-> now, output |-> None]
<1>1. /\ work' = [work EXCEPT ![j] = w]
      /\ base' = [base EXCEPT ![j] = store.readiness] /\ UNCHANGED <<store, now>>
  BY DEF StartProbe
<1>2. /\ w = [kind |-> w.kind, at |-> w.at, output |-> w.output]
      /\ w.kind = "probe" /\ w.at \in 0 .. now /\ w.output = None
  BY DEF IInv, Types
<1> HIDE DEF w
<1> QED
  BY <1>1, <1>2, StoreHolds, JobMoves

LEMMA RowType ==
  ASSUME NEW n \in Nat, NEW page \in Answers, NEW s, Row(s, n, page) # None
  PROVE  Row(s, n, page).date \in 0 .. DateOf(n)
<1>1. page.age \in Nat
  BY ReadinessAssumption
<1>2. page.age <= n /\ Row(s, n, page).date = DateOf(n - page.age)
  BY DEF Row
<1>3. n - page.age \in Nat /\ n - page.age <= n
  BY <1>1, <1>2
<1> QED
  BY <1>2, <1>3, DateType

LEMMA ProbeStep == ASSUME IInv, NEW j \in Job, Probe(j)  PROVE IInv'
<1>0. PICK force \in Session \cup {"auto"} :
        \E pages \in Pages(RequestedSessions(work[j].at, force)) :
          work' = [work EXCEPT ![j].output =
            [at |-> work[j].at,
             rows |-> [s \in DOMAIN pages |-> [t \in Target |-> Row(s, now, pages[s][t])]]]]
  BY DEF Probe
<1>1. PICK pages \in Pages(RequestedSessions(work[j].at, force)) :
        work' = [work EXCEPT ![j].output =
          [at |-> work[j].at,
           rows |-> [s \in DOMAIN pages |-> [t \in Target |-> Row(s, now, pages[s][t])]]]]
  BY <1>0
<1> DEFINE file == [at |-> work[j].at,
                    rows |-> [s \in DOMAIN pages |-> [t \in Target |-> Row(s, now, pages[s][t])]]]
           w == [kind |-> "probe", at |-> work[j].at, output |-> file]
<1>2. FileBy(file, now)
  <2>1. \A s \in DOMAIN pages : \A t \in Target : pages[s][t] \in Answers
    BY DEF Pages
  <2>2. now \in Nat /\ work[j].at \in 0 .. now
    BY DEF IInv, Types
  <2> QED
    BY <2>1, <2>2, RowType DEF FileBy
<1>3. work[j].kind = "probe" /\ UNCHANGED <<store, base, now>>
  BY DEF Probe
<1>4. work' = [work EXCEPT ![j] = w]
  <2>1. /\ work[j] = [kind |-> "probe", at |-> work[j].at, output |-> work[j].output]
        /\ work = [i \in Job |-> work[i]]
    BY <1>3 DEF IInv, Types
  <2>2. work' = [work EXCEPT ![j] = [work[j] EXCEPT !.output = file]]
    BY <1>1, <2>1
  <2> HIDE DEF file
  <2>3. [work[j] EXCEPT !.output = file] = w
    BY <2>1
  <2> QED
    BY <2>2, <2>3
<1>5. base' = [base EXCEPT ![j] = base[j]]
  BY <1>3 DEF IInv, Types
<1>6. /\ w.kind = "probe" /\ w.output = file /\ w.at \in 0 .. now
      /\ w = [kind |-> w.kind, at |-> w.at, output |-> w.output]
  BY DEF IInv, Types
<1> HIDE DEF w, file
<1> QED
  BY <1>2, <1>3, <1>4, <1>5, <1>6, StoreHolds, JobMoves

LEMMA EvaluateStep == ASSUME IInv, NEW j \in Job, Evaluate(j)  PROVE IInv'
<1> DEFINE r == [at |-> now, sessions |-> [s \in Session |-> Readiness(store.files, s)]]
           w == [kind |-> "evaluate", at |-> now, output |-> r]
<1>1. /\ work' = [work EXCEPT ![j] = w] /\ base' = [base EXCEPT ![j] = store.readiness]
      /\ UNCHANGED <<store, now>>
  BY DEF Evaluate
<1>2. r.sessions = Evaluation(store.files)
  BY DEF Evaluation
<1>3. Keeps(store.readiness, r)
  <2> SUFFICES ASSUME store.readiness # None, NEW s \in Session
               PROVE  store.readiness.sessions[s].dates \subseteq r.sessions[s].dates
    BY DEF Keeps
  <2>1. PICK F \in SUBSET store.files : store.readiness.sessions = Evaluation(F)
    BY DEF IInv, Records
  <2>2. QualifyingDates(F, s) \subseteq QualifyingDates(store.files, s)
    BY MoreFiles DEF IInv, Types, Files
  <2>3. /\ store.readiness.sessions[s].dates = QualifyingDates(F, s)
        /\ r.sessions[s].dates = QualifyingDates(store.files, s)
    BY <2>1 DEF Evaluation, Readiness
  <2> QED
    BY <2>2, <2>3
<1>4. /\ w.kind = "evaluate" /\ w.output = r /\ w.at \in 0 .. now
      /\ w = [kind |-> w.kind, at |-> w.at, output |-> w.output]
  BY DEF IInv, Types
<1> HIDE DEF w, r
<1> QED
  BY <1>1, <1>2, <1>3, <1>4, StoreHolds, JobMoves

(* What a publication does to the store.                                   *)
LEMMA Published ==
  ASSUME IInv, NEW j \in Job, Publish(j)
  PROVE  /\ store' = [files |-> store'.files, readiness |-> store'.readiness]
         /\ store.files \subseteq store'.files /\ \A f \in store'.files : FileBy(f, now)
         /\ store'.readiness # None =>
              \E F \in SUBSET store'.files : store'.readiness.sessions = Evaluation(F)
         /\ store.readiness # None =>
              store'.readiness # None /\ Keeps(store.readiness, store'.readiness)
<1>1. /\ work[j].output # None /\ work[j].kind \in {"probe", "evaluate"}
      /\ store = [files |-> store.files, readiness |-> store.readiness]
  BY DEF Publish, IInv, Types
<1>2. CASE store' = store
  BY <1>1, <1>2 DEF IInv, Files, Records, Keeps
<1>3. CASE work[j].kind = "probe" /\ store' = [store EXCEPT !.files = @ \cup {work[j].output}]
  <2>1. store' = [files |-> store.files \cup {work[j].output}, readiness |-> store.readiness]
    BY <1>1, <1>3
  <2> QED
    BY <1>1, <1>3, <2>1 DEF IInv, Files, Records, Keeps
<1>4. CASE /\ work[j].kind = "evaluate" /\ base[j] = store.readiness
           /\ store' = [store EXCEPT !.readiness = work[j].output]
  <2>1. store' = [files |-> store.files, readiness |-> work[j].output]
    BY <1>1, <1>4
  <2> QED
    BY <1>1, <1>4, <2>1 DEF IInv, Files, Records
<1> QED
  BY <1>1, <1>2, <1>3, <1>4 DEF Publish, Rebases

LEMMA PublishStep == ASSUME IInv, NEW j \in Job, Publish(j)  PROVE IInv'
BY Published, Ends DEF Publish

LEMMA TickStep == ASSUME IInv, Tick  PROVE IInv'
<1>1. now \in Nat /\ now' = now + 1 /\ UNCHANGED <<store, base, work>>
  BY DEF IInv, Types, Tick
<1>2. Types'
  BY <1>1 DEF IInv, Types
<1>3. Files'
  BY <1>1, FileLater DEF IInv, Files
<1>4. Records'
  BY <1>1 DEF IInv, Records
<1> QED
  BY <1>2, <1>3, <1>4 DEF IInv

LEMMA StepPreserves == IInv /\ [Next]_vars => IInv'
<1> SUFFICES ASSUME IInv, [Next]_vars  PROVE IInv'
  OBVIOUS
<1>1. ASSUME NEW j \in Job, JobFails(j)  PROVE IInv'
  BY <1>1, StoreHolds, Ends DEF JobFails
<1>2. CASE Next
  BY <1>1, <1>2, StartProbeStep, ProbeStep, EvaluateStep, PublishStep, TickStep DEF Next
<1>3. CASE UNCHANGED vars
  BY <1>3 DEF IInv, Types, Files, Records, vars
<1> QED
  BY <1>2, <1>3

(* In every reachable state the published record, and each on its way, is  *)
(* the evaluation of published files of the past.                          *)
THEOREM Invariant == Spec => []IInv
BY InitEstablishes, StepPreserves, PTL DEF Spec

(* Readiness is earned by published probes that saw all targets.           *)
THEOREM Earns == Spec => []ReadinessIsEarned
<1>1. IInv => ReadinessIsEarned
  <2> SUFFICES ASSUME IInv, store.readiness # None, NEW s \in Session
               PROVE  EarnedBy(store.readiness.sessions[s], store.files, s, now)
    BY DEF ReadinessIsEarned, EarnedBy
  <2>1. PICK F \in SUBSET store.files : store.readiness.sessions = Evaluation(F)
    BY DEF IInv, Records
  <2>2. now \in Nat /\ \A f \in F : FileBy(f, now)
    BY DEF IInv, Types, Files
  <2>3. store.readiness.sessions[s] = Readiness(F, s)
    BY <2>1 DEF Evaluation
  <2>4. EarnedBy(Readiness(F, s), F, s, now)
    BY <2>2, Earned
  <2>5. EarnedBy(store.readiness.sessions[s], F, s, now)
    BY <2>3, <2>4
  <2> QED
    BY <2>5 DEF EarnedBy
<1> QED
  BY <1>1, Invariant, PTL

(* No step takes a published date back.                                    *)
THEOREM DatesStay == Spec => QualifiedDatesStay
<1> DEFINE Stays == store.readiness # None =>
       /\ store'.readiness # None
       /\ \A s \in Session :
            store.readiness.sessions[s].dates \subseteq store'.readiness.sessions[s].dates
<1>1. IInv /\ [Next]_vars => [Stays]_vars
  <2> SUFFICES ASSUME IInv, Next  PROVE Stays
    OBVIOUS
  <2>1. ASSUME NEW j \in Job, Publish(j)  PROVE Stays
    BY <2>1, Published DEF Keeps
  <2>2. CASE store' = store
    BY <2>2
  <2>3. store' = store \/ \E j \in Job : Publish(j)
    BY DEF Next, StartProbe, Probe, Evaluate, JobFails, Tick
  <2> QED
    BY <2>1, <2>2, <2>3
<1> QED
  BY <1>1, Invariant, PTL DEF Spec, QualifiedDatesStay
=============================================================================
