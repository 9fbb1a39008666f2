-------------------------- MODULE CreditBudget_proofs --------------------------
(***************************************************************************)
(* What CreditBudget promises, for any limits, horizon and number of jobs. *)
(*                                                                         *)
(* The argument: a ledger only ever grows by Charge, which its guard keeps *)
(* within the limits (ChargeKeepsLimits).  What a job may still need a     *)
(* credit for is owed by the ledger it works on until it is used or the    *)
(* job is over (Owed), and time alone never takes a free minute away,      *)
(* because a ledger knows no minute after the current one.                 *)
(***************************************************************************)
EXTENDS CreditBudget, FiniteSetTheorems, TLAPS

Total(f) == FoldFunction(+, 0, f)

LedgerType ==
  [credits : 0 .. PerDay,
   minutes : UNION {[D -> 1 .. PerMinute] : D \in SUBSET Minutes}]

(* A ledger in minute m.                                                   *)
Sound(l, m) ==
  /\ l \in LedgerType
  /\ DOMAIN l.minutes \subseteq 0 .. m
  /\ Cardinality(DOMAIN l.minutes) <= KeptMinutes
  /\ Total(l.minutes) <= l.credits

(* The ledger l covers the guarded requests g sent until minute m, and so  *)
(* many more to come in minute s.                                          *)
Owed(l, g, more, s, m) ==
  /\ Total(g) + more <= l.credits
  /\ \A n \in DOMAIN l.minutes \cup {m} : g[n] + (IF n = s THEN more ELSE 0) <= Count(l, n)

Asking == {"guard", "call", "slow"}

(* The request to come that the published ledger, the ledger of the job,   *)
(* and the answers of the job have the debit for.                          *)
Due == IF job = "guarded" /\ pc \in Asking THEN 1 ELSE 0
DueOfWork == IF job = "guarded" /\ pc \in Asking \cup {"publish"} THEN 1 ELSE 0
Awaited == IF job # "after" /\ pc \in Asking \cup {"publish"} THEN 1 ELSE 0

-----------------------------------------------------------------------------
(* The invariant.                                                          *)

Types ==
  /\ now \in 0 .. Horizon /\ job \in Kind \cup {None} /\ pc \in Step
  /\ pc = "idle" <=> job = None
  /\ pc = "idle" => answers = 0
  /\ pc \in {"recheck", "publish", "guard", "slow"} => job = "guarded"
  /\ slot \in 0 .. Minute /\ answers \in Nat /\ kept \in Nat
  /\ sent.guarded \in [Minutes -> Nat]
  /\ \A m \in Minutes : m > Minute => sent.guarded[m] = 0

Ledgers == Sound(ledger, Minute) /\ Sound(work, Minute)

(* Whoever may still debit has waited for it; whoever may still send a     *)
(* guarded request is in the minute of its debit.                          *)
Waited ==
  /\ pc = "debit" \/ (pc = "call" /\ job = "after")
       => DayFree(work) /\ MinuteFree(work, Minute)
  /\ pc = "call" /\ job = "guarded" => SlotOpen
  /\ pc = "slow" => Minute = slot

(* Requests and answers have their credits: in the published ledger, and   *)
(* in the one of the running job.                                          *)
Debited ==
  /\ Owed(ledger, sent.guarded, Due, slot, Minute)
  /\ kept <= ledger.credits
  /\ pc # "idle" =>
       /\ Owed(work, sent.guarded, DueOfWork, slot, Minute)
       /\ kept + answers + Awaited <= work.credits

IInv == Types /\ Ledgers /\ Waited /\ Debited

-----------------------------------------------------------------------------
(* Sums.                                                                   *)

(* g gives the sum of f over every subset of D.                            *)
Adds(g, f, D) ==
  /\ g \in [SUBSET D -> Nat] /\ g[{}] = 0
  /\ \A s \in SUBSET D : \A x \in s : g[s] = f[x] + g[s \ {x}]

LEMMA SmallestSet ==
  ASSUME NEW D, IsFiniteSet(D), NEW T, T \subseteq SUBSET D, T # {}
  PROVE  \E s \in T : \A r \in T : ~(r \subseteq s /\ r # s)
<1>1. \A s \in SUBSET D : s \in FiniteSubsetsOf(D)
  BY FS_Subset DEF FiniteSubsetsOf
<1>2. \E s \in T : \A r \in T : ~(<<r, s>> \in StrictSubsetOrdering(D))
  BY <1>1, FS_StrictSubsetOrderingWellFounded, WFMin
<1> QED
  BY <1>2 DEF StrictSubsetOrdering

LEMMA SumsExist ==
  ASSUME NEW D, IsFiniteSet(D), NEW f \in [D -> Nat]
  PROVE  \E g : Adds(g, f, D)
<1> DEFINE T == {s \in SUBSET D : ~ \E g : Adds(g, f, s)}
<1> SUFFICES ASSUME T # {}  PROVE FALSE
  OBVIOUS
<1>0. T \subseteq SUBSET D
  OBVIOUS
<1> HIDE DEF T
<1>1. PICK s \in T : \A r \in T : ~(r \subseteq s /\ r # s)
  BY <1>0, SmallestSet
<1> USE DEF T
<1>2. CASE s = {}
  <2>1. Adds([r \in SUBSET {} |-> 0], f, {})
    BY DEF Adds
  <2> QED
    BY <1>2, <2>1
<1>3. CASE s # {}
  <2>1. PICK x \in s : TRUE
    BY <1>3
  <2>2. s \ {x} \notin T /\ s \ {x} \in SUBSET D
    BY <1>1, <2>1
  <2>3. PICK g : Adds(g, f, s \ {x})
    BY <2>2
  <2> DEFINE h == [r \in SUBSET s |-> IF x \in r THEN f[x] + g[r \ {x}] ELSE g[r]]
  <2>4. /\ \A r \in SUBSET (s \ {x}) : g[r] \in Nat
        /\ \A r \in SUBSET (s \ {x}) : \A y \in r : g[r] = f[y] + g[r \ {y}]
        /\ \A y \in s : f[y] \in Nat
    BY <2>3 DEF Adds
  <2>5. \A r \in SUBSET s : h[r] \in Nat
    <3> SUFFICES ASSUME NEW r \in SUBSET s  PROVE h[r] \in Nat
      OBVIOUS
    <3>1. r \ {x} \in SUBSET (s \ {x})
      OBVIOUS
    <3>2. x \notin r => r \in SUBSET (s \ {x})
      OBVIOUS
    <3> QED
      BY <2>1, <2>4, <3>1, <3>2
  <2>6. h[{}] = 0
    BY <2>3 DEF Adds
  <2>7. ASSUME NEW r \in SUBSET s, NEW y \in r  PROVE h[r] = f[y] + h[r \ {y}]
    <3>1. r \ {x} \in SUBSET (s \ {x}) /\ r \ {y} \in SUBSET s
      OBVIOUS
    <3>2. CASE y = x
      BY <3>1, <3>2
    <3>3. CASE y # x /\ x \in r
      <4>1. g[r \ {x}] = f[y] + g[(r \ {x}) \ {y}]
        BY <2>4, <3>1, <3>3
      <4>2. (r \ {x}) \ {y} = (r \ {y}) \ {x} /\ (r \ {x}) \ {y} \in SUBSET (s \ {x})
        OBVIOUS
      <4>3. h[r] = f[x] + g[r \ {x}] /\ h[r \ {y}] = f[x] + g[(r \ {y}) \ {x}]
        BY <3>1, <3>3
      <4>4. f[x] \in Nat /\ f[y] \in Nat /\ g[(r \ {x}) \ {y}] \in Nat
        BY <2>1, <2>4, <2>7, <4>2
      <4> HIDE DEF h
      <4>5. h[r] = f[x] + (f[y] + g[(r \ {x}) \ {y}]) /\ h[r \ {y}] = f[x] + g[(r \ {x}) \ {y}]
        BY <4>1, <4>2, <4>3
      <4> QED
        BY <4>4, <4>5
    <3>4. CASE x \notin r
      <4>1. r \in SUBSET (s \ {x}) /\ x \notin r \ {y}
        BY <3>4
      <4> QED
        BY <2>4, <3>1, <3>4, <4>1
    <3> QED
      BY <3>2, <3>3, <3>4
  <2>8. h \in [SUBSET s -> Nat]
    BY <2>5
  <2> HIDE DEF h
  <2>9. Adds(h, f, s)
    BY <2>6, <2>7, <2>8 DEF Adds
  <2> QED
    BY <2>9
<1> QED
  BY <1>2, <1>3

(* The fold of the community modules, whatever order it takes, is this sum. *)
LEMMA FoldAdds ==
  ASSUME NEW D, IsFiniteSet(D), NEW f \in [D -> Nat], NEW g, Adds(g, f, D)
  PROVE  FoldFunction(+, 0, f) = g[D]
<1> DEFINE Pick(s) == CHOOSE x \in s : TRUE
           Folds(h) == h = [s \in SUBSET D |-> IF s = {} THEN 0 ELSE f[Pick(s)] + h[s \ {Pick(s)}]]
           it == CHOOSE h : Folds(h)
<1>1. FoldFunction(+, 0, f) = it[D]
  BY DEF FoldFunction, FoldFunctionOnSet, MapThenFoldSet
<1>2. \A s \in SUBSET D : s # {} => Pick(s) \in s
  OBVIOUS
<1> HIDE DEF Pick
<1>3. Folds(g)
  <2>1. g = [s \in SUBSET D |-> g[s]]
    BY DEF Adds
  <2>2. \A s \in SUBSET D : g[s] = IF s = {} THEN 0 ELSE f[Pick(s)] + g[s \ {Pick(s)}]
    BY <1>2 DEF Adds
  <2> QED
    BY <2>1, <2>2
<1>4. Folds(it)
  BY <1>3
<1> HIDE DEF it
<1>5. \A s \in SUBSET D : it[s] = IF s = {} THEN 0 ELSE f[Pick(s)] + it[s \ {Pick(s)}]
  BY <1>4
<1> DEFINE T == {s \in SUBSET D : it[s] # g[s]}
<1>6. T = {}
  <2> SUFFICES ASSUME T # {}  PROVE FALSE
    OBVIOUS
  <2>0. T \subseteq SUBSET D
    OBVIOUS
  <2> HIDE DEF T
  <2>1. PICK s \in T : \A r \in T : ~(r \subseteq s /\ r # s)
    BY <2>0, SmallestSet
  <2> USE DEF T
  <2>2. s # {}
    BY <1>5 DEF Adds
  <2>3. Pick(s) \in s
    BY <1>2, <2>2
  <2>4. s \ {Pick(s)} \notin T /\ s \ {Pick(s)} \in SUBSET D
    BY <2>1, <2>3
  <2>5. it[s] = f[Pick(s)] + it[s \ {Pick(s)}]
    BY <1>5, <2>2
  <2>6. g[s] = f[Pick(s)] + g[s \ {Pick(s)}]
    BY <2>3 DEF Adds
  <2> QED
    BY <2>4, <2>5, <2>6
<1> QED
  BY <1>1, <1>6

LEMMA SumOf ==
  ASSUME NEW D, IsFiniteSet(D), NEW f \in [D -> Nat]
  PROVE  \E g : Adds(g, f, D) /\ Total(f) = g[D]
BY SumsExist, FoldAdds DEF Total

(* At most as much at every point but one, and one more there.             *)
LEMMA SumGrows ==
  ASSUME NEW D, IsFiniteSet(D), NEW f \in [D -> Nat],
         NEW E, IsFiniteSet(E), NEW e \in [E -> Nat],
         NEW m, E \subseteq D \cup {m},
         \A x \in E \ {m} : e[x] <= f[x],
         m \in E => e[m] <= (IF m \in D THEN f[m] ELSE 0) + 1
  PROVE  Total(e) \in Nat /\ Total(f) \in Nat /\ Total(e) <= Total(f) + 1
<1>1. PICK g : Adds(g, f, D) /\ Total(f) = g[D]
  BY SumOf
<1>2. PICK h : Adds(h, e, E) /\ Total(e) = h[E]
  BY SumOf
<1>3. /\ \A s \in SUBSET D : g[s] \in Nat
      /\ \A s \in SUBSET E : h[s] \in Nat
      /\ \A x \in D : f[x] \in Nat
      /\ \A x \in E : e[x] \in Nat
  BY <1>1, <1>2 DEF Adds
<1> DEFINE T == {s \in SUBSET (E \ {m}) : ~(h[s] <= g[s])}
<1>4. T = {}
  <2> SUFFICES ASSUME T # {}  PROVE FALSE
    OBVIOUS
  <2>0. T \subseteq SUBSET E /\ {} \notin T
    BY <1>1, <1>2 DEF Adds
  <2> HIDE DEF T
  <2>1. PICK s \in T : \A r \in T : ~(r \subseteq s /\ r # s)
    BY <2>0, SmallestSet
  <2>3. s # {}
    BY <2>0
  <2> USE DEF T
  <2>2. s \in SUBSET E /\ s \in SUBSET D
    BY <2>1
  <2>4. PICK x \in s : TRUE
    BY <2>3
  <2>5. h[s] = e[x] + h[s \ {x}] /\ g[s] = f[x] + g[s \ {x}]
    BY <1>1, <1>2, <2>2, <2>4 DEF Adds
  <2>6. h[s \ {x}] <= g[s \ {x}]
    BY <2>1, <2>4
  <2>7. e[x] <= f[x] /\ x \in D /\ x \in E
    BY <2>1, <2>2, <2>4
  <2>8. s \ {x} \in SUBSET E /\ s \ {x} \in SUBSET D
    BY <2>2
  <2>9. /\ h[s \ {x}] \in Nat /\ g[s \ {x}] \in Nat /\ e[x] \in Nat /\ f[x] \in Nat
    BY <1>3, <2>7, <2>8
  <2>10. h[s] <= g[s]
    BY <2>5, <2>6, <2>7, <2>9
  <2> QED
    BY <2>1, <2>10
<1>5. h[E \ {m}] <= g[E \ {m}]
  BY <1>4
<1> DEFINE U == {s \in SUBSET D : \E r \in SUBSET s : ~(g[r] <= g[s])}
<1>6. U = {}
  <2> SUFFICES ASSUME U # {}  PROVE FALSE
    OBVIOUS
  <2>0. U \subseteq SUBSET D
    OBVIOUS
  <2> HIDE DEF U
  <2>1. PICK s \in U : \A r \in U : ~(r \subseteq s /\ r # s)
    BY <2>0, SmallestSet
  <2> USE DEF U
  <2>2. PICK r \in SUBSET s : ~(g[r] <= g[s])
    BY <2>1
  <2>3. r # s
    BY <1>3, <2>2
  <2>4. PICK x \in s : x \notin r
    BY <2>3
  <2>5. s \ {x} \notin U
    BY <2>1, <2>4
  <2>6. g[r] <= g[s \ {x}]
    BY <2>4, <2>5
  <2>7. g[s] = f[x] + g[s \ {x}]
    BY <1>1, <2>4 DEF Adds
  <2>8. /\ f[x] \in Nat /\ g[s \ {x}] \in Nat /\ g[r] \in Nat
    BY <1>3, <2>2, <2>4
  <2> QED
    BY <2>2, <2>6, <2>7, <2>8
<1>7. E \ {m} \in SUBSET (D \ {m}) /\ D \ {m} \in SUBSET D /\ E \ {m} \in SUBSET D
  OBVIOUS
<1>8. g[E \ {m}] <= g[D \ {m}] /\ g[E \ {m}] <= g[D]
  BY <1>6, <1>7
<1>9. E \ {m} \in SUBSET E /\ E \in SUBSET E /\ D \in SUBSET D
  OBVIOUS
<1>10. /\ h[E \ {m}] \in Nat /\ g[E \ {m}] \in Nat /\ g[D \ {m}] \in Nat /\ g[D] \in Nat /\ h[E] \in Nat
  BY <1>3, <1>7, <1>9
<1>11. CASE m \notin E
  <2>1. E \ {m} = E
    BY <1>11
  <2> QED
    BY <1>1, <1>2, <1>5, <1>8, <1>10, <2>1
<1>12. CASE m \in E
  <2>1. h[E] = e[m] + h[E \ {m}] /\ e[m] \in Nat
    BY <1>2, <1>3, <1>9, <1>12 DEF Adds
  <2>2. CASE m \in D
    <3>1. g[D] = f[m] + g[D \ {m}] /\ f[m] \in Nat
      BY <1>1, <1>3, <1>9, <2>2 DEF Adds
    <3> QED
      BY <1>1, <1>2, <1>5, <1>8, <1>10, <1>12, <2>1, <2>2, <3>1
  <2>3. CASE m \notin D
    BY <1>1, <1>2, <1>5, <1>8, <1>10, <1>12, <2>1, <2>3
  <2> QED
    BY <2>2, <2>3
<1> QED
  BY <1>11, <1>12

-----------------------------------------------------------------------------
(* The ledger.                                                             *)

(* Newest keeps at most KeptMinutes: the number of newer minutes tells the *)
(* minutes apart.                                                          *)
LEMMA NewestBounded ==
  ASSUME NEW D \in SUBSET Nat, IsFiniteSet(D)
  PROVE  Cardinality(Newest(D)) <= KeptMinutes /\ IsFiniteSet(Newest(D))
<1> DEFINE newer(m) == {n \in D : n > m}
           rank == [m \in Newest(D) |-> Cardinality(newer(m))]
<1>1. \A m : newer(m) \in SUBSET D /\ IsFiniteSet(newer(m)) /\ Cardinality(newer(m)) \in Nat
  <2> SUFFICES ASSUME NEW m
               PROVE  newer(m) \in SUBSET D /\ IsFiniteSet(newer(m)) /\ Cardinality(newer(m)) \in Nat
    OBVIOUS
  <2>1. newer(m) \in SUBSET D
    OBVIOUS
  <2> HIDE DEF newer
  <2> QED
    BY <2>1, FS_Subset, FS_CardinalityType
<1>2. KeptMinutes \in Nat \ {0}
  BY BudgetAssumption
<1>3. Newest(D) \subseteq D /\ \A m \in Newest(D) : rank[m] \in 0 .. KeptMinutes - 1
  BY <1>1, <1>2 DEF Newest
<1>4. ASSUME NEW m \in D, NEW k \in D, m < k
      PROVE  Cardinality(newer(k)) < Cardinality(newer(m))
  <2>0. m \in Nat /\ k \in Nat /\ \A n \in D : n \in Nat
    OBVIOUS
  <2>1. newer(k) \in SUBSET newer(m) /\ k \in newer(m) /\ k \notin newer(k)
    <3>1. k > m /\ ~(k > k) /\ \A n \in D : n > k => n > m
      BY <1>4, <2>0
    <3>2. newer(k) \subseteq newer(m)
      BY <3>1
    <3> QED
      BY <3>1, <3>2
  <2> HIDE DEF newer
  <2>2. newer(k) # newer(m)
    BY <2>1
  <2>3. Cardinality(newer(k)) <= Cardinality(newer(m)) /\ Cardinality(newer(k)) # Cardinality(newer(m))
    BY <1>1, <2>1, <2>2, FS_Subset
  <2> QED
    BY <1>1, <2>3
<1>5. rank \in Injection(Newest(D), 0 .. KeptMinutes - 1)
  <2>1. rank \in [Newest(D) -> 0 .. KeptMinutes - 1]
    BY <1>3
  <2>2. ASSUME NEW m \in Newest(D), NEW k \in Newest(D), rank[m] = rank[k]  PROVE m = k
    <3>1. Cardinality(newer(m)) = Cardinality(newer(k))
      BY <2>2
    <3>2. m \in D /\ k \in D /\ m \in Nat /\ k \in Nat
      BY <1>3
    <3> HIDE DEF newer
    <3>3. ~(m < k) /\ ~(k < m)
      BY <1>1, <1>4, <3>1, <3>2
    <3> QED
      BY <3>2, <3>3
  <2> HIDE DEF rank
  <2> QED
    BY <2>1, <2>2 DEF Injection, IsInjective
<1>6. IsFiniteSet(0 .. KeptMinutes - 1) /\ Cardinality(0 .. KeptMinutes - 1) = KeptMinutes
  BY <1>2, FS_Interval
<1> HIDE DEF rank
<1> QED
  BY <1>5, <1>6, FS_Injection

LEMMA LedgerFacts ==
  ASSUME NEW l \in LedgerType
  PROVE  /\ l.credits \in 0 .. PerDay
         /\ DOMAIN l.minutes \subseteq Minutes /\ IsFiniteSet(DOMAIN l.minutes)
         /\ l.minutes \in [DOMAIN l.minutes -> Nat]
         /\ \A n \in DOMAIN l.minutes : l.minutes[n] \in 1 .. PerMinute
         /\ \A n : Count(l, n) \in 0 .. PerMinute
<1>1. PerMinute \in Nat /\ Horizon \in Nat
  BY BudgetAssumption
<1>2. PICK D \in SUBSET Minutes : l.minutes \in [D -> 1 .. PerMinute]
  BY DEF LedgerType
<1>3. IsFiniteSet(Minutes)
  BY <1>1, FS_Interval DEF Minutes
<1>4. IsFiniteSet(D) /\ DOMAIN l.minutes = D
  BY <1>2, <1>3, FS_Subset
<1>5. \A n \in DOMAIN l.minutes : l.minutes[n] \in 1 .. PerMinute
  BY <1>2
<1>6. l.minutes \in [DOMAIN l.minutes -> Nat]
  BY <1>1, <1>2
<1>7. \A n : Count(l, n) \in 0 .. PerMinute
  BY <1>1, <1>5 DEF Count
<1> QED
  BY <1>2, <1>4, <1>5, <1>6, <1>7 DEF LedgerType

(* What consume_twelve_credit does to a ledger.                            *)
LEMMA ChargeKeepsLimits ==
  ASSUME NEW m \in Minutes, NEW l, Sound(l, m), ~Refused(l, m)
  PROVE  /\ Sound(Charge(l, m), m)
         /\ Charge(l, m).credits = l.credits + 1
         /\ m \in DOMAIN Charge(l, m).minutes
         /\ Count(Charge(l, m), m) = Count(l, m) + 1
         /\ \A n \in DOMAIN Charge(l, m).minutes \ {m} :
              n \in DOMAIN l.minutes /\ Count(Charge(l, m), n) = Count(l, n)
<1> DEFINE D == DOMAIN l.minutes \cup {m}
           M == [n \in Newest(D) |-> IF n = m THEN Count(l, m) + 1 ELSE l.minutes[n]]
<1>1. Charge(l, m) = [credits |-> l.credits + 1, minutes |-> M]
  BY DEF Charge
<1>2. l \in LedgerType /\ DOMAIN l.minutes \subseteq 0 .. m /\ Total(l.minutes) <= l.credits
  BY DEF Sound
<1>3. /\ m \in Nat /\ PerMinute \in Nat \ {0} /\ PerDay \in Nat /\ KeptMinutes \in Nat \ {0}
      /\ Minutes \subseteq Nat
  BY BudgetAssumption DEF Minutes
<1>4. /\ l.credits \in Nat /\ l.credits + 1 <= PerDay
      /\ Count(l, m) \in Nat /\ Count(l, m) + 1 <= PerMinute
  BY <1>2, <1>3, LedgerFacts DEF Refused
<1>5. /\ D \in SUBSET Minutes /\ D \in SUBSET Nat /\ IsFiniteSet(D) /\ D \subseteq 0 .. m
      /\ IsFiniteSet(DOMAIN l.minutes)
  BY <1>2, <1>3, LedgerFacts, FS_AddElement
<1>6. m \in Newest(D) /\ Newest(D) \subseteq D
  <2>1. {n \in D : n > m} = {}
    BY <1>3, <1>5
  <2>2. Cardinality({n \in D : n > m}) = 0
    BY <2>1, FS_EmptySet
  <2> QED
    BY <1>3, <2>2 DEF Newest
<1>7. Cardinality(Newest(D)) <= KeptMinutes /\ IsFiniteSet(Newest(D))
  BY <1>5, NewestBounded
<1>8. \A n \in Newest(D) \ {m} : n \in DOMAIN l.minutes /\ l.minutes[n] \in 1 .. PerMinute
  BY <1>2, <1>6, LedgerFacts
<1>9. /\ DOMAIN M = Newest(D) /\ M[m] = Count(l, m) + 1
      /\ \A n \in Newest(D) \ {m} : M[n] = l.minutes[n]
  BY <1>6
<1>10. M \in [Newest(D) -> 1 .. PerMinute]
  BY <1>3, <1>4, <1>8
<1> HIDE DEF D, M
<1>11. Total(M) <= Total(l.minutes) + 1 /\ Total(l.minutes) \in Nat /\ Total(M) \in Nat
  <2>1. l.minutes \in [DOMAIN l.minutes -> Nat]
    BY <1>2, LedgerFacts
  <2>2. M \in [Newest(D) -> Nat]
    BY <1>3, <1>10
  <2>3. Newest(D) \subseteq DOMAIN l.minutes \cup {m}
    BY <1>6 DEF D
  <2>4. \A n \in Newest(D) \ {m} : M[n] <= l.minutes[n]
    BY <1>3, <1>8, <1>9
  <2>5. M[m] <= (IF m \in DOMAIN l.minutes THEN l.minutes[m] ELSE 0) + 1
    BY <1>4, <1>9 DEF Count
  <2> QED
    BY <1>5, <1>7, <2>1, <2>2, <2>3, <2>4, <2>5, SumGrows
<1>12. Charge(l, m) \in LedgerType
  <2>1. Newest(D) \in SUBSET Minutes
    BY <1>5, <1>6
  <2>2. M \in UNION {[E -> 1 .. PerMinute] : E \in SUBSET Minutes}
    BY <1>10, <2>1
  <2>3. l.credits + 1 \in 0 .. PerDay
    BY <1>3, <1>4
  <2> QED
    BY <1>1, <2>2, <2>3 DEF LedgerType
<1>13. Sound(Charge(l, m), m)
  BY <1>1, <1>2, <1>4, <1>5, <1>6, <1>7, <1>9, <1>11, <1>12 DEF Sound
<1>14. /\ Count(Charge(l, m), m) = Count(l, m) + 1
       /\ \A n \in Newest(D) \ {m} : Count(Charge(l, m), n) = Count(l, n)
  BY <1>1, <1>6, <1>8, <1>9 DEF Count
<1> QED
  BY <1>1, <1>6, <1>8, <1>9, <1>13, <1>14

LEMMA EmptySound ==
  ASSUME NEW m \in Nat
  PROVE  Sound(Empty, m)
<1>1. /\ DOMAIN Empty.minutes = {} /\ Empty.minutes \in [{} -> Nat]
      /\ Empty.minutes \in [{} -> 1 .. PerMinute] /\ Empty.credits = 0
      /\ Empty = [credits |-> Empty.credits, minutes |-> Empty.minutes]
  BY DEF Empty
<1> HIDE DEF Empty
<1>2. Total(Empty.minutes) = 0
  <2>1. PICK g : Adds(g, Empty.minutes, {}) /\ Total(Empty.minutes) = g[{}]
    BY <1>1, FS_EmptySet, SumOf
  <2> QED
    BY <2>1 DEF Adds
<1>3. Cardinality({}) = 0 /\ KeptMinutes \in Nat /\ PerDay \in Nat
  BY FS_EmptySet, BudgetAssumption
<1>4. Empty.minutes \in UNION {[E -> 1 .. PerMinute] : E \in SUBSET Minutes}
  BY <1>1
<1>5. Empty \in LedgerType
  <2>1. Empty.credits \in 0 .. PerDay
    BY <1>1, <1>3
  <2> QED
    BY <1>1, <1>4, <2>1 DEF LedgerType
<1> QED
  BY <1>1, <1>2, <1>3, <1>5 DEF Sound

(* A ledger stays sound as time passes.                                    *)
LEMMA SoundLater ==
  ASSUME NEW l, NEW m \in Nat, NEW n \in Nat, m <= n, Sound(l, m)
  PROVE  Sound(l, n)
BY DEF Sound

(* A charged ledger covers one more request of its minute.                 *)
LEMMA ChargeCovers ==
  ASSUME NEW m \in Minutes, NEW l, Sound(l, m), ~Refused(l, m),
         NEW g \in [Minutes -> Nat], NEW s, Owed(l, g, 0, s, m)
  PROVE  /\ Owed(Charge(l, m), g, 1, m, m)
         /\ \A k : Owed(Charge(l, m), g, 0, k, m)
<1>1. /\ Charge(l, m).credits = l.credits + 1
      /\ m \in DOMAIN Charge(l, m).minutes
      /\ Count(Charge(l, m), m) = Count(l, m) + 1
      /\ \A n \in DOMAIN Charge(l, m).minutes \ {m} :
           n \in DOMAIN l.minutes /\ Count(Charge(l, m), n) = Count(l, n)
      /\ Sound(Charge(l, m), m)
  BY ChargeKeepsLimits
<1>2. /\ l \in LedgerType /\ l.credits \in Nat /\ \A n : Count(l, n) \in Nat
      /\ DOMAIN Charge(l, m).minutes \subseteq Minutes
  BY <1>1, LedgerFacts, BudgetAssumption DEF Sound
<1>3. Total(g) \in Nat
  <2>1. IsFiniteSet(Minutes)
    BY BudgetAssumption, FS_Interval DEF Minutes
  <2>2. PICK h : Adds(h, g, Minutes) /\ Total(g) = h[Minutes]
    BY <2>1, SumOf
  <2> QED
    BY <2>2 DEF Adds
<1>4. /\ Total(g) <= l.credits
      /\ \A n \in DOMAIN l.minutes \cup {m} : g[n] <= Count(l, n)
      /\ \A n \in Minutes : g[n] \in Nat
  <2>2. DOMAIN l.minutes \cup {m} \subseteq Minutes
    BY <1>2, LedgerFacts
  <2>1. Total(g) + 0 <= l.credits /\ \A n \in DOMAIN l.minutes \cup {m} : g[n] + 0 <= Count(l, n)
    BY DEF Owed
  <2> QED
    BY <1>2, <1>3, <2>1, <2>2
<1>5. Total(g) + 1 <= Charge(l, m).credits /\ Total(g) + 0 <= Charge(l, m).credits
  BY <1>1, <1>2, <1>3, <1>4
<1>6. ASSUME NEW n \in DOMAIN Charge(l, m).minutes \cup {m}
      PROVE  /\ g[n] + (IF n = m THEN 1 ELSE 0) <= Count(Charge(l, m), n)
             /\ g[n] + 0 <= Count(Charge(l, m), n)
  <2>1. g[n] \in Nat /\ g[n] <= Count(l, n) /\ Count(l, n) \in Nat
    BY <1>1, <1>2, <1>4
  <2>2. Count(Charge(l, m), n) = Count(l, n) + (IF n = m THEN 1 ELSE 0)
    BY <1>1, <2>1
  <2> QED
    BY <2>1, <2>2
<1> QED
  BY <1>5, <1>6 DEF Owed

-----------------------------------------------------------------------------
(* Every step keeps the invariant.                                         *)

LEMMA MinuteType ==
  ASSUME Types
  PROVE  /\ now \in Nat /\ Minute \in Minutes /\ Minute \in Nat /\ Minutes \subseteq Nat
         /\ IsFiniteSet(Minutes)
<1>1. Horizon \in Nat /\ now \in 0 .. Horizon
  BY BudgetAssumption DEF Types
<1>2. now \in Nat /\ now \div 3 \in Nat /\ now \div 3 <= Horizon \div 3 /\ Horizon \div 3 \in Nat
  BY <1>1
<1> QED
  BY <1>1, <1>2, FS_Interval DEF Minute, Minutes

LEMMA CountFree ==
  ASSUME NEW l, NEW m, Sound(l, m)
  PROVE  Refused(l, m) <=> ~(DayFree(l) /\ MinuteFree(l, m))
<1>1. l.credits \in Nat /\ Count(l, m) \in Nat /\ PerDay \in Nat /\ PerMinute \in Nat
  BY LedgerFacts, BudgetAssumption DEF Sound
<1> QED
  BY <1>1 DEF Refused, DayFree, MinuteFree

(* Covering one more request is more than covering none.                   *)
LEMMA OwedLess ==
  ASSUME NEW l \in LedgerType, NEW g \in [Minutes -> Nat], NEW s, NEW m \in Minutes, NEW more \in 0 .. 1,
         Owed(l, g, more, s, m)
  PROVE  \A k : Owed(l, g, 0, k, m)
<1>1. Total(g) \in Nat
  <2>1. IsFiniteSet(Minutes)
    BY BudgetAssumption, FS_Interval DEF Minutes
  <2>2. PICK h : Adds(h, g, Minutes) /\ Total(g) = h[Minutes]
    BY <2>1, SumOf
  <2> QED
    BY <2>2 DEF Adds
<1>2. /\ l.credits \in Nat /\ \A n : Count(l, n) \in Nat
      /\ DOMAIN l.minutes \cup {m} \subseteq Minutes
  BY LedgerFacts, BudgetAssumption
<1>3. Total(g) <= l.credits
  BY <1>1, <1>2 DEF Owed
<1>4. ASSUME NEW n \in DOMAIN l.minutes \cup {m}  PROVE g[n] <= Count(l, n) /\ g[n] \in Nat
  <2>1. g[n] + (IF n = s THEN more ELSE 0) <= Count(l, n) /\ g[n] \in Nat
    BY <1>2 DEF Owed
  <2> QED
    BY <1>2, <2>1
<1> QED
  BY <1>1, <1>3, <1>4 DEF Owed

LEMMA InitEstablishes == Init => IInv
<1> SUFFICES ASSUME Init  PROVE IInv
  OBVIOUS
<1>1. /\ Horizon \in Nat /\ None \notin Kind
      /\ now = 0 /\ ledger = Empty /\ work = Empty /\ job = None /\ pc = "idle" /\ slot = 0
      /\ answers = 0 /\ kept = 0 /\ sent.guarded = [m \in Minutes |-> 0]
  BY BudgetAssumption DEF Init
<1>2. Minute = 0 /\ 0 \in Minutes /\ IsFiniteSet(Minutes)
  BY <1>1, FS_Interval DEF Minute, Minutes
<1>3. Types
  BY <1>1, <1>2 DEF Types, Step
<1>4. Ledgers /\ Empty \in LedgerType
  BY <1>1, <1>2, EmptySound DEF Ledgers, Sound
<1>5. Waited
  BY <1>1 DEF Waited
<1>6. Total(sent.guarded) = 0
  <2> DEFINE f == [m \in Minutes |-> 0]
             z == [s \in SUBSET Minutes |-> 0]
  <2>1. f \in [Minutes -> Nat]
    OBVIOUS
  <2>2. Adds(z, f, Minutes) /\ z[Minutes] = 0
    BY DEF Adds
  <2> HIDE DEF f, z
  <2>3. Total(f) = 0
    BY <1>2, <2>1, <2>2, FoldAdds DEF Total
  <2> QED
    BY <1>1, <2>3 DEF f
<1>7. /\ Empty.credits = 0 /\ DOMAIN Empty.minutes = {} /\ Count(Empty, 0) = 0
  BY DEF Empty, Count
<1>8. Owed(ledger, sent.guarded, 0, slot, Minute) /\ kept <= ledger.credits
  <2>1. sent.guarded[0] = 0
    BY <1>1, <1>2
  <2> QED
    BY <1>1, <1>2, <1>6, <1>7, <2>1 DEF Owed
<1>9. Debited
  BY <1>1, <1>8 DEF Debited, Due, Asking
<1> QED
  BY <1>3, <1>4, <1>5, <1>9 DEF IInv

(* The end of a job, whatever it leaves: what is published still covers    *)
(* what was used.                                                          *)
LEMMA EndStep ==
  ASSUME IInv, End, UNCHANGED <<now, sent>>, kept' \in Nat,
         Sound(ledger', Minute), kept' <= ledger'.credits,
         \E more \in 0 .. 1 : \E s : Owed(ledger', sent.guarded, more, s, Minute)
  PROVE  IInv'
<1>1. /\ pc' = "idle" /\ job' = None /\ slot' = 0 /\ answers' = 0 /\ work' = Empty
      /\ Minute' = Minute /\ Minute \in Minutes /\ Minute \in Nat
      /\ sent.guarded \in [Minutes -> Nat]
  BY MinuteType DEF End, IInv, Types, Minute
<1>2. Types'
  BY <1>1 DEF IInv, Types, Kind, Step
<1>3. Ledgers'
  BY <1>1, EmptySound DEF Ledgers
<1>4. Waited'
  BY <1>1 DEF Waited
<1>5. Owed(ledger', sent.guarded, 0, slot', Minute)
  BY <1>1, OwedLess DEF Sound
<1>6. Debited'
  <2>1. Due' = 0 /\ sent.guarded' = sent.guarded
    BY <1>1 DEF Due, Asking
  <2> QED
    BY <1>1, <1>5, <2>1 DEF Debited
<1> QED
  BY <1>2, <1>3, <1>4, <1>6 DEF IInv

(* A job goes on without a request: it keeps what it is owed.              *)
LEMMA GoesOn ==
  ASSUME IInv, pc # "idle", pc' \in Step \ {"idle", "publish", "guard", "slow"},
         UNCHANGED <<now, job, ledger, work, slot, kept, sent>>,
         answers' \in Nat, pc' = "recheck" => job = "guarded",
         pc' \in {"debit", "call"} => DayFree(work) /\ MinuteFree(work, Minute),
         pc' = "call" => job = "after",
         kept + answers' <= work.credits
  PROVE  IInv'
<1>1. /\ Minute' = Minute /\ Minute \in Minutes /\ sent.guarded \in [Minutes -> Nat]
      /\ ledger \in LedgerType /\ work \in LedgerType
  BY MinuteType DEF IInv, Types, Minute, Ledgers, Sound
<1>2. Types'
  BY <1>1 DEF IInv, Types, Asking
<1>3. Ledgers'
  BY <1>1 DEF IInv, Ledgers
<1>4. Waited'
  BY <1>1 DEF Waited, DayFree, MinuteFree, Asking
<1>5. Owed(ledger, sent.guarded, 0, slot, Minute) /\ Owed(work, sent.guarded, 0, slot, Minute)
  BY <1>1, OwedLess DEF IInv, Debited, Due, DueOfWork
<1>6. Debited'
  <2>1. Due' = 0 /\ DueOfWork' = 0 /\ Awaited' = 0
    BY DEF Due, DueOfWork, Awaited, Asking
  <2>2. kept \in Nat /\ kept + answers' + 0 = kept + answers'
    BY DEF IInv, Types
  <2> QED
    BY <1>1, <1>5, <2>1, <2>2 DEF IInv, Debited
<1> QED
  BY <1>2, <1>3, <1>4, <1>6 DEF IInv

LEMMA CheckoutStep == IInv /\ (\E k \in Kind : Checkout(k)) => IInv'
<1> SUFFICES ASSUME IInv, NEW k \in Kind, Checkout(k)  PROVE IInv'
  OBVIOUS
<1>1. /\ pc = "idle" /\ job' = k /\ pc' = "wait" /\ work' = ledger /\ None \notin Kind
      /\ UNCHANGED <<now, ledger, slot, answers, kept, sent>>
  BY BudgetAssumption DEF Checkout
<1>2. Minute' = Minute /\ Minute \in Minutes /\ sent.guarded \in [Minutes -> Nat]
      /\ ledger \in LedgerType
  BY <1>1, MinuteType DEF IInv, Types, Minute, Ledgers, Sound
<1>3. Types'
  BY <1>1, <1>2 DEF IInv, Types, Step
<1>4. Ledgers' /\ Waited'
  BY <1>1, <1>2 DEF IInv, Ledgers, Waited
<1>5. Owed(ledger, sent.guarded, 0, slot, Minute)
  BY <1>2, OwedLess DEF IInv, Debited, Due
<1>6. answers = 0 /\ kept \in Nat
  BY <1>1 DEF IInv, Types
<1>7. Debited'
  <2>1. Due' = 0 /\ DueOfWork' = 0 /\ Awaited' = 0
    BY <1>1 DEF Due, DueOfWork, Awaited, Asking
  <2> QED
    BY <1>1, <1>2, <1>5, <1>6, <2>1 DEF IInv, Debited
<1> QED
  BY <1>3, <1>4, <1>7 DEF IInv

LEMMA CreditsLeft ==
  ASSUME IInv, pc # "idle"
  PROVE  /\ kept + answers <= work.credits /\ kept \in Nat /\ answers \in Nat
         /\ work.credits \in Nat /\ ledger.credits \in Nat
         /\ kept + answers + Awaited <= work.credits
         /\ Sound(work, Minute) /\ Sound(ledger, Minute)
<1>1. /\ kept \in Nat /\ answers \in Nat /\ Awaited \in 0 .. 1
      /\ work \in LedgerType /\ ledger \in LedgerType
      /\ kept + answers + Awaited <= work.credits
      /\ Sound(work, Minute) /\ Sound(ledger, Minute)
  BY DEF IInv, Types, Ledgers, Sound, Debited, Awaited
<1>2. work.credits \in Nat /\ ledger.credits \in Nat
  BY <1>1, LedgerFacts, BudgetAssumption
<1> QED
  BY <1>1, <1>2

LEMMA ExceededStep ==
  ASSUME IInv, pc # "idle", Exceeded, UNCHANGED <<now, ledger, kept, sent>>
  PROVE  IInv'
<1>1. CASE job = "before" /\ End
  <2>1. /\ Sound(ledger', Minute) /\ kept' \in Nat /\ kept' <= ledger'.credits
        /\ \E more \in 0 .. 1 : \E s : Owed(ledger', sent.guarded, more, s, Minute)
    BY CreditsLeft DEF IInv, Debited, Due
  <2> QED
    BY <1>1, <2>1, EndStep
<1>2. CASE job = "after" /\ NextSymbol /\ UNCHANGED <<work, answers>>
  BY <1>2, CreditsLeft, GoesOn DEF NextSymbol, Step
<1>3. CASE job = "guarded" /\ Goto("finish")
  BY <1>3, CreditsLeft, GoesOn DEF Goto, Step
<1> QED
  BY <1>1, <1>2, <1>3 DEF Exceeded

LEMMA WaitStep == IInv /\ Wait => IInv'
<1> SUFFICES ASSUME IInv, Wait  PROVE IInv'
  OBVIOUS
<1>1. pc = "wait" /\ UNCHANGED <<now, ledger, kept, sent>> /\ job \in Kind
  BY DEF Wait, IInv, Types
<1>2. CASE Exceeded
  BY <1>1, <1>2, ExceededStep
<1>3. CASE DayFree(work) /\ MinuteFree(work, Minute) /\ Goto(AfterWait[job])
  <2>1. AfterWait[job] \in {"debit", "call", "recheck"}
        /\ (AfterWait[job] = "recheck" => job = "guarded")
        /\ (AfterWait[job] = "call" => job = "after")
    BY <1>1 DEF AfterWait, Kind
  <2> QED
    BY <1>1, <1>3, <2>1, CreditsLeft, GoesOn DEF Goto, Step
<1>4. CASE job = "guarded" /\ Goto("finish")
  BY <1>1, <1>4, CreditsLeft, GoesOn DEF Goto, Step
<1> QED
  BY <1>2, <1>3, <1>4 DEF Wait

LEMMA RecheckStep == IInv /\ Recheck => IInv'
<1> SUFFICES ASSUME IInv, Recheck  PROVE IInv'
  OBVIOUS
<1>1. pc = "recheck" /\ UNCHANGED <<now, ledger, kept, sent>>
  BY DEF Recheck
<1>2. CASE Exceeded
  BY <1>1, <1>2, ExceededStep
<1>3. CASE DayFree(work) /\ Early /\ MinuteFree(work, Minute) /\ Goto("debit")
  BY <1>1, <1>3, CreditsLeft, GoesOn DEF Goto, Step
<1>4. CASE Goto("wait") \/ Goto("finish")
  BY <1>1, <1>4, CreditsLeft, GoesOn DEF Goto, Step
<1> QED
  BY <1>2, <1>3, <1>4 DEF Recheck

(* A debit that is not refused: the ledger of the job covers one more.     *)
LEMMA DebitStep == IInv /\ Debit => IInv'
<1> SUFFICES ASSUME IInv, Debit  PROVE IInv'
  OBVIOUS
<1>1. pc = "debit" /\ UNCHANGED <<now, ledger, kept, sent>>
  BY DEF Debit
<1>2. CASE Exceeded
  BY <1>1, <1>2, ExceededStep
<1>3. ASSUME ~Refused(work, Minute), work' = Charge(work, Minute),
             job' = job,
             \/ /\ job = "before" /\ pc' = "call" /\ UNCHANGED <<slot, answers>>
             \/ /\ job = "after" /\ pc' \in {"wait", "finish"} /\ answers' \in {answers, answers + 1}
                /\ UNCHANGED slot
             \/ /\ job = "guarded" /\ pc' = "publish" /\ slot' = Minute /\ UNCHANGED answers
      PROVE  IInv'
  <2>1. /\ Minute' = Minute /\ Minute \in Minutes /\ Minute \in Nat
        /\ sent.guarded \in [Minutes -> Nat]
        /\ ledger \in LedgerType /\ work \in LedgerType
        /\ Sound(work, Minute) /\ Sound(ledger, Minute)
    BY <1>1, MinuteType DEF IInv, Types, Minute, Ledgers, Sound
  <2>2. kept + answers <= work.credits /\ kept \in Nat /\ answers \in Nat /\ work.credits \in Nat
    BY <1>1, CreditsLeft
  <2>3. DueOfWork = 0 /\ Due = 0
    BY <1>1 DEF DueOfWork, Due, Asking
  <2>4. /\ \A k : Owed(ledger, sent.guarded, 0, k, Minute)
        /\ Owed(work, sent.guarded, 0, slot, Minute)
    BY <1>1, <2>1, <2>3, OwedLess DEF IInv, Debited
  <2>5. /\ Sound(Charge(work, Minute), Minute)
        /\ Charge(work, Minute).credits = work.credits + 1
    BY <1>3, <2>1, ChargeKeepsLimits
  <2>6. /\ Owed(Charge(work, Minute), sent.guarded, 1, Minute, Minute)
        /\ \A k : Owed(Charge(work, Minute), sent.guarded, 0, k, Minute)
    BY <1>3, <2>1, <2>4, ChargeCovers
  <2>7. Types'
    BY <1>1, <1>3, <2>1, <2>2 DEF IInv, Types, Step
  <2>8. Ledgers'
    BY <1>1, <1>3, <2>1, <2>5 DEF Ledgers
  <2>9. Waited'
    BY <1>3 DEF Waited
  <2>10. Due' = 0 /\ DueOfWork' = (IF job = "guarded" THEN 1 ELSE 0)
         /\ Awaited' = (IF job = "after" THEN 0 ELSE 1)
    BY <1>3 DEF Due, DueOfWork, Awaited, Asking
  <2>11. Owed(ledger', sent.guarded', Due', slot', Minute') /\ kept' <= ledger'.credits
    BY <1>1, <2>1, <2>4, <2>10 DEF IInv, Debited
  <2>12. Owed(work', sent.guarded', DueOfWork', slot', Minute')
    <3>1. CASE job = "guarded"
      BY <1>1, <1>3, <2>1, <2>6, <2>10, <3>1
    <3>2. CASE job # "guarded"
      BY <1>1, <1>3, <2>1, <2>6, <2>10, <3>2
    <3> QED
      BY <3>1, <3>2
  <2>13. kept' + answers' + Awaited' <= work'.credits
    BY <1>1, <1>3, <2>2, <2>5, <2>10
  <2>14. Debited'
    BY <2>11, <2>12, <2>13 DEF Debited
  <2> QED
    BY <2>7, <2>8, <2>9, <2>14 DEF IInv
<1> QED
  BY <1>1, <1>2, <1>3 DEF Debit, NextSymbol

LEMMA PublishDebitStep == IInv /\ PublishDebit => IInv'
<1> SUFFICES ASSUME IInv, PublishDebit  PROVE IInv'
  OBVIOUS
<1>1. pc = "publish" /\ UNCHANGED <<now, kept, sent>> /\ job = "guarded"
  BY DEF PublishDebit, IInv, Types
<1>2. /\ Minute' = Minute /\ Minute \in Minutes /\ Minute \in Nat
      /\ sent.guarded \in [Minutes -> Nat] /\ work \in LedgerType
      /\ Sound(work, Minute) /\ Sound(ledger, Minute)
  BY <1>1, MinuteType DEF IInv, Types, Minute, Ledgers, Sound
<1>3. /\ Owed(work, sent.guarded, 1, slot, Minute) /\ Owed(ledger, sent.guarded, 0, slot, Minute)
      /\ kept + answers + 1 <= work.credits /\ kept <= ledger.credits
  BY <1>1 DEF IInv, Debited, Due, DueOfWork, Awaited, Asking
<1>4. \A k : Owed(work, sent.guarded, 0, k, Minute)
  BY <1>2, <1>3, OwedLess
<1>5. kept \in Nat /\ answers \in Nat /\ work.credits \in Nat
  BY <1>1, CreditsLeft
<1>6. ASSUME ledger' = work, UNCHANGED <<job, work, slot, answers>>, pc' \in {"guard", "finish"}
      PROVE  IInv'
  <2>1. Types'
    BY <1>1, <1>2, <1>6 DEF IInv, Types, Step
  <2>2. Ledgers' /\ Waited'
    BY <1>1, <1>2, <1>6 DEF Ledgers, Waited
  <2>3. Due' = DueOfWork' /\ Due' \in 0 .. 1 /\ Awaited' \in 0 .. 1
    BY <1>6 DEF Due, DueOfWork, Awaited, Asking
  <2>4. Owed(work, sent.guarded, Due', slot, Minute)
    BY <1>3, <1>4, <2>3
  <2>5. /\ kept <= work.credits /\ kept + answers + Awaited' <= work.credits
    BY <1>3, <1>5, <2>3
  <2>6. Debited'
    BY <1>1, <1>2, <1>6, <2>3, <2>4, <2>5 DEF Debited
  <2> QED
    BY <2>1, <2>2, <2>6 DEF IInv
<1>7. CASE ledger' \in {ledger, work} /\ End
  <2>1. Sound(ledger', Minute) /\ kept' \in Nat /\ kept' <= ledger'.credits
    BY <1>1, <1>2, <1>3, <1>5, <1>7
  <2>2. \E more \in 0 .. 1 : \E s : Owed(ledger', sent.guarded, more, s, Minute)
    BY <1>3, <1>4, <1>7
  <2> QED
    BY <1>1, <1>7, <2>1, <2>2, EndStep
<1> QED
  BY <1>6, <1>7 DEF PublishDebit, Goto

LEMMA GuardStep == IInv /\ Guard => IInv'
<1> SUFFICES ASSUME IInv, Guard  PROVE IInv'
  OBVIOUS
<1>1. pc = "guard" /\ UNCHANGED <<now, ledger, kept, sent, job, work, slot, answers>>
      /\ job = "guarded"
  BY DEF Guard, Goto, IInv, Types
<1>2. CASE SlotOpen /\ pc' = "call"
  <2>1. Minute' = Minute /\ Types' /\ Ledgers'
    BY <1>1, <1>2 DEF IInv, Types, Ledgers, Minute, Step
  <2>2. Waited'
    BY <1>1, <1>2, <2>1 DEF Waited, SlotOpen, Closed, Part
  <2>3. Due' = Due /\ DueOfWork' = DueOfWork /\ Awaited' = Awaited
    BY <1>1, <1>2 DEF Due, DueOfWork, Awaited, Asking
  <2>4. Debited'
    BY <1>1, <2>1, <2>3 DEF IInv, Debited
  <2> QED
    BY <2>1, <2>2, <2>4 DEF IInv
<1>3. CASE Goto("finish")
  BY <1>1, <1>3, CreditsLeft, GoesOn DEF Goto, Step
<1> QED
  BY <1>2, <1>3 DEF Guard, Goto

LEMMA FinishStep == IInv /\ Finish => IInv'
<1> SUFFICES ASSUME IInv, Finish  PROVE IInv'
  OBVIOUS
<1>1. pc = "finish" /\ UNCHANGED <<now, sent>> /\ ledger' = work /\ kept' = kept + answers /\ End
  BY DEF Finish
<1>2. Sound(ledger', Minute) /\ kept' \in Nat /\ kept' <= ledger'.credits
  BY <1>1, CreditsLeft
<1>3. \E more \in 0 .. 1 : \E s : Owed(ledger', sent.guarded, more, s, Minute)
  BY <1>1 DEF IInv, Debited, DueOfWork
<1> QED
  BY <1>1, <1>2, <1>3, EndStep

LEMMA JobFailsStep == IInv /\ JobFails => IInv'
<1> SUFFICES ASSUME IInv, JobFails  PROVE IInv'
  OBVIOUS
<1>1. pc # "idle" /\ UNCHANGED <<now, ledger, kept, sent>> /\ End
  BY DEF JobFails
<1>2. Sound(ledger', Minute) /\ kept' \in Nat /\ kept' <= ledger'.credits
  BY <1>1, CreditsLeft DEF IInv, Debited
<1>3. \E more \in 0 .. 1 : \E s : Owed(ledger', sent.guarded, more, s, Minute)
  BY <1>1 DEF IInv, Debited, Due
<1> QED
  BY <1>1, <1>2, <1>3, EndStep

(* The request that was to come has come.                                  *)
LEMMA RequestSent ==
  ASSUME NEW l \in LedgerType, NEW g \in [Minutes -> Nat], NEW m \in Minutes,
         Owed(l, g, 1, m, m)
  PROVE  LET h == [g EXCEPT ![m] = @ + 1]
         IN  h \in [Minutes -> Nat] /\ \A k : Owed(l, h, 0, k, m)
<1> DEFINE h == [g EXCEPT ![m] = @ + 1]
<1>1. /\ h \in [Minutes -> Nat] /\ h[m] = g[m] + 1
      /\ \A n \in Minutes \ {m} : h[n] = g[n]
  OBVIOUS
<1> HIDE DEF h
<1>2. IsFiniteSet(Minutes)
  BY BudgetAssumption, FS_Interval DEF Minutes
<1>3. Total(h) <= Total(g) + 1 /\ Total(h) \in Nat /\ Total(g) \in Nat
  <2>1. \A n \in Minutes \ {m} : h[n] <= g[n]
    BY <1>1
  <2>2. h[m] <= (IF m \in Minutes THEN g[m] ELSE 0) + 1
    BY <1>1
  <2> QED
    BY <1>1, <1>2, <2>1, <2>2, SumGrows
<1>4. /\ l.credits \in Nat /\ DOMAIN l.minutes \cup {m} \subseteq Minutes
  BY LedgerFacts, BudgetAssumption
<1>5. Total(h) <= l.credits
  BY <1>3, <1>4 DEF Owed
<1>6. ASSUME NEW n \in DOMAIN l.minutes \cup {m}  PROVE h[n] <= Count(l, n) /\ h[n] \in Nat
  <2>1. g[n] + (IF n = m THEN 1 ELSE 0) <= Count(l, n) /\ n \in Minutes
    BY <1>4 DEF Owed
  <2> QED
    BY <1>1, <2>1
<1>7. \A k : Owed(l, h, 0, k, m)
  BY <1>3, <1>5, <1>6 DEF Owed
<1> QED
  BY <1>1, <1>7 DEF h

LEMMA CallStep == IInv /\ Call => IInv'
<1> SUFFICES ASSUME IInv, Call  PROVE IInv'
  OBVIOUS
<1> DEFINE g == sent.guarded
           h == sent'.guarded
<1>1. /\ pc \in {"call", "slow"} /\ UNCHANGED <<now, ledger, kept, work, job, slot>>
      /\ h = [g EXCEPT ![Minute] = @ + (IF job = "guarded" THEN 1 ELSE 0)]
      /\ job \in Kind
  BY DEF Call, NextSymbol, Goto, IInv, Types
<1>2. /\ Minute' = Minute /\ Minute \in Minutes /\ Minute \in Nat /\ g \in [Minutes -> Nat]
      /\ ledger \in LedgerType /\ work \in LedgerType /\ Minutes \subseteq Nat
  BY <1>1, MinuteType DEF IInv, Types, Minute, Ledgers, Sound
<1>3. /\ pc' \in {"wait", "finish"} \/ (pc' = "debit" /\ job = "after")
      /\ answers' \in Nat /\ answers' <= answers + (IF job = "after" THEN 0 ELSE 1)
  BY <1>1, CreditsLeft DEF Call, AfterCall, NextSymbol, Goto, Kind
<1>4. /\ h \in [Minutes -> Nat] /\ \A n \in Minutes \ {Minute} : h[n] = g[n]
      /\ \A k : Owed(ledger, h, 0, k, Minute) /\ Owed(work, h, 0, k, Minute)
  <2>1. CASE job = "guarded"
    <3>1. slot = Minute /\ Due = 1 /\ DueOfWork = 1
      BY <1>1, <2>1 DEF IInv, Waited, SlotOpen, Due, DueOfWork, Asking
    <3>2. Owed(ledger, g, 1, Minute, Minute) /\ Owed(work, g, 1, Minute, Minute)
      BY <1>1, <3>1 DEF IInv, Debited
    <3>3. h = [g EXCEPT ![Minute] = @ + 1]
      BY <1>1, <2>1
    <3> HIDE DEF g, h
    <3>4. \A n \in Minutes \ {Minute} : h[n] = g[n]
      BY <1>2, <3>3
    <3> QED
      BY <1>2, <3>2, <3>3, <3>4, RequestSent
  <2>2. CASE job # "guarded"
    <3>1. h = g
      BY <1>1, <1>2, <2>2
    <3>2. Due = 0 /\ DueOfWork = 0
      BY <2>2 DEF Due, DueOfWork
    <3>3. Owed(ledger, g, 0, slot, Minute) /\ Owed(work, g, 0, slot, Minute)
      BY <1>1, <3>2 DEF IInv, Debited
    <3> HIDE DEF g, h
    <3> QED
      BY <1>2, <3>1, <3>3, OwedLess
  <2> QED
    BY <2>1, <2>2
<1>5. Types'
  <2>1. \A m \in Minutes : m > Minute => h[m] = 0
    BY <1>2, <1>4 DEF IInv, Types
  <2> HIDE DEF h
  <2>2. /\ h \in [Minutes -> Nat] /\ \A m \in Minutes : m > Minute' => h[m] = 0
    BY <1>2, <1>4, <2>1
  <2> QED
    BY <1>1, <1>2, <1>3, <2>2 DEF IInv, Types, Step, h
<1>6. Ledgers'
  BY <1>1, <1>2 DEF IInv, Ledgers
<1>7. Waited'
  <2>1. pc' = "debit" => DayFree(work) /\ MinuteFree(work, Minute)
    BY <1>1, <1>3 DEF IInv, Types, Waited
  <2>2. pc' # "call" /\ pc' # "slow"
    BY <1>3
  <2> QED
    BY <1>1, <1>2, <2>1, <2>2 DEF Waited, DayFree, MinuteFree
<1>8. Due' = 0 /\ DueOfWork' = 0 /\ Awaited' = 0
  BY <1>3 DEF Due, DueOfWork, Awaited, Asking
<1>9. kept + answers' <= work.credits
  <2>1. Awaited = IF job = "after" THEN 0 ELSE 1
    BY <1>1 DEF Awaited, Asking
  <2> QED
    BY <1>1, <1>3, <2>1, CreditsLeft
<1>10. Debited'
  <2>1. kept \in Nat /\ kept <= ledger.credits
    BY DEF IInv, Types, Debited
  <2> HIDE DEF g, h
  <2>2. Owed(ledger', h, Due', slot', Minute') /\ Owed(work', h, DueOfWork', slot', Minute')
    BY <1>1, <1>2, <1>4, <1>8
  <2>3. kept' + answers' + Awaited' <= work'.credits
    BY <1>1, <1>3, <1>8, <1>9, <2>1
  <2> QED
    BY <1>1, <2>1, <2>2, <2>3 DEF Debited, h
<1> QED
  BY <1>5, <1>6, <1>7, <1>10 DEF IInv

(* A new minute is free in every ledger, and nothing was sent in it.       *)
LEMMA OwedLater ==
  ASSUME NEW m \in Minutes, NEW n \in Minutes, n \in {m, m + 1}, NEW l, Sound(l, m),
         NEW g \in [Minutes -> Nat], \A k \in Minutes : k > m => g[k] = 0,
         NEW s \in 0 .. m, NEW more \in 0 .. 1, Owed(l, g, more, s, m)
  PROVE  Owed(l, g, more, s, n) /\ (n = m + 1 => Count(l, n) = 0)
<1>1. m \in Nat /\ l \in LedgerType /\ DOMAIN l.minutes \subseteq 0 .. m
  BY BudgetAssumption DEF Sound, Minutes
<1>2. n = m + 1 => Count(l, n) = 0 /\ g[n] = 0 /\ n # s
  BY <1>1 DEF Count
<1>3. g[n] + (IF n = s THEN more ELSE 0) <= Count(l, n)
  BY <1>1, <1>2 DEF Owed
<1> QED
  BY <1>2, <1>3 DEF Owed

LEMMA TickStep == IInv /\ Tick => IInv'
<1> SUFFICES ASSUME IInv, Tick  PROVE IInv'
  OBVIOUS
<1>1. /\ now < Horizon /\ now' = now + 1 /\ pc # "slow"
      /\ pc' = IF job = "guarded" /\ pc = "call" THEN "slow" ELSE pc
      /\ UNCHANGED <<ledger, work, job, slot, answers, kept, sent>>
  BY DEF Tick
<1>2. /\ now \in Nat /\ Horizon \in Nat /\ Minute \in Minutes /\ Minute \in Nat
      /\ Minutes \subseteq Nat
  BY MinuteType, BudgetAssumption DEF IInv
<1>3. /\ Minute' \in {Minute, Minute + 1} /\ Minute' \in Nat
      /\ now % 3 # 2 => Minute' = Minute
  BY <1>1, <1>2 DEF Minute
<1>4. now' \in 0 .. Horizon /\ Minute' \in Minutes
  BY <1>1, <1>2 DEF Minute, Minutes
<1>5. sent.guarded \in [Minutes -> Nat] /\ slot \in 0 .. Minute
      /\ \A m \in Minutes : m > Minute => sent.guarded[m] = 0
  BY DEF IInv, Types
<1>6. Types'
  <2>1. \A m \in Minutes : m > Minute' => sent.guarded[m] = 0
    BY <1>2, <1>3, <1>5
  <2>2. slot \in 0 .. Minute'
    BY <1>2, <1>3, <1>5
  <2> QED
    BY <1>1, <1>4, <2>1, <2>2 DEF IInv, Types, Step
<1>7. Sound(ledger, Minute) /\ Sound(work, Minute)
  BY DEF IInv, Ledgers
<1>8. Ledgers'
  <2>1. Minute <= Minute'
    BY <1>2, <1>3
  <2>2. Sound(ledger, Minute') /\ Sound(work, Minute')
    BY <1>2, <1>3, <1>7, <2>1, SoundLater
  <2> QED
    BY <1>1, <2>2 DEF Ledgers
<1>9. Due \in 0 .. 1 /\ DueOfWork \in 0 .. 1 /\ Due' = Due /\ DueOfWork' = DueOfWork
      /\ Awaited' = Awaited
  BY <1>1 DEF Due, DueOfWork, Awaited, Asking
<1>10. Owed(ledger, sent.guarded, Due, slot, Minute)
  BY DEF IInv, Debited
<1>11. Owed(ledger, sent.guarded, Due, slot, Minute')
  BY <1>3, <1>4, <1>2, <1>5, <1>7, <1>9, <1>10, OwedLater
<1>12. pc # "idle" => /\ Owed(work, sent.guarded, DueOfWork, slot, Minute')
                      /\ Minute' = Minute + 1 => Count(work, Minute') = 0
  <2> SUFFICES ASSUME pc # "idle"
               PROVE  /\ Owed(work, sent.guarded, DueOfWork, slot, Minute')
                      /\ Minute' = Minute + 1 => Count(work, Minute') = 0
    OBVIOUS
  <2>1. Owed(work, sent.guarded, DueOfWork, slot, Minute)
    BY DEF IInv, Debited
  <2> QED
    BY <1>3, <1>4, <1>2, <1>5, <1>7, <1>9, <2>1, OwedLater
<1>13. Debited'
  BY <1>1, <1>9, <1>11, <1>12 DEF IInv, Debited
<1>14. Waited'
  <2>1. pc' = "debit" \/ (pc' = "call" /\ job = "after")
          => DayFree(work) /\ Count(work, Minute') < PerMinute
    <3>1. PerMinute \in Nat \ {0}
      BY BudgetAssumption
    <3> QED
      BY <1>1, <1>3, <1>12, <3>1 DEF IInv, Waited, MinuteFree
  <2>2. pc' = "slow" => Minute' = slot
    BY <1>1, <1>3 DEF IInv, Waited, SlotOpen, Closed, Part
  <2>3. ~(pc' = "call" /\ job' = "guarded")
    BY <1>1
  <2> QED
    BY <1>1, <2>1, <2>2, <2>3 DEF Waited, DayFree, MinuteFree
<1> QED
  BY <1>6, <1>8, <1>13, <1>14 DEF IInv

LEMMA StepPreserves == IInv /\ [Next]_vars => IInv'
<1> SUFFICES ASSUME IInv, [Next]_vars  PROVE IInv'
  OBVIOUS
<1>1. CASE Next
  BY <1>1, CheckoutStep, WaitStep, RecheckStep, DebitStep, PublishDebitStep, GuardStep,
     CallStep, FinishStep, JobFailsStep, TickStep DEF Next
<1>2. CASE UNCHANGED vars
  <2>1. UNCHANGED <<now, ledger, work, job, pc, slot, answers, kept, sent>>
    BY <1>2 DEF vars
  <2>2. Minute' = Minute /\ Types'
    BY <2>1 DEF IInv, Types, Minute
  <2>3. Ledgers' /\ Waited'
    BY <2>1, <2>2 DEF IInv, Ledgers, Waited, DayFree, MinuteFree, SlotOpen, Closed, Part
  <2>4. Due' = Due /\ DueOfWork' = DueOfWork /\ Awaited' = Awaited
    BY <2>1 DEF Due, DueOfWork, Awaited
  <2>5. Debited'
    BY <2>1, <2>2, <2>4 DEF IInv, Debited
  <2> QED
    BY <2>2, <2>3, <2>5 DEF IInv
<1> QED
  BY <1>1, <1>2

(* In every reachable state each ledger is within its limits, whoever may  *)
(* debit has waited, and requests and answers have their credits.          *)
THEOREM Invariant == Spec => []IInv
BY InitEstablishes, StepPreserves, PTL DEF Spec

(* No ledger exceeds its day or a minute, remembers too much, or remembers *)
(* more than its day.                                                      *)
THEOREM WithinLimits == Spec => []LedgerWithinLimits
<1>1. IInv => LedgerWithinLimits
  <2> SUFFICES ASSUME IInv, NEW l \in {ledger, work}
               PROVE  /\ l.credits <= PerDay
                      /\ Cardinality(DOMAIN l.minutes) <= KeptMinutes
                      /\ \A m \in DOMAIN l.minutes : l.minutes[m] <= PerMinute
                      /\ FoldFunction(+, 0, l.minutes) <= l.credits
    BY DEF LedgerWithinLimits
  <2>1. Sound(l, Minute) /\ l \in LedgerType
    BY DEF IInv, Ledgers, Sound
  <2>2. l.credits <= PerDay /\ \A m \in DOMAIN l.minutes : l.minutes[m] <= PerMinute
    BY <2>1, LedgerFacts, BudgetAssumption
  <2>3. FoldFunction(+, 0, l.minutes) <= l.credits
    BY <2>1 DEF Sound, Total
  <2> QED
    BY <2>1, <2>2, <2>3 DEF Sound
<1> QED
  BY <1>1, Invariant, PTL

(* In no minute are more guarded requests sent than its limit allows.  The *)
(* ledger bounds those of the current minute; for an earlier one, which it *)
(* may have forgotten, the bound was reached when the minute was current.  *)
MinutesHeld == \A m \in Minutes : sent.guarded[m] <= PerMinute

LEMMA MinutesHeldInit == Init => MinutesHeld
BY BudgetAssumption DEF Init, MinutesHeld

LEMMA MinutesHeldStep == IInv /\ MinutesHeld /\ [Next]_vars => MinutesHeld'
<1> SUFFICES ASSUME IInv, MinutesHeld, [Next]_vars, NEW m \in Minutes
             PROVE  sent'.guarded[m] <= PerMinute
  BY DEF MinutesHeld
<1>1. CASE Call
  <2>1. IInv'
    BY <1>1, CallStep
  <2>2. /\ Minute' = Minute /\ Minute \in Minutes /\ ledger' \in LedgerType
        /\ Owed(ledger, sent.guarded, Due, slot, Minute)'
        /\ sent'.guarded \in [Minutes -> Nat] /\ Due' \in 0 .. 1
        /\ sent.guarded \in [Minutes -> Nat]
    BY <1>1, <2>1, MinuteType DEF Call, IInv, Types, Debited, Ledgers, Sound, Minute, Due
  <2>3. sent'.guarded[Minute] <= PerMinute
    <3>1. sent'.guarded[Minute] + (IF Minute = slot' THEN Due' ELSE 0) <= Count(ledger', Minute)
      BY <2>2 DEF Owed, Count
    <3>2. Count(ledger', Minute) \in 0 .. PerMinute /\ PerMinute \in Nat
      BY <2>2, LedgerFacts, BudgetAssumption
    <3>3. sent'.guarded[Minute] \in Nat
      BY <2>2
    <3> QED
      BY <2>2, <3>1, <3>2, <3>3
  <2>4. ASSUME m # Minute  PROVE sent'.guarded[m] = sent.guarded[m]
    BY <1>1, <2>2, <2>4 DEF Call
  <2> QED
    BY <2>3, <2>4 DEF MinutesHeld
<1>2. CASE ~Call
  <2>1. UNCHANGED sent
    BY <1>2 DEF Next, vars, Checkout, Wait, Recheck, Debit, PublishDebit, Guard, Finish,
       JobFails, Tick
  <2> QED
    BY <2>1 DEF MinutesHeld
<1> QED
  BY <1>1, <1>2

(* Every request of admission, and every published answer, has a published *)
(* credit, and no minute sees more requests than it may.                   *)
THEOREM RequestsDebited == Spec => []RequestsAreDebited
<1>1. IInv /\ MinutesHeld => RequestsAreDebited
  <2> SUFFICES ASSUME IInv, MinutesHeld  PROVE RequestsAreDebited
    OBVIOUS
  <2>1. ledger \in LedgerType /\ sent.guarded \in [Minutes -> Nat] /\ Minute \in Minutes
    BY MinuteType DEF IInv, Types, Ledgers, Sound
  <2>2. Due \in 0 .. 1 /\ Owed(ledger, sent.guarded, Due, slot, Minute)
    BY DEF IInv, Debited, Due
  <2>3. Owed(ledger, sent.guarded, 0, slot, Minute)
    BY <2>1, <2>2, OwedLess
  <2>4. Total(sent.guarded) <= ledger.credits
    <3>1. IsFiniteSet(Minutes)
      BY MinuteType DEF IInv
    <3>2. PICK h : Adds(h, sent.guarded, Minutes) /\ Total(sent.guarded) = h[Minutes]
      BY <2>1, <3>1, SumOf
    <3>3. Total(sent.guarded) \in Nat
      BY <3>2 DEF Adds
    <3> QED
      BY <2>3, <3>3 DEF Owed
  <2>5. ASSUME NEW m \in DOMAIN ledger.minutes  PROVE sent.guarded[m] <= ledger.minutes[m]
    <3>1. sent.guarded[m] \in Nat /\ Count(ledger, m) = ledger.minutes[m]
      BY <2>1, LedgerFacts DEF Count
    <3>2. sent.guarded[m] + (IF m = slot THEN 0 ELSE 0) <= Count(ledger, m)
      BY <2>3 DEF Owed
    <3> QED
      BY <3>1, <3>2
  <2>6. kept <= ledger.credits
    BY DEF IInv, Debited
  <2>7. FoldFunction(+, 0, sent.guarded) <= ledger.credits
    BY <2>4 DEF Total
  <2> QED
    BY <2>5, <2>6, <2>7 DEF RequestsAreDebited, MinutesHeld
<1>2. Spec => []MinutesHeld
  BY MinutesHeldInit, MinutesHeldStep, Invariant, PTL DEF Spec
<1> QED
  BY <1>1, <1>2, Invariant, PTL

(* Nobody who waited is refused, however much time has passed.             *)
THEOREM WaitingSuffices == Spec => []WaitSuffices
<1>1. IInv => WaitSuffices
  BY CountFree DEF IInv, Waited, Ledgers, WaitSuffices
<1> QED
  BY <1>1, Invariant, PTL
=============================================================================
