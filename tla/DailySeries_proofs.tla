------------------------- MODULE DailySeries_proofs -------------------------
(***************************************************************************)
(* What DailySeries promises, for every number of trade dates, size of     *)
(* bars, limits and target.                                                *)
(***************************************************************************)
EXTENDS DailySeries, FiniteSetTheorems, WellFoundedInduction, SequenceTheorems, TLAPS

-----------------------------------------------------------------------------
(* Finite sets, and sums over them.                                        *)

LEMMA SmallestSet ==
  ASSUME NEW D, IsFiniteSet(D), NEW T, T \subseteq SUBSET D, T # {}
  PROVE  \E s \in T : \A r \in T : ~(r \subseteq s /\ r # s)
<1>1. \A s \in SUBSET D : s \in FiniteSubsetsOf(D)
  BY FS_Subset DEF FiniteSubsetsOf
<1>2. \E s \in T : \A r \in T : ~(<<r, s>> \in StrictSubsetOrdering(D))
  BY <1>1, FS_StrictSubsetOrderingWellFounded, WFMin
<1> QED
  BY <1>2 DEF StrictSubsetOrdering

LEMMA SmallestNumber ==
  ASSUME NEW S \in SUBSET Nat, S # {}
  PROVE  Min(S) \in S /\ \A t \in S : Min(S) <= t
<1>1. \E s \in S : \A t \in S : ~(<<t, s>> \in OpToRel(<, Nat))
  BY NatLessThanWellFounded, WFMin
<1>2. PICK s \in S : \A t \in S : ~(t < s)
  BY <1>1 DEF OpToRel
<1>3. \A t \in S : s <= t
  BY <1>2
<1> QED
  BY <1>3 DEF Min

(* A document is a function from some of the days.                         *)
LEMMA DocFacts ==
  ASSUME NEW doc \in Docs
  PROVE  /\ Dates(doc) \subseteq Day /\ Dates(doc) \subseteq Nat
         /\ IsFiniteSet(Dates(doc)) /\ Cardinality(Dates(doc)) \in 0 .. LastDay
         /\ doc \in [Dates(doc) -> Bar]
<1>1. PICK D \in SUBSET Day : doc \in [D -> Bar]
  BY DEF Docs
<1>2. Dates(doc) = D
  BY <1>1 DEF Dates
<1>3. IsFiniteSet(Day) /\ Cardinality(Day) = LastDay /\ Day \subseteq Nat /\ LastDay \in Nat
  <2>1. LastDay \in Nat \ {0}
    BY SeriesAssumption
  <2> QED
    BY <2>1, FS_Interval DEF Day
<1>4. IsFiniteSet(D) /\ Cardinality(D) <= LastDay /\ Cardinality(D) \in Nat
  BY <1>3, FS_Subset, FS_CardinalityType
<1> QED
  BY <1>1, <1>2, <1>3, <1>4

LEMMA DisjointUnion ==
  ASSUME NEW S, IsFiniteSet(S), NEW T, IsFiniteSet(T), S \cap T = {}
  PROVE  /\ IsFiniteSet(S \cup T) /\ Cardinality(S \cup T) = Cardinality(S) + Cardinality(T)
         /\ Cardinality(S) \in Nat /\ Cardinality(T) \in Nat
<1>1. Cardinality(S) \in Nat /\ Cardinality(T) \in Nat
  BY FS_CardinalityType
<1>2. Cardinality(S \cap T) = 0
  BY FS_EmptySet
<1>3. /\ IsFiniteSet(S \cup T)
      /\ Cardinality(S \cup T) = Cardinality(S) + Cardinality(T) - Cardinality(S \cap T)
  BY FS_Union
<1> QED
  BY <1>1, <1>2, <1>3

(* Shards that share no date hold as many records as they have dates.      *)
Shard == [start : Nat, doc : Docs, sealed : BOOLEAN]
ShardSeq == Seq(Shard)
DatesOf(shards) == UNION {Dates(shards[k].doc) : k \in DOMAIN shards}

LEMMA ShardSeqFacts ==
  ASSUME NEW shards \in ShardSeq
  PROVE  /\ Len(shards) \in Nat /\ DOMAIN shards = 1 .. Len(shards)
         /\ IsFiniteSet(DOMAIN shards)
         /\ \A k \in DOMAIN shards : /\ shards[k].start \in Nat /\ shards[k].sealed \in BOOLEAN
                                     /\ shards[k].doc \in Docs
                                     /\ Dates(shards[k].doc) \subseteq Day
         /\ DatesOf(shards) \subseteq Day /\ IsFiniteSet(DatesOf(shards))
<1>1. /\ Len(shards) \in Nat /\ DOMAIN shards = 1 .. Len(shards)
      /\ \A k \in DOMAIN shards : shards[k] \in Shard
  BY DEF ShardSeq
<1>2. \A k \in DOMAIN shards : /\ shards[k].start \in Nat /\ shards[k].sealed \in BOOLEAN
                               /\ shards[k].doc \in Docs
  BY <1>1 DEF Shard
<1>3. \A k \in DOMAIN shards : Dates(shards[k].doc) \subseteq Day
  BY <1>2, DocFacts
<1>4. DatesOf(shards) \subseteq Day
  BY <1>3 DEF DatesOf
<1>5. IsFiniteSet(Day) /\ IsFiniteSet(DOMAIN shards)
  <2>1. LastDay \in Nat
    BY SeriesAssumption
  <2> QED
    BY <1>1, <2>1, FS_Interval DEF Day
<1>6. IsFiniteSet(DatesOf(shards))
  BY <1>4, <1>5, FS_Subset
<1> QED
  BY <1>1, <1>2, <1>3, <1>4, <1>5, <1>6

LEMMA TotalCounts ==
  ASSUME NEW shards \in ShardSeq,
         \A j, k \in DOMAIN shards : j # k => Dates(shards[j].doc) \cap Dates(shards[k].doc) = {}
  PROVE  Total(shards) = Cardinality(DatesOf(shards))
<1> DEFINE D == DOMAIN shards
           F(k) == Cardinality(Dates(shards[k].doc))
           Of(s) == UNION {Dates(shards[k].doc) : k \in s}
           g == [s \in SUBSET D |-> Cardinality(Of(s))]
           Pick(s) == CHOOSE x \in s : TRUE
           Folds(h) == h = [s \in SUBSET D |-> IF s = {} THEN 0 ELSE F(Pick(s)) + h[s \ {Pick(s)}]]
           it == CHOOSE h : Folds(h)
<1>1. Total(shards) = it[D]
  BY DEF Total, MapThenSumSet, MapThenFoldSet
<1>2. \A s \in SUBSET D : s # {} => Pick(s) \in s
  OBVIOUS
<1> HIDE DEF Pick
<1>3. g[{}] = 0
  BY FS_EmptySet
<1>4. ASSUME NEW s \in SUBSET D, NEW x \in s  PROVE g[s] = F(x) + g[s \ {x}]
  <2>1. Of(s) = Dates(shards[x].doc) \cup Of(s \ {x})
    OBVIOUS
  <2>2. Dates(shards[x].doc) \cap Of(s \ {x}) = {}
    OBVIOUS
  <2>3. IsFiniteSet(Dates(shards[x].doc)) /\ IsFiniteSet(Of(s \ {x}))
    <3>1. Dates(shards[x].doc) \subseteq DatesOf(shards) /\ Of(s \ {x}) \subseteq DatesOf(shards)
      BY DEF DatesOf
    <3> QED
      BY <3>1, ShardSeqFacts, FS_Subset
  <2> HIDE DEF Of
  <2>4. Cardinality(Of(s)) = F(x) + Cardinality(Of(s \ {x}))
    BY <2>1, <2>2, <2>3, DisjointUnion
  <2> QED
    BY <2>4
<1> HIDE DEF F, g
<1>5. Folds(g)
  <2>1. g = [s \in SUBSET D |-> g[s]]
    BY DEF g
  <2>2. \A s \in SUBSET D : g[s] = IF s = {} THEN 0 ELSE F(Pick(s)) + g[s \ {Pick(s)}]
    BY <1>2, <1>3, <1>4
  <2> QED
    BY <2>1, <2>2
<1>6. Folds(it)
  BY <1>5
<1> HIDE DEF it
<1>7. \A s \in SUBSET D : it[s] = IF s = {} THEN 0 ELSE F(Pick(s)) + it[s \ {Pick(s)}]
  BY <1>6
<1> DEFINE T == {s \in SUBSET D : it[s] # g[s]}
<1>8. T = {}
  <2> SUFFICES ASSUME T # {}  PROVE FALSE
    OBVIOUS
  <2>1. T \subseteq SUBSET D
    OBVIOUS
  <2> HIDE DEF T
  <2>2. PICK s \in T : \A r \in T : ~(r \subseteq s /\ r # s)
    BY <2>1, SmallestSet, ShardSeqFacts
  <2> USE DEF T
  <2>3. s # {}
    BY <1>3, <1>7
  <2>4. Pick(s) \in s
    BY <1>2, <2>3
  <2>5. s \ {Pick(s)} \notin T /\ s \ {Pick(s)} \in SUBSET D
    BY <2>2, <2>4
  <2>6. it[s] = F(Pick(s)) + it[s \ {Pick(s)}]
    BY <1>7, <2>3
  <2>7. g[s] = F(Pick(s)) + g[s \ {Pick(s)}]
    BY <1>4, <2>4
  <2> QED
    BY <2>5, <2>6, <2>7
<1>9. g[D] = Cardinality(DatesOf(shards))
  BY DEF g, DatesOf
<1> QED
  BY <1>1, <1>8, <1>9

-----------------------------------------------------------------------------
(* Cutting rows.                                                           *)

IsInitial(S, X) == S \subseteq X /\ \A d \in S, e \in X : e < d => e \in S

LEMMA LargestDay ==
  ASSUME NEW S \in SUBSET Day, S # {}
  PROVE  \E m \in S : \A t \in S : t <= m
<1> DEFINE T == {LastDay - d : d \in S}
<1>1. LastDay \in Nat /\ S \subseteq 1 .. LastDay
  BY SeriesAssumption DEF Day
<1>2. T \in SUBSET Nat /\ T # {}
  <2>1. ASSUME NEW d \in S PROVE LastDay - d \in Nat
    BY <1>1
  <2> QED
    BY <2>1
<1> HIDE DEF T
<1>3. Min(T) \in T /\ \A t \in T : Min(T) <= t
  BY <1>2, SmallestNumber
<1> USE DEF T
<1>4. PICK m \in S : Min(T) = LastDay - m
  BY <1>3
<1>5. \A t \in S : LastDay - m <= LastDay - t
  BY <1>3, <1>4
<1> QED
  BY <1>1, <1>5

LEMMA InitialsAre ==
  ASSUME NEW X \in SUBSET Day, NEW S
  PROVE  S \in Initials(X) <=> IsInitial(S, X)
<1>1. X \subseteq Nat
  BY SeriesAssumption DEF Day
<1>2. ASSUME S \in Initials(X) PROVE IsInitial(S, X)
  BY <1>1, <1>2 DEF Initials, IsInitial
<1>3. ASSUME IsInitial(S, X), S # X PROVE S \in Initials(X)
  <2> DEFINE rest == X \ S
             e == Min(rest)
  <2>1. rest \in SUBSET Nat /\ rest # {}
    BY <1>1, <1>3 DEF IsInitial
  <2>2. e \in rest /\ \A t \in rest : e <= t
    BY <2>1, SmallestNumber
  <2> HIDE DEF e
  <2>3. \A d \in S : d < e
    <3> SUFFICES ASSUME NEW d \in S PROVE d < e
      OBVIOUS
    <3>1. d \in X /\ d \in Nat /\ e \in X /\ e \in Nat /\ e \notin S
      BY <1>1, <1>3, <2>2 DEF IsInitial
    <3>2. ~(e < d) /\ e # d
      BY <1>3, <3>1 DEF IsInitial
    <3> QED
      BY <3>1, <3>2
  <2>4. \A d \in X : d < e => d \in S
    <3> SUFFICES ASSUME NEW d \in X, d < e, d \notin S PROVE FALSE
      OBVIOUS
    <3>1. e <= d /\ d \in Nat /\ e \in Nat
      BY <1>1, <2>1, <2>2
    <3> QED
      BY <3>1
  <2>5. S = {d \in X : d < e}
    BY <1>3, <2>3, <2>4 DEF IsInitial
  <2> QED
    BY <2>2, <2>5 DEF Initials
<1>4. S = X => S \in Initials(X)
  BY DEF Initials
<1> QED
  BY <1>2, <1>3, <1>4

(* What the packing loop moves is a beginning of the rows that fits, and   *)
(* with the next row it would not fit.                                     *)
LEMMA ChunkFacts ==
  ASSUME NEW doc, NEW rows \in Docs
  PROVE  /\ IsInitial(Chunk(doc, rows), Dates(rows))
         /\ Chunk(doc, rows) # {} => Fits(Join(doc, On(rows, Chunk(doc, rows))))
         /\ Chunk(doc, rows) # Dates(rows) =>
              /\ Min(Dates(rows) \ Chunk(doc, rows)) \in Dates(rows) \ Chunk(doc, rows)
              /\ \A d \in Dates(rows) \ Chunk(doc, rows) :
                   Min(Dates(rows) \ Chunk(doc, rows)) <= d
              /\ ~Fits(Join(doc, On(rows, Chunk(doc, rows)
                                          \cup {Min(Dates(rows) \ Chunk(doc, rows))})))
<1> DEFINE X == Dates(rows)
           chunk == Chunk(doc, rows)
           C == {D \in Initials(X) : Fits(Join(doc, On(rows, D)))}
<1>1. X \in SUBSET Day /\ X \subseteq Nat
  BY DocFacts
<1>2. chunk = UNION C
  BY DEF Chunk
<1>3. \A D \in C : IsInitial(D, X)
  BY <1>1, InitialsAre
<1>4. IsInitial(chunk, X)
  BY <1>2, <1>3 DEF IsInitial
<1>5. ASSUME chunk # {} PROVE chunk \in C
  <2>1. PICK m \in chunk : \A t \in chunk : t <= m
    <3>1. chunk \in SUBSET Day
      BY <1>1, <1>4 DEF IsInitial
    <3> QED
      BY <1>5, <3>1, LargestDay
  <2>2. PICK D \in C : m \in D
    BY <1>2, <2>1
  <2>3. ASSUME NEW t \in chunk PROVE t \in D
    <3>1. t \in X /\ t \in Nat /\ m \in Nat /\ t <= m
      BY <1>1, <1>4, <2>1, <2>3 DEF IsInitial
    <3>2. t < m \/ t = m
      BY <3>1
    <3> QED
      BY <1>3, <2>2, <3>1, <3>2 DEF IsInitial
  <2>4. chunk = D
    BY <1>2, <2>2, <2>3
  <2> QED
    BY <2>2, <2>4
<1>6. ASSUME chunk # X
      PROVE  /\ Min(X \ chunk) \in X \ chunk /\ \A d \in X \ chunk : Min(X \ chunk) <= d
             /\ ~Fits(Join(doc, On(rows, chunk \cup {Min(X \ chunk)})))
  <2> DEFINE e == Min(X \ chunk)
  <2>1. X \ chunk \in SUBSET Nat /\ X \ chunk # {}
    BY <1>1, <1>4, <1>6 DEF IsInitial
  <2>2. e \in X \ chunk /\ \A d \in X \ chunk : e <= d
    BY <2>1, SmallestNumber
  <2> HIDE DEF e, chunk
  <2>3. IsInitial(chunk \cup {e}, X)
    <3>1. ASSUME NEW d \in X, d < e PROVE d \in chunk
      <4>1. d \in Nat /\ e \in Nat
        BY <1>1, <2>2, <3>1
      <4> QED
        BY <2>2, <3>1, <4>1
    <3> QED
      BY <1>4, <2>2, <3>1 DEF IsInitial
  <2>4. chunk \cup {e} \in Initials(X)
    BY <1>1, <2>3, InitialsAre
  <2>5. chunk \cup {e} \notin C
    BY <1>2, <2>2
  <2> QED
    BY <2>2, <2>4, <2>5 DEF e, chunk
<1> QED
  BY <1>4, <1>5, <1>6

-----------------------------------------------------------------------------
(* Shards in a row.                                                        *)

(* A shard holds some of the dates D of rows; n records come before D.     *)
Piece(shard, rows, D, n) ==
  /\ Dates(shard.doc) # {}
  /\ shard.doc = On(rows, Dates(shard.doc))
  /\ Fits(shard.doc)
  /\ shard.start = n + Cardinality({d \in D : Before(d, Dates(shard.doc))})

Ascending(shards) ==
  \A j, k \in DOMAIN shards : j < k =>
    \A d \in Dates(shards[j].doc), e \in Dates(shards[k].doc) : d < e

(* The next bar did not fit.                                               *)
Full(shard, next, rows) ==
  ~Fits(On(rows, Dates(shard.doc) \cup {Min(Dates(next.doc))}))

(* The shards hold the dates D of rows, in order; n records come before    *)
(* them, and there are more after them or not.                             *)
Part(shards, rows, D, n, more) ==
  /\ shards \in ShardSeq /\ DatesOf(shards) = D
  /\ \A k \in DOMAIN shards : Piece(shards[k], rows, D, n)
  /\ \A k \in DOMAIN shards : shards[k].sealed <=> k < Len(shards) \/ more
  /\ Ascending(shards)
  /\ \A k \in DOMAIN shards : k + 1 \in DOMAIN shards => Full(shards[k], shards[k + 1], rows)

LEMMA PartBars ==
  ASSUME NEW shards, NEW rows, NEW D, NEW n, NEW more, Part(shards, rows, D, n, more)
  PROVE  BarsOf(shards) = On(rows, D) /\ Dates(BarsOf(shards)) = D
<1> DEFINE holder(d) == CHOOSE k \in DOMAIN shards : d \in Dates(shards[k].doc)
<1>1. BarsOf(shards) = [d \in DatesOf(shards) |-> shards[holder(d)].doc[d]]
  BY DEF BarsOf, DatesOf
<1>2. DatesOf(shards) = D
  BY DEF Part
<1>3. ASSUME NEW d \in D PROVE shards[holder(d)].doc[d] = rows[d]
  <2>1. \E k \in DOMAIN shards : d \in Dates(shards[k].doc)
    BY <1>2 DEF DatesOf
  <2>2. holder(d) \in DOMAIN shards /\ d \in Dates(shards[holder(d)].doc)
    BY <2>1
  <2> HIDE DEF holder
  <2>3. shards[holder(d)].doc = On(rows, Dates(shards[holder(d)].doc))
    BY <2>2 DEF Part, Piece
  <2> QED
    BY <2>2, <2>3 DEF On
<1> HIDE DEF holder
<1>4. BarsOf(shards) = [d \in D |-> rows[d]]
  BY <1>1, <1>2, <1>3
<1> QED
  BY <1>4 DEF On, Dates

LEMMA PartTotal ==
  ASSUME NEW shards, NEW rows, NEW D, NEW n, NEW more, Part(shards, rows, D, n, more)
  PROVE  Total(shards) = Cardinality(D) /\ IsFiniteSet(D) /\ Cardinality(D) \in Nat /\ D \subseteq Day
<1>1. shards \in ShardSeq /\ DatesOf(shards) = D /\ Ascending(shards)
  BY DEF Part
<1>2. /\ DOMAIN shards \subseteq Nat /\ IsFiniteSet(D) /\ D \subseteq Day
      /\ \A k \in DOMAIN shards : Dates(shards[k].doc) \subseteq Nat
  BY <1>1, ShardSeqFacts, DocFacts
<1>3. ASSUME NEW j \in DOMAIN shards, NEW k \in DOMAIN shards, j # k
      PROVE  Dates(shards[j].doc) \cap Dates(shards[k].doc) = {}
  <2>1. j < k \/ k < j
    BY <1>2, <1>3
  <2>2. \A d \in Dates(shards[j].doc) : ~(d < d)
    BY <1>2
  <2> QED
    BY <1>1, <2>1, <2>2 DEF Ascending
<1>4. Total(shards) = Cardinality(D)
  BY <1>1, <1>3, TotalCounts
<1> QED
  BY <1>2, <1>4, FS_CardinalityType

LEMMA PartFirst ==
  ASSUME NEW shards, NEW rows, NEW D, NEW n, NEW more, Part(shards, rows, D, n, more),
         shards # << >>
  PROVE  /\ 1 \in DOMAIN shards
         /\ Min(Dates(shards[1].doc)) \in D /\ \A d \in D : Min(Dates(shards[1].doc)) <= d
<1>1. shards \in ShardSeq /\ DatesOf(shards) = D
  BY DEF Part
<1>2. 1 \in DOMAIN shards /\ DOMAIN shards \subseteq Nat \ {0}
  <2>1. Len(shards) > 0
    BY <1>1 DEF ShardSeq
  <2> QED
    BY <1>1, <2>1, ShardSeqFacts
<1> DEFINE m == Min(Dates(shards[1].doc))
<1>3. m \in Dates(shards[1].doc) /\ \A d \in Dates(shards[1].doc) : m <= d
  <2>1. Dates(shards[1].doc) # {} /\ Dates(shards[1].doc) \in SUBSET Nat
    BY <1>1, <1>2, ShardSeqFacts, DocFacts DEF Part, Piece
  <2> QED
    BY <2>1, SmallestNumber
<1> HIDE DEF m
<1>4. ASSUME NEW d \in D PROVE m <= d
  <2>1. PICK k \in DOMAIN shards : d \in Dates(shards[k].doc)
    BY <1>1 DEF DatesOf
  <2>2. d \in Nat /\ m \in Nat
    BY <1>1, <1>2, <1>3, <2>1, ShardSeqFacts, DocFacts
  <2>3. CASE k = 1
    BY <1>3, <2>1, <2>3
  <2>4. CASE k # 1
    <3>1. 1 < k
      BY <1>2, <2>4
    <3>2. m < d
      BY <1>2, <1>3, <2>1, <3>1 DEF Part, Ascending
    <3> QED
      BY <2>2, <3>2
  <2> QED
    BY <2>3, <2>4
<1>5. m \in D
  BY <1>1, <1>2, <1>3 DEF DatesOf
<1> QED
  BY <1>2, <1>4, <1>5 DEF m

LEMMA PartEmpty ==
  ASSUME NEW rows, NEW n, NEW more
  PROVE  Part(<< >>, rows, {}, n, more)
<1>1. << >> \in ShardSeq /\ DOMAIN << >> = {}
  BY DEF ShardSeq
<1> QED
  BY <1>1 DEF Part, DatesOf, Ascending

LEMMA PartNone ==
  ASSUME NEW shards, NEW rows, NEW n, NEW more, Part(shards, rows, {}, n, more)
  PROVE  shards = << >>
<1>1. shards # << >> => FALSE
  BY PartFirst
<1> QED
  BY <1>1

LEMMA PartOne ==
  ASSUME NEW shard \in Shard, NEW rows, NEW n \in Nat,
         Dates(shard.doc) # {}, shard.doc = On(rows, Dates(shard.doc)), Fits(shard.doc),
         shard.start = n
  PROVE  Part(<< shard >>, rows, Dates(shard.doc), n, shard.sealed)
<1> DEFINE D == Dates(shard.doc)
<1>1. << shard >> \in ShardSeq /\ Len(<< shard >>) = 1 /\ DOMAIN << shard >> = {1}
      /\ << shard >>[1] = shard
  BY DEF ShardSeq
<1>2. DatesOf(<< shard >>) = D
  BY <1>1 DEF DatesOf
<1>3. {d \in D : Before(d, D)} = {}
  <2>1. D \subseteq Nat
    BY DocFacts DEF Shard
  <2> QED
    BY <2>1 DEF Before
<1>4. Piece(shard, rows, D, n)
  BY <1>3, FS_EmptySet DEF Piece
<1> QED
  BY <1>1, <1>2, <1>4 DEF Part, Ascending

-----------------------------------------------------------------------------
(* Two runs of shards, one after the other.                                *)
LEMMA PartJoin ==
  ASSUME NEW A, NEW B, NEW rows, NEW D, NEW E, NEW n \in Nat, NEW more,
         Part(A, rows, D, n, TRUE), Part(B, rows, E, n + Cardinality(D), more),
         \A d \in D, e \in E : d < e,
         A # << >> /\ B # << >> => Full(A[Len(A)], B[1], rows),
         B # << >> \/ more
  PROVE  Part(A \o B, rows, D \cup E, n, more)
<1> DEFINE S == A \o B
<1>1. /\ A \in ShardSeq /\ B \in ShardSeq /\ DatesOf(A) = D /\ DatesOf(B) = E
      /\ Len(A) \in Nat /\ Len(B) \in Nat /\ DOMAIN A = 1 .. Len(A) /\ DOMAIN B = 1 .. Len(B)
  BY ShardSeqFacts DEF Part
<1>2. /\ D \subseteq Nat /\ E \subseteq Nat /\ IsFiniteSet(D) /\ IsFiniteSet(E)
      /\ Cardinality(D) \in Nat
  <2>1. D \subseteq Day /\ E \subseteq Day /\ Day \subseteq Nat
    BY <1>1, ShardSeqFacts DEF Day
  <2> QED
    BY <1>1, <2>1, ShardSeqFacts, FS_CardinalityType
<1>3. /\ S \in ShardSeq /\ Len(S) = Len(A) + Len(B) /\ DOMAIN S = 1 .. Len(A) + Len(B)
      /\ \A k \in DOMAIN A : k \in DOMAIN S /\ S[k] = A[k]
      /\ \A k \in DOMAIN B : k + Len(A) \in DOMAIN S /\ S[k + Len(A)] = B[k]
      /\ \A k \in DOMAIN S : k \notin DOMAIN A => k - Len(A) \in DOMAIN B /\ S[k] = B[k - Len(A)]
  BY <1>1 DEF ShardSeq
<1>4. /\ \A k \in DOMAIN A : Dates(A[k].doc) \subseteq D /\ Dates(A[k].doc) # {}
      /\ \A k \in DOMAIN B : Dates(B[k].doc) \subseteq E /\ Dates(B[k].doc) # {}
  BY <1>1 DEF DatesOf, Part, Piece
<1>5. DatesOf(S) = D \cup E
  <2>1. ASSUME NEW d \in DatesOf(S) PROVE d \in D \cup E
    <3>1. PICK k \in DOMAIN S : d \in Dates(S[k].doc)
      BY DEF DatesOf
    <3> QED
      BY <1>3, <1>4, <3>1
  <2>2. ASSUME NEW d \in D PROVE d \in DatesOf(S)
    <3>1. PICK k \in DOMAIN A : d \in Dates(A[k].doc)
      BY <1>1 DEF DatesOf
    <3> QED
      BY <1>3, <3>1 DEF DatesOf
  <2>3. ASSUME NEW d \in E PROVE d \in DatesOf(S)
    <3>1. PICK k \in DOMAIN B : d \in Dates(B[k].doc)
      BY <1>1 DEF DatesOf
    <3> QED
      BY <1>3, <3>1 DEF DatesOf
  <2> QED
    BY <2>1, <2>2, <2>3
<1> HIDE DEF S
<1>6. ASSUME NEW k \in DOMAIN S PROVE Piece(S[k], rows, D \cup E, n)
  <2>1. CASE k \in DOMAIN A
    <3>1. {d \in D \cup E : Before(d, Dates(A[k].doc))} = {d \in D : Before(d, Dates(A[k].doc))}
      <4> SUFFICES ASSUME NEW d \in E, Before(d, Dates(A[k].doc)) PROVE FALSE
        OBVIOUS
      <4>1. PICK e \in Dates(A[k].doc) : e \in D
        BY <1>4, <2>1
      <4>2. d < e /\ e < d /\ d \in Nat /\ e \in Nat
        BY <1>2, <4>1 DEF Before
      <4> QED
        BY <4>2
    <3>2. Piece(A[k], rows, D, n)
      BY <2>1 DEF Part
    <3> QED
      BY <1>3, <2>1, <3>1, <3>2 DEF Piece
  <2>2. CASE k \notin DOMAIN A
    <3> DEFINE j == k - Len(A)
               F == {d \in E : Before(d, Dates(B[j].doc))}
    <3>1. j \in DOMAIN B /\ S[k] = B[j]
      BY <1>3, <2>2
    <3>2. Piece(B[j], rows, E, n + Cardinality(D))
      BY <3>1 DEF Part
    <3>3. \A d \in D : Before(d, Dates(B[j].doc))
      BY <1>4, <3>1 DEF Before
    <3>4. {d \in D \cup E : Before(d, Dates(B[j].doc))} = D \cup F
      BY <3>3
    <3>5. IsFiniteSet(F) /\ D \cap F = {}
      <4>1. IsFiniteSet(F)
        BY <1>2, FS_Subset
      <4>2. \A d \in D : d \notin E
        BY <1>2
      <4> QED
        BY <4>1, <4>2
    <3>6. Cardinality(D \cup F) = Cardinality(D) + Cardinality(F) /\ Cardinality(F) \in Nat
      BY <1>2, <3>5, DisjointUnion
    <3>7. B[j].start = n + Cardinality(D) + Cardinality(F)
      BY <3>2 DEF Piece
    <3>8. B[j].start = n + Cardinality(D \cup F)
      BY <1>2, <3>6, <3>7
    <3> QED
      BY <3>1, <3>2, <3>4, <3>8 DEF Piece
  <2> QED
    BY <2>1, <2>2
<1>7. ASSUME NEW k \in DOMAIN S PROVE S[k].sealed <=> k < Len(S) \/ more
  <2>1. CASE k \in DOMAIN A
    <3>1. A[k].sealed <=> TRUE
      BY <2>1 DEF Part
    <3>2. B # << >> => Len(B) > 0
      BY <1>1 DEF ShardSeq
    <3> QED
      BY <1>1, <1>3, <2>1, <3>1, <3>2
  <2>2. CASE k \notin DOMAIN A
    <3>1. k - Len(A) \in DOMAIN B /\ S[k] = B[k - Len(A)] /\ k \in Nat
      BY <1>3, <1>1, <2>2
    <3>2. B[k - Len(A)].sealed <=> k - Len(A) < Len(B) \/ more
      BY <3>1 DEF Part
    <3> QED
      BY <1>1, <1>3, <3>1, <3>2
  <2> QED
    BY <2>1, <2>2
<1>8. Ascending(S)
  <2> SUFFICES ASSUME NEW j \in DOMAIN S, NEW k \in DOMAIN S, j < k,
                      NEW d \in Dates(S[j].doc), NEW e \in Dates(S[k].doc)
               PROVE  d < e
    BY DEF Ascending
  <2>1. CASE j \in DOMAIN A /\ k \in DOMAIN A
    BY <1>3, <2>1 DEF Part, Ascending
  <2>2. CASE j \in DOMAIN A /\ k \notin DOMAIN A
    BY <1>3, <1>4, <2>2
  <2>3. CASE j \notin DOMAIN A /\ k \notin DOMAIN A
    <3>1. /\ j - Len(A) \in DOMAIN B /\ k - Len(A) \in DOMAIN B /\ j - Len(A) < k - Len(A)
          /\ S[j] = B[j - Len(A)] /\ S[k] = B[k - Len(A)]
      BY <1>1, <1>3, <2>3
    <3>2. Ascending(B)
      BY DEF Part
    <3> QED
      BY <3>1, <3>2 DEF Ascending
  <2>4. ~(j \notin DOMAIN A /\ k \in DOMAIN A)
    BY <1>1, <1>3
  <2> QED
    BY <2>1, <2>2, <2>3, <2>4
<1>9. ASSUME NEW k \in DOMAIN S, k + 1 \in DOMAIN S PROVE Full(S[k], S[k + 1], rows)
  <2>1. CASE k + 1 \in DOMAIN A
    <3>1. k \in DOMAIN A
      BY <1>1, <1>3, <2>1
    <3> QED
      BY <1>3, <2>1, <3>1 DEF Part
  <2>2. CASE k \in DOMAIN A /\ k + 1 \notin DOMAIN A
    <3>1. k = Len(A) /\ k + 1 - Len(A) = 1 /\ 1 \in DOMAIN B /\ S[k + 1] = B[k + 1 - Len(A)]
      BY <1>1, <1>3, <1>9, <2>2
    <3>2. A # << >> /\ B # << >>
      BY <1>1, <2>2, <3>1
    <3> QED
      BY <1>3, <2>2, <3>1, <3>2
  <2>3. CASE k \notin DOMAIN A /\ k + 1 \notin DOMAIN A
    <3>1. /\ k - Len(A) \in DOMAIN B /\ (k + 1) - Len(A) \in DOMAIN B
          /\ (k + 1) - Len(A) = (k - Len(A)) + 1
          /\ S[k] = B[k - Len(A)] /\ S[k + 1] = B[(k + 1) - Len(A)]
      BY <1>1, <1>3, <1>9, <2>3
    <3> QED
      BY <3>1 DEF Part
  <2> QED
    BY <2>1, <2>2, <2>3
<1>10. S \in ShardSeq /\ DatesOf(S) = D \cup E
  BY <1>3, <1>5
<1>11. Part(S, rows, D \cup E, n, more)
  BY <1>6, <1>7, <1>8, <1>9, <1>10 DEF Part
<1> QED
  BY <1>11 DEF S

LEMMA PartRows ==
  ASSUME NEW shards, NEW rows, NEW q, NEW D, NEW n, NEW more, Part(shards, rows, D, n, more),
         \A d \in D : q[d] = rows[d]
  PROVE  Part(shards, q, D, n, more)
<1>1. shards \in ShardSeq /\ DatesOf(shards) = D
  BY DEF Part
<1>2. \A S \in SUBSET D : On(q, S) = On(rows, S)
  BY DEF On
<1>3. \A k \in DOMAIN shards : Dates(shards[k].doc) \subseteq D
  BY <1>1 DEF DatesOf
<1>4. ASSUME NEW k \in DOMAIN shards PROVE Piece(shards[k], q, D, n)
  BY <1>2, <1>3 DEF Part, Piece
<1>5. ASSUME NEW k \in DOMAIN shards, k + 1 \in DOMAIN shards
      PROVE  Full(shards[k], shards[k + 1], q)
  <2> DEFINE next == Dates(shards[k + 1].doc)
  <2>1. next # {} /\ next \in SUBSET Nat
    BY <1>1, <1>5, ShardSeqFacts, DocFacts DEF Part, Piece
  <2>2. Min(next) \in next
    BY <2>1, SmallestNumber
  <2>3. Dates(shards[k].doc) \cup {Min(next)} \in SUBSET D
    BY <1>3, <1>5, <2>2
  <2> QED
    BY <1>2, <1>5, <2>3 DEF Part, Full
<1> QED
  BY <1>4, <1>5 DEF Part

(* All but the last shard, and the last one.                               *)
LEMMA PartFront ==
  ASSUME NEW shards, NEW rows, NEW D, NEW n \in Nat, Part(shards, rows, D, n, FALSE),
         shards # << >>
  PROVE  /\ Len(shards) \in DOMAIN shards /\ ~Last(shards).sealed /\ Last(shards) \in Shard
         /\ Dates(Last(shards).doc) # {} /\ Dates(Last(shards).doc) \subseteq D
         /\ Last(shards).doc = On(rows, Dates(Last(shards).doc)) /\ Fits(Last(shards).doc)
         /\ Part(Front(shards), rows, D \ Dates(Last(shards).doc), n, TRUE)
         /\ Last(shards).start = n + Cardinality(D \ Dates(Last(shards).doc))
         /\ \A d \in D \ Dates(Last(shards).doc), e \in Dates(Last(shards).doc) : d < e
         /\ Front(shards) # << >> => Full(Front(shards)[Len(Front(shards))], Last(shards), rows)
         /\ Front(shards) \o << Last(shards) >> = shards
<1> DEFINE last == Last(shards)
           F == D \ Dates(last.doc)
           A == Front(shards)
           N == Len(shards)
<1>1. /\ shards \in ShardSeq /\ DatesOf(shards) = D /\ N \in Nat /\ DOMAIN shards = 1 .. N
      /\ Ascending(shards) /\ D \subseteq Nat
  <2>1. D \subseteq Day /\ Day \subseteq Nat
    BY ShardSeqFacts DEF Part, Day
  <2> QED
    BY <2>1, ShardSeqFacts DEF Part
<1>2. N > 0 /\ N \in DOMAIN shards /\ last \in Shard /\ last = shards[N]
  BY <1>1 DEF ShardSeq, Last
<1> HIDE DEF last
<1>3. /\ A \in ShardSeq /\ Len(A) = N - 1 /\ DOMAIN A = 1 .. N - 1
      /\ \A k \in DOMAIN A : k \in DOMAIN shards /\ k < N /\ A[k] = shards[k]
  BY <1>1, <1>2 DEF ShardSeq, Front
<1> HIDE DEF A
<1>4. A \o << last >> = shards
  <2>1. << last >> \in ShardSeq /\ Len(<< last >>) = 1 /\ << last >>[1] = last
    BY <1>2 DEF ShardSeq
  <2> DEFINE T == A \o << last >>
  <2>2. T \in ShardSeq /\ Len(T) = N
    <3>1. A \in Seq(Shard) /\ << last >> \in Seq(Shard)
      BY <1>3, <2>1 DEF ShardSeq
    <3>2. T \in Seq(Shard) /\ Len(T) = Len(A) + Len(<< last >>)
      BY <3>1, ConcatProperties
    <3> HIDE DEF T
    <3> QED
      BY <1>1, <1>3, <2>1, <3>2 DEF ShardSeq
  <2>3. ASSUME NEW k \in 1 .. N PROVE T[k] = shards[k]
    BY <1>1, <1>2, <1>3, <2>1 DEF ShardSeq
  <2> HIDE DEF T
  <2>4. T = shards
    BY <1>1, <2>2, <2>3, SeqEqual DEF ShardSeq
  <2> QED
    BY <2>4 DEF T
<1>5. /\ ~last.sealed /\ Dates(last.doc) # {} /\ Dates(last.doc) \subseteq D
      /\ last.doc = On(rows, Dates(last.doc)) /\ Fits(last.doc)
      /\ last.start = n + Cardinality({d \in D : Before(d, Dates(last.doc))})
  <2>1. Piece(last, rows, D, n) /\ (last.sealed <=> N < N \/ FALSE)
    BY <1>2 DEF Part
  <2>2. Dates(last.doc) \subseteq D
    BY <1>1, <1>2 DEF DatesOf
  <2> QED
    BY <1>1, <2>1, <2>2 DEF Piece
<1>6. \A k \in DOMAIN A : \A d \in Dates(A[k].doc), e \in Dates(last.doc) : d < e
  BY <1>2, <1>3, <1>1 DEF Ascending
<1>7. DatesOf(A) = F
  <2>1. ASSUME NEW d \in DatesOf(A) PROVE d \in F
    <3>1. PICK k \in DOMAIN A : d \in Dates(A[k].doc)
      BY DEF DatesOf
    <3>2. d \in D
      BY <1>1, <1>3, <3>1 DEF DatesOf
    <3>3. d \notin Dates(last.doc)
      BY <1>1, <1>6, <3>1, <3>2
    <3> QED
      BY <3>2, <3>3
  <2>2. ASSUME NEW d \in F PROVE d \in DatesOf(A)
    <3>1. PICK k \in DOMAIN shards : d \in Dates(shards[k].doc)
      BY <1>1 DEF DatesOf
    <3>2. k \in DOMAIN A
      BY <1>1, <1>2, <1>3, <3>1
    <3> QED
      BY <1>3, <3>1, <3>2 DEF DatesOf
  <2> QED
    BY <2>1, <2>2
<1>8. \A d \in F, e \in Dates(last.doc) : d < e
  <2> SUFFICES ASSUME NEW d \in F, NEW e \in Dates(last.doc) PROVE d < e
    OBVIOUS
  <2>1. PICK k \in DOMAIN A : d \in Dates(A[k].doc)
    BY <1>7 DEF DatesOf
  <2> QED
    BY <1>6, <2>1
<1>9. {d \in D : Before(d, Dates(last.doc))} = F
  <2>1. ASSUME NEW d \in F PROVE Before(d, Dates(last.doc))
    BY <1>8 DEF Before
  <2>2. ASSUME NEW d \in Dates(last.doc) PROVE ~Before(d, Dates(last.doc))
    <3>1. d \in Nat
      BY <1>1, <1>5
    <3> QED
      BY <3>1 DEF Before
  <2> QED
    BY <2>1, <2>2
<1>10. ASSUME NEW k \in DOMAIN A PROVE Piece(A[k], rows, F, n)
  <2>1. Piece(shards[k], rows, D, n)
    BY <1>3 DEF Part
  <2>2. {d \in D : Before(d, Dates(A[k].doc))} = {d \in F : Before(d, Dates(A[k].doc))}
    <3> SUFFICES ASSUME NEW e \in Dates(last.doc), Before(e, Dates(A[k].doc)) PROVE FALSE
      OBVIOUS
    <3>1. PICK d \in Dates(A[k].doc) : TRUE
      BY <1>3, <2>1 DEF Piece
    <3>2. d < e /\ e < d /\ e \in Nat /\ d \in Nat
      <4>1. d \in D
        BY <1>7, <3>1 DEF DatesOf
      <4> QED
        BY <1>1, <1>5, <1>6, <3>1, <4>1 DEF Before
    <3> QED
      BY <3>2
  <2> QED
    BY <1>3, <2>1, <2>2 DEF Piece
<1>11. ASSUME NEW k \in DOMAIN A, k + 1 \in DOMAIN A PROVE Full(A[k], A[k + 1], rows)
  BY <1>3, <1>11 DEF Part
<1>12. \A k \in DOMAIN A : A[k].sealed <=> k < Len(A) \/ TRUE
  BY <1>3 DEF Part
<1>13. Ascending(A)
  BY <1>1, <1>3 DEF Ascending
<1>14. Part(A, rows, F, n, TRUE)
  BY <1>3, <1>7, <1>10, <1>11, <1>12, <1>13 DEF Part
<1>15. A # << >> => Full(A[Len(A)], last, rows)
  <2> SUFFICES ASSUME A # << >> PROVE Full(A[Len(A)], last, rows)
    OBVIOUS
  <2>1. Len(A) \in DOMAIN A
    BY <1>1, <1>2, <1>3 DEF ShardSeq
  <2>2. Len(A) \in DOMAIN shards /\ Len(A) + 1 = N /\ A[Len(A)] = shards[Len(A)]
    BY <1>1, <1>2, <1>3, <2>1
  <2> QED
    BY <1>2, <2>2 DEF Part
<1>16. last.start = n + Cardinality(F)
  BY <1>5, <1>9
<1> QED
  BY <1>2, <1>4, <1>5, <1>8, <1>14, <1>15, <1>16 DEF A, last

-----------------------------------------------------------------------------
(* Packing.                                                                *)
LEMMA OnFacts ==
  ASSUME NEW rows \in Docs, NEW D \in SUBSET Dates(rows)
  PROVE  /\ On(rows, D) \in Docs /\ Dates(On(rows, D)) = D
         /\ \A C \in SUBSET D : On(On(rows, D), C) = On(rows, C)
         /\ Join(NoBars, On(rows, D)) = On(rows, D)
<1>1. Dates(rows) \subseteq Day /\ rows \in [Dates(rows) -> Bar]
  BY DocFacts
<1>2. On(rows, D) = [d \in D |-> rows[d]] /\ On(rows, D) \in [D -> Bar]
  BY <1>1 DEF On
<1>3. Dates(On(rows, D)) = D
  BY <1>2 DEF Dates
<1>4. On(rows, D) \in Docs
  BY <1>1, <1>2 DEF Docs
<1>5. \A C \in SUBSET D : On(On(rows, D), C) = On(rows, C)
  BY <1>2 DEF On
<1>6. Dates(NoBars) = {}
  BY DEF Dates, NoBars
<1>7. Join(NoBars, On(rows, D)) = [d \in D |-> On(rows, D)[d]]
  BY <1>3, <1>6 DEF Join
<1>8. Join(NoBars, On(rows, D)) = On(rows, D)
  BY <1>2, <1>7
<1> QED
  BY <1>3, <1>4, <1>5, <1>8

(* The first chunk of the dates D, and the shard made of it.               *)
ChunkOf(rows, D) == Chunk(NoBars, On(rows, D))
ShardOf(first, rows, D) ==
  [start |-> first + Cardinality(Dates(rows) \ D), doc |-> On(rows, ChunkOf(rows, D)),
   sealed |-> ChunkOf(rows, D) # D]
PackStep(first, rows, h, D) ==
  IF ChunkOf(rows, D) = {} THEN << >>
  ELSE << ShardOf(first, rows, D) >> \o h[D \ ChunkOf(rows, D)]

LEMMA ChunkOfFacts ==
  ASSUME NEW rows \in Docs, NEW D \in SUBSET Dates(rows)
  PROVE  /\ IsInitial(ChunkOf(rows, D), D)
         /\ ChunkOf(rows, D) # {} => Fits(On(rows, ChunkOf(rows, D)))
         /\ ChunkOf(rows, D) # D =>
              /\ Min(D \ ChunkOf(rows, D)) \in D \ ChunkOf(rows, D)
              /\ \A d \in D \ ChunkOf(rows, D) : Min(D \ ChunkOf(rows, D)) <= d
              /\ ~Fits(On(rows, ChunkOf(rows, D) \cup {Min(D \ ChunkOf(rows, D))}))
<1> DEFINE q == On(rows, D)
           c == ChunkOf(rows, D)
           e == Min(D \ c)
<1>1. q \in Docs /\ Dates(q) = D /\ \A C \in SUBSET D : On(q, C) = On(rows, C)
  BY OnFacts
<1>2. \A C \in SUBSET D : Join(NoBars, On(q, C)) = On(rows, C)
  BY <1>1, OnFacts
<1>3. c = Chunk(NoBars, q)
  BY DEF ChunkOf
<1> HIDE DEF q, c
<1>4. /\ IsInitial(c, D)
      /\ c # {} => Fits(Join(NoBars, On(q, c)))
      /\ c # D => /\ e \in D \ c /\ \A d \in D \ c : e <= d
                  /\ ~Fits(Join(NoBars, On(q, c \cup {e})))
  BY <1>1, <1>3, ChunkFacts
<1> HIDE DEF e
<1>5. c \in SUBSET D
  BY <1>4 DEF IsInitial
<1>6. c # {} => Fits(On(rows, c))
  BY <1>2, <1>4, <1>5
<1>7. c # D => ~Fits(On(rows, c \cup {e}))
  <2> SUFFICES ASSUME c # D PROVE ~Fits(On(rows, c \cup {e}))
    OBVIOUS
  <2>1. c \cup {e} \in SUBSET D
    BY <1>4, <1>5
  <2> QED
    BY <1>2, <1>4, <2>1
<1> QED
  BY <1>4, <1>6, <1>7 DEF c, e

(* The recursion is well-founded: a chunk holds the earliest date left.    *)
LEMMA PackDefined ==
  ASSUME NEW first, NEW rows \in Docs
  PROVE  \E h : h = [D \in SUBSET Dates(rows) |-> PackStep(first, rows, h, D)]
<1> DEFINE X == Dates(rows)
           Defined(S) == \E h : \A D \in SUBSET S : h[D] = PackStep(first, rows, h, D)
           T == {S \in SUBSET X : ~Defined(S)}
<1>1. X \subseteq Nat /\ IsFiniteSet(X)
  BY DocFacts
<1>2. T = {}
  <2> SUFFICES ASSUME T # {} PROVE FALSE
    OBVIOUS
  <2>1. T \subseteq SUBSET X
    OBVIOUS
  <2> HIDE DEF T
  <2>2. PICK S \in T : \A R \in T : ~(R \subseteq S /\ R # S)
    BY <1>1, <2>1, SmallestSet
  <2> USE DEF T
  <2>3. S \in SUBSET X /\ ~Defined(S)
    OBVIOUS
  <2>4. ASSUME S = {} PROVE FALSE
    <3>1. ChunkOf(rows, {}) = {}
      BY ChunkOfFacts DEF IsInitial
    <3> DEFINE h == [D \in {{}} |-> << >>]
    <3>2. h[{}] = PackStep(first, rows, h, {})
      BY <3>1 DEF PackStep
    <3>3. \A D \in SUBSET S : h[D] = PackStep(first, rows, h, D)
      BY <2>4, <3>2
    <3> QED
      BY <2>3, <3>3
  <2> DEFINE x == Min(S)
  <2>5. x \in S /\ \A d \in S : x <= d
    <3>1. S \in SUBSET Nat /\ S # {}
      BY <1>1, <2>3, <2>4
    <3> QED
      BY <3>1, SmallestNumber
  <2> HIDE DEF x
  <2>6. Defined(S \ {x})
    <3>1. S \ {x} \subseteq S /\ S \ {x} # S
      BY <2>5
    <3> HIDE DEF T, Defined
    <3>2. S \ {x} \notin T
      BY <2>2, <3>1
    <3> QED
      BY <2>3, <3>2 DEF T
  <2>7. PICK g : \A D \in SUBSET (S \ {x}) : g[D] = PackStep(first, rows, g, D)
    BY <2>6
  <2> DEFINE h == [D \in SUBSET S |-> IF x \in D THEN PackStep(first, rows, g, D) ELSE g[D]]
  <2>8. ASSUME NEW D \in SUBSET S PROVE h[D] = PackStep(first, rows, h, D)
    <3> DEFINE c == ChunkOf(rows, D)
    <3>1. IsInitial(c, D)
      BY <2>3, ChunkOfFacts
    <3>2. c # {} /\ x \in D => x \in c
      <4> SUFFICES ASSUME NEW d \in c, x \in D, x \notin c PROVE FALSE
        OBVIOUS
      <4>1. d \in S /\ d \in Nat /\ x \in Nat
        BY <1>1, <2>3, <2>5, <3>1 DEF IsInitial
      <4>2. x < d
        BY <2>5, <4>1
      <4> QED
        BY <3>1, <4>2 DEF IsInitial
    <3>3. c # {} => D \ c \in SUBSET (S \ {x})
      BY <3>2
    <3> HIDE DEF c
    <3>4. c # {} => h[D \ c] = g[D \ c]
      BY <3>3
    <3>5. h[D] = PackStep(first, rows, g, D)
      BY <2>7
    <3> HIDE DEF h
    <3> QED
      BY <3>4, <3>5 DEF PackStep, c
  <2> HIDE DEF h
  <2> QED
    BY <2>3, <2>8
<1>3. PICK h : \A D \in SUBSET X : h[D] = PackStep(first, rows, h, D)
  BY <1>2
<1> DEFINE k == [D \in SUBSET X |-> h[D]]
<1>4. ASSUME NEW D \in SUBSET X PROVE k[D] = PackStep(first, rows, k, D)
  <2>1. D \ ChunkOf(rows, D) \in SUBSET X
    OBVIOUS
  <2>2. k[D \ ChunkOf(rows, D)] = h[D \ ChunkOf(rows, D)] /\ k[D] = h[D]
    BY <2>1
  <2> HIDE DEF k
  <2> QED
    BY <1>3, <2>2 DEF PackStep
<1>5. k = [D \in SUBSET X |-> k[D]]
  OBVIOUS
<1> HIDE DEF k
<1>6. k = [D \in SUBSET X |-> PackStep(first, rows, k, D)]
  BY <1>4, <1>5
<1> QED
  BY <1>6

(* New shards hold a beginning of the rows, all but the last sealed; if    *)
(* they hold less than all of them, the last is sealed too.                *)
LEMMA PackFacts ==
  ASSUME NEW first \in Nat, NEW rows \in Docs,
         NEW new, new = Pack(first, rows)
  PROVE  /\ Part(new, rows, DatesOf(new), first, DatesOf(new) # Dates(rows))
         /\ IsInitial(DatesOf(new), Dates(rows))
         /\ Packs(rows, new) <=> DatesOf(new) = Dates(rows)
<1> DEFINE X == Dates(rows)
           pack == CHOOSE h : h = [D \in SUBSET X |-> PackStep(first, rows, h, D)]
           G(D) == /\ Part(pack[D], rows, DatesOf(pack[D]), first + Cardinality(X \ D),
                           DatesOf(pack[D]) # D)
                   /\ IsInitial(DatesOf(pack[D]), D)
           T == {D \in SUBSET X : ~G(D)}
<1>1. X \subseteq Nat /\ IsFiniteSet(X)
  BY DocFacts
<1>2. new = pack[X]
  BY DEF Pack, PackStep, ShardOf, ChunkOf
<1>3. pack = [D \in SUBSET X |-> PackStep(first, rows, pack, D)]
  BY PackDefined
<1> HIDE DEF pack
<1>4. \A D \in SUBSET X : pack[D] = PackStep(first, rows, pack, D)
  BY <1>3
<1>5. T = {}
  <2> SUFFICES ASSUME T # {} PROVE FALSE
    OBVIOUS
  <2>1. T \subseteq SUBSET X
    OBVIOUS
  <2> HIDE DEF T
  <2>2. PICK D \in T : \A R \in T : ~(R \subseteq D /\ R # D)
    BY <1>1, <2>1, SmallestSet
  <2> DEFINE c == ChunkOf(rows, D)
             n == first + Cardinality(X \ D)
             A == << ShardOf(first, rows, D) >>
             B == pack[D \ c]
             e == Min(D \ c)
  <2>3. D \in SUBSET X /\ ~G(D)
    BY <2>2 DEF T
  <2>4. /\ IsInitial(c, D)
        /\ c # {} => Fits(On(rows, c))
        /\ c # D => /\ e \in D \ c /\ \A d \in D \ c : e <= d
                    /\ ~Fits(On(rows, c \cup {e}))
    BY <2>3, ChunkOfFacts
  <2>5. pack[D] = IF c = {} THEN << >> ELSE A \o B
    BY <1>4, <2>3 DEF PackStep
  <2> HIDE DEF c, e
  <2>6. CASE c = {}
    <3>1. pack[D] = << >> /\ DatesOf(<< >>) = {}
      BY <2>5, <2>6 DEF DatesOf
    <3>2. G(D)
      BY <3>1, PartEmpty DEF IsInitial
    <3> QED
      BY <2>3, <3>2
  <2>7. CASE c # {}
    <3> DEFINE E == DatesOf(B)
               more == E # D \ c
    <3>1. c \in SUBSET D /\ D \ c \in SUBSET X
      BY <2>3, <2>4 DEF IsInitial
    <3>2. G(D \ c)
      <4>1. D \ c \notin T
        BY <2>2, <2>7, <3>1
      <4> QED
        BY <3>1, <4>1 DEF T
    <3>3. n \in Nat /\ n + Cardinality(c) = first + Cardinality(X \ (D \ c))
      <4>1. X \ (D \ c) = (X \ D) \cup c /\ (X \ D) \cap c = {}
        BY <2>3, <3>1
      <4>2. IsFiniteSet(X \ D) /\ IsFiniteSet(c)
        BY <1>1, <2>3, <3>1, FS_Subset
      <4>3. /\ Cardinality(X \ (D \ c)) = Cardinality(X \ D) + Cardinality(c)
            /\ Cardinality(X \ D) \in Nat /\ Cardinality(c) \in Nat
        BY <4>1, <4>2, DisjointUnion
      <4> QED
        BY <4>3
    <3>4. Part(B, rows, E, n + Cardinality(c), more) /\ IsInitial(E, D \ c)
      BY <3>2, <3>3
    <3>5. Part(A, rows, c, n, c # D)
      <4> DEFINE s == ShardOf(first, rows, D)
      <4>1. On(rows, c) \in Docs /\ Dates(On(rows, c)) = c
        BY <2>3, <3>1, OnFacts
      <4>2. s.start = n /\ s.doc = On(rows, c) /\ s.sealed = (c # D) /\ s \in Shard
        BY <3>3, <4>1 DEF ShardOf, Shard, c
      <4> HIDE DEF s, n
      <4>3. Part(<< s >>, rows, Dates(s.doc), n, s.sealed)
        BY <2>4, <2>7, <3>3, <4>1, <4>2, PartOne
      <4> QED
        BY <4>1, <4>2, <4>3 DEF s
    <3> HIDE DEF n, B, A
    <3>6. CASE c = D
      <4>1. E = {} /\ D \ c = {}
        BY <3>4, <3>6 DEF IsInitial
      <4>2. B = << >>
        BY <3>4, <4>1, PartNone
      <4>3. A \o B = A /\ DatesOf(A) = D
        <5>1. A \in ShardSeq /\ DatesOf(A) = c
          BY <3>5 DEF Part
        <5> QED
          BY <3>6, <4>2, <5>1, ConcatEmptySeq DEF ShardSeq
      <4>4. Part(A, rows, D, n, FALSE)
        <5>1. (c # D) = FALSE
          BY <3>6
        <5> QED
          BY <3>5, <3>6, <5>1
      <4>5. G(D)
        <5>1. pack[D] = A
          BY <2>5, <2>7, <4>3
        <5>2. IsInitial(D, D) /\ (D # D) = FALSE
          BY DEF IsInitial
        <5> QED
          BY <4>3, <4>4, <5>1, <5>2 DEF n
      <4> QED
        BY <2>3, <4>5
    <3>7. CASE c # D
      <4>1. \A d \in c, f \in E : d < f
        <5> SUFFICES ASSUME NEW d \in c, NEW f \in E, ~(d < f) PROVE FALSE
          OBVIOUS
        <5>1. d \in D /\ f \in D /\ f \notin c /\ d \in Nat /\ f \in Nat
          BY <1>1, <2>3, <3>1, <3>4 DEF IsInitial
        <5>2. f < d
          BY <5>1
        <5> QED
          BY <2>4, <5>1, <5>2 DEF IsInitial
      <4>2. B # << >> \/ more
        <5> SUFFICES ASSUME B = << >> PROVE more
          OBVIOUS
        <5>1. E = {}
          BY DEF DatesOf
        <5> QED
          BY <2>4, <3>7, <5>1
      <4>3. ASSUME B # << >> PROVE Full(A[Len(A)], B[1], rows)
        <5> DEFINE m == Min(Dates(B[1].doc))
        <5>1. m \in E /\ \A d \in E : m <= d
          BY <3>4, <4>3, PartFirst
        <5> HIDE DEF m, E
        <5>2. e \in E
          <6> SUFFICES ASSUME e \notin E PROVE FALSE
            OBVIOUS
          <6>1. m \in D \ c /\ e \in D \ c /\ m \in Nat /\ e \in Nat /\ e <= m
            BY <1>1, <2>3, <2>4, <3>4, <3>7, <5>1 DEF IsInitial
          <6>2. e < m
            BY <5>1, <6>1
          <6> QED
            BY <3>4, <5>1, <6>1, <6>2 DEF IsInitial
        <5>3. m = e
          <6>1. m <= e /\ e <= m /\ m \in Nat /\ e \in Nat
            BY <1>1, <2>3, <2>4, <3>4, <3>7, <5>1, <5>2 DEF IsInitial
          <6> QED
            BY <6>1
        <5>4. A[Len(A)].doc = On(rows, c) /\ Dates(On(rows, c)) = c
          BY <2>3, <3>1, OnFacts DEF A, ShardOf, c
        <5> QED
          BY <2>4, <3>7, <5>3, <5>4 DEF Full, m
      <4>4. Part(A, rows, c, n, TRUE)
        <5>1. (c # D) = TRUE
          BY <3>7
        <5> QED
          BY <3>5, <5>1
      <4>5. more \in BOOLEAN
        OBVIOUS
      <4> HIDE DEF more, E
      <4>6. Part(A \o B, rows, c \cup E, n, more)
        BY <3>3, <3>4, <4>1, <4>2, <4>3, <4>4, PartJoin
      <4>7. DatesOf(A \o B) = c \cup E /\ pack[D] = A \o B
        BY <2>5, <2>7, <4>6 DEF Part
      <4>8. IsInitial(c \cup E, D) /\ (more <=> c \cup E # D)
        <5>1. E \subseteq D \ c
          BY <3>4 DEF IsInitial
        <5>2. IsInitial(c \cup E, D)
          BY <2>4, <3>1, <3>4 DEF IsInitial
        <5> QED
          BY <3>1, <5>1, <5>2 DEF more
      <4>9. more = (c \cup E # D)
        BY <4>5, <4>8
      <4>10. G(D)
        BY <4>6, <4>7, <4>8, <4>9 DEF n
      <4> QED
        BY <2>3, <4>10
    <3> QED
      BY <3>6, <3>7
  <2> QED
    BY <2>6, <2>7
<1>6. G(X)
  BY <1>5
<1>7. first + Cardinality(X \ X) = first
  BY FS_EmptySet
<1>8. /\ Part(new, rows, DatesOf(new), first, DatesOf(new) # X)
      /\ IsInitial(DatesOf(new), X)
  BY <1>2, <1>6, <1>7
<1>9. Dates(BarsOf(new)) = DatesOf(new)
  BY <1>8, PartBars
<1> QED
  BY <1>8, <1>9 DEF Packs

-----------------------------------------------------------------------------
(* Record numbers.                                                         *)
LEMMA BarsAreDoc ==
  ASSUME NEW shards \in ShardSeq
  PROVE  BarsOf(shards) \in Docs /\ Dates(BarsOf(shards)) = DatesOf(shards)
<1> DEFINE holder(d) == CHOOSE k \in DOMAIN shards : d \in Dates(shards[k].doc)
<1>1. BarsOf(shards) = [d \in DatesOf(shards) |-> shards[holder(d)].doc[d]]
  BY DEF BarsOf, DatesOf
<1>2. ASSUME NEW d \in DatesOf(shards) PROVE shards[holder(d)].doc[d] \in Bar
  <2>1. \E k \in DOMAIN shards : d \in Dates(shards[k].doc)
    BY DEF DatesOf
  <2>2. holder(d) \in DOMAIN shards /\ d \in Dates(shards[holder(d)].doc)
    BY <2>1
  <2> HIDE DEF holder
  <2>3. shards[holder(d)].doc \in [Dates(shards[holder(d)].doc) -> Bar]
    BY <2>2, ShardSeqFacts, DocFacts
  <2> QED
    BY <2>2, <2>3
<1> HIDE DEF holder
<1>3. BarsOf(shards) \in [DatesOf(shards) -> Bar] /\ DatesOf(shards) \in SUBSET Day
  BY <1>1, <1>2, ShardSeqFacts
<1> QED
  BY <1>3 DEF Docs, Dates

LEMMA PartStarts ==
  ASSUME NEW shards, NEW rows, NEW D, NEW more, Part(shards, rows, D, 0, more)
  PROVE  /\ \A k \in DOMAIN shards : shards[k].start \in Start
         /\ \A j, k \in DOMAIN shards : j # k => shards[j].start # shards[k].start
<1> DEFINE Under(k) == {d \in D : Before(d, Dates(shards[k].doc))}
<1>1. /\ shards \in ShardSeq /\ DatesOf(shards) = D /\ DOMAIN shards \subseteq Nat
      /\ D \subseteq Nat /\ IsFiniteSet(D) /\ D \subseteq Day /\ LastDay \in Nat
  <2>1. D \subseteq Day /\ Day \subseteq Nat /\ LastDay \in Nat
    BY SeriesAssumption, ShardSeqFacts DEF Part, Day
  <2> QED
    BY <2>1, ShardSeqFacts DEF Part
<1>2. IsFiniteSet(Day) /\ Cardinality(Day) = LastDay
  BY <1>1, FS_Interval DEF Day
<1>3. ASSUME NEW k \in DOMAIN shards
      PROVE  shards[k].start = Cardinality(Under(k)) /\ shards[k].start \in Start
  <2>1. shards[k].start = 0 + Cardinality(Under(k))
    BY DEF Part, Piece
  <2>2. /\ IsFiniteSet(Under(k)) /\ Cardinality(Under(k)) \in Nat
        /\ Cardinality(Under(k)) <= LastDay
    BY <1>1, <1>2, FS_Subset, FS_CardinalityType
  <2> QED
    BY <1>1, <2>1, <2>2 DEF Start
<1>4. ASSUME NEW j \in DOMAIN shards, NEW k \in DOMAIN shards, j < k
      PROVE  shards[j].start # shards[k].start
  <2>1. PICK e \in Dates(shards[j].doc) : TRUE
    BY DEF Part, Piece
  <2>2. PICK f \in Dates(shards[k].doc) : TRUE
    BY DEF Part, Piece
  <2>3. e \in D /\ f \in D /\ e \in Nat
    BY <1>1 DEF DatesOf
  <2>4. e \in Under(k) /\ e \notin Under(j)
    BY <1>4, <2>3 DEF Part, Ascending, Before
  <2>5. Under(j) \subseteq Under(k)
    <3> SUFFICES ASSUME NEW d \in Under(j), NEW g \in Dates(shards[k].doc) PROVE d < g
      BY DEF Before
    <3>1. d < e /\ e < g /\ d \in Nat /\ g \in D
      BY <1>1, <1>4 DEF Part, Ascending, Before, DatesOf
    <3> QED
      BY <1>1, <2>3, <3>1
  <2>6. IsFiniteSet(Under(k)) /\ Under(j) # Under(k)
    BY <1>1, <2>4, FS_Subset
  <2> HIDE DEF Under
  <2>7. Cardinality(Under(j)) # Cardinality(Under(k))
    BY <2>5, <2>6, FS_Subset, FS_CardinalityType
  <2> QED
    BY <1>3, <2>7
<1>5. ASSUME NEW j \in DOMAIN shards, NEW k \in DOMAIN shards, j # k
      PROVE  shards[j].start # shards[k].start
  <2>1. j < k \/ k < j
    BY <1>1, <1>5
  <2> QED
    BY <1>4, <2>1
<1> QED
  BY <1>3, <1>5

-----------------------------------------------------------------------------
(* Provenance: the segments tile the first `count` records.                *)
LineageSeq == Seq([from : Nat, to : Nat])

Segments(lineage, count) ==
  /\ lineage \in LineageSeq
  /\ \A k \in DOMAIN lineage :
       /\ lineage[k].from = IF k = 1 THEN 0 ELSE lineage[k - 1].to + 1
       /\ lineage[k].from <= lineage[k].to
  /\ count = IF lineage = << >> THEN 0 ELSE lineage[Len(lineage)].to + 1

LEMMA SegmentsShift ==
  ASSUME NEW a, NEW b, NEW m \in Nat, NEW n \in Nat, Segments(a, m), Segments(b, n)
  PROVE  Segments(a \o ShiftLineage(b, m), m + n)
<1> DEFINE c == ShiftLineage(b, m)
           S == a \o c
<1>1. /\ a \in LineageSeq /\ b \in LineageSeq /\ Len(a) \in Nat /\ Len(b) \in Nat
      /\ DOMAIN a = 1 .. Len(a) /\ DOMAIN b = 1 .. Len(b)
      /\ \A k \in DOMAIN a : a[k].from \in Nat /\ a[k].to \in Nat
      /\ \A k \in DOMAIN b : b[k].from \in Nat /\ b[k].to \in Nat
  <2>1. a \in LineageSeq /\ b \in LineageSeq
    BY DEF Segments
  <2> DEFINE R == [from : Nat, to : Nat]
  <2>2. a \in Seq(R) /\ b \in Seq(R)
    BY <2>1 DEF LineageSeq
  <2>3. \A r \in R : r.from \in Nat /\ r.to \in Nat
    OBVIOUS
  <2> HIDE DEF R
  <2>4. /\ Len(a) \in Nat /\ Len(b) \in Nat
        /\ DOMAIN a = 1 .. Len(a) /\ DOMAIN b = 1 .. Len(b)
        /\ \A k \in DOMAIN a : a[k] \in R
        /\ \A k \in DOMAIN b : b[k] \in R
    BY <2>2
  <2> QED
    BY <2>1, <2>3, <2>4
<1>10. /\ \A k \in DOMAIN a : k # 1 => a[k].from = a[k - 1].to + 1
       /\ \A k \in DOMAIN b : k # 1 => b[k].from = b[k - 1].to + 1
       /\ 1 \in DOMAIN b => b[1].from = 0
       /\ \A k \in DOMAIN a : a[k].from <= a[k].to
       /\ \A k \in DOMAIN b : b[k].from <= b[k].to
       /\ a = << >> => m = 0
       /\ a # << >> => m = a[Len(a)].to + 1
  BY DEF Segments
<1>2. /\ c \in LineageSeq /\ Len(c) = Len(b)
      /\ \A k \in DOMAIN b : c[k].from = b[k].from + m /\ c[k].to = b[k].to + m
  <2>1. c = [k \in 1 .. Len(b) |-> [from |-> b[k].from + m, to |-> b[k].to + m]]
    BY <1>1 DEF ShiftLineage
  <2>2. \A k \in 1 .. Len(b) :
          [from |-> b[k].from + m, to |-> b[k].to + m] \in [from : Nat, to : Nat]
    BY <1>1
  <2>3. c \in Seq([from : Nat, to : Nat]) /\ Len(c) = Len(b)
    BY <1>1, <2>1, <2>2
  <2> QED
    BY <1>1, <2>1, <2>3 DEF LineageSeq
<1> HIDE DEF c
<1>3. /\ S \in LineageSeq /\ Len(S) = Len(a) + Len(b)
      /\ \A k \in 1 .. Len(a) + Len(b) : S[k] = IF k <= Len(a) THEN a[k] ELSE c[k - Len(a)]
  <2>1. a \in Seq([from : Nat, to : Nat]) /\ c \in Seq([from : Nat, to : Nat])
    BY <1>1, <1>2 DEF LineageSeq
  <2>2. /\ S \in Seq([from : Nat, to : Nat]) /\ Len(S) = Len(a) + Len(c)
        /\ \A k \in 1 .. Len(a) + Len(c) : S[k] = IF k <= Len(a) THEN a[k] ELSE c[k - Len(a)]
    BY <2>1, ConcatProperties
  <2> QED
    BY <1>2, <2>2 DEF LineageSeq
<1>4. DOMAIN S = 1 .. Len(a) + Len(b)
  BY <1>1, <1>3 DEF LineageSeq
<1>5. a = << >> \/ Len(a) > 0
  BY <1>1 DEF LineageSeq
<1>6. b = << >> \/ Len(b) > 0
  BY <1>1 DEF LineageSeq
<1> HIDE DEF S
<1>7. ASSUME NEW k \in DOMAIN S
      PROVE  /\ S[k].from = IF k = 1 THEN 0 ELSE S[k - 1].to + 1
             /\ S[k].from <= S[k].to
  <2>1. CASE k <= Len(a)
    <3>1. k \in DOMAIN a /\ S[k] = a[k] /\ k \in Nat
      BY <1>1, <1>3, <1>4, <2>1
    <3>2. k # 1 => S[k - 1] = a[k - 1]
      BY <1>1, <1>3, <1>4, <3>1
    <3> QED
      BY <3>1, <3>2 DEF Segments
  <2>2. CASE k = Len(a) + 1
    <3>1. 1 \in DOMAIN b /\ S[k] = c[1]
      BY <1>1, <1>3, <1>4, <2>2
    <3>2. S[k].from = m /\ S[k].to = b[1].to + m /\ 0 <= b[1].to /\ b[1].to \in Nat
      BY <1>1, <1>2, <1>10, <3>1
    <3>3. CASE a = << >>
      <4>1. k = 1 /\ m = 0
        BY <1>1, <1>10, <2>2, <3>3
      <4> QED
        BY <3>2, <4>1
    <3>4. CASE Len(a) > 0
      <4>1. k # 1 /\ S[k - 1] = a[Len(a)] /\ a # << >>
        BY <1>1, <1>3, <1>4, <2>2, <3>4
      <4> QED
        BY <1>10, <3>2, <4>1
    <3> QED
      BY <1>5, <3>3, <3>4
  <2>3. CASE k > Len(a) + 1
    <3> DEFINE j == k - Len(a)
    <3>1. j \in DOMAIN b /\ j - 1 \in DOMAIN b /\ j # 1 /\ k # 1
      BY <1>1, <1>4, <2>3
    <3>2. S[k] = c[j] /\ S[k - 1] = c[j - 1]
      BY <1>1, <1>3, <1>4, <2>3
    <3> HIDE DEF j
    <3>3. b[j].from = b[j - 1].to + 1 /\ b[j].from <= b[j].to
      BY <1>10, <3>1
    <3>4. /\ S[k].from = b[j].from + m /\ S[k].to = b[j].to + m
          /\ S[k - 1].to = b[j - 1].to + m
          /\ b[j].from \in Nat /\ b[j].to \in Nat /\ b[j - 1].to \in Nat
      BY <1>1, <1>2, <3>1, <3>2
    <3> QED
      BY <3>1, <3>3, <3>4
  <2> QED
    BY <1>1, <1>4, <2>1, <2>2, <2>3
<1>8. m + n = IF S = << >> THEN 0 ELSE S[Len(S)].to + 1
  <2>1. CASE b = << >>
    <3>1. n = 0 /\ Len(S) = Len(a)
      BY <1>3, <2>1 DEF Segments
    <3>2. CASE a = << >>
      <4>1. S = << >>
        BY <1>1, <1>3, <3>1, <3>2 DEF LineageSeq
      <4> QED
        BY <3>1, <3>2, <4>1 DEF Segments
    <3>3. CASE Len(a) > 0
      <4>1. S # << >> /\ a # << >> /\ S[Len(S)] = a[Len(a)]
        BY <1>1, <1>3, <3>1, <3>3
      <4> QED
        BY <3>1, <4>1 DEF Segments
    <3> QED
      BY <1>5, <3>2, <3>3
  <2>2. CASE Len(b) > 0
    <3>1. S # << >> /\ b # << >> /\ S[Len(S)] = c[Len(b)] /\ Len(b) \in DOMAIN b
      BY <1>1, <1>3, <2>2
    <3>2. n = b[Len(b)].to + 1 /\ c[Len(b)].to = b[Len(b)].to + m
      BY <1>2, <3>1 DEF Segments
    <3> QED
      BY <1>1, <3>1, <3>2
  <2> QED
    BY <1>6, <2>1, <2>2
<1>9. Segments(S, m + n)
  BY <1>3, <1>7, <1>8 DEF Segments
<1> QED
  BY <1>9 DEF S, c

LEMMA SegmentOne ==
  ASSUME NEW m \in Nat, NEW n \in Nat \ {0}
  PROVE  Segments(Segment(0, n), n) /\ Segment(m, n) = ShiftLineage(Segment(0, n), m)
<1>1. Segment(0, n) \in LineageSeq /\ Len(Segment(0, n)) = 1 /\ Segment(0, n) # << >>
  <2>1. [from |-> 0, to |-> 0 + n - 1] \in [from : Nat, to : Nat]
    OBVIOUS
  <2> QED
    BY <2>1 DEF Segment, LineageSeq
<1>2. Segments(Segment(0, n), n)
  BY <1>1 DEF Segments, Segment
<1>3. Segment(m, n) = ShiftLineage(Segment(0, n), m)
  BY DEF Segment, ShiftLineage
<1> QED
  BY <1>2, <1>3

-----------------------------------------------------------------------------
(* Plans: the file operations a writer still has to do.                    *)
Good(i) ==
  /\ i \in Indexes /\ i.shards # << >>
  /\ Part(i.shards, BarsOf(i.shards), DatesOf(i.shards), 0, FALSE)
  /\ i.count = Cardinality(DatesOf(i.shards))
  /\ Segments(i.lineage, i.count)

WriteOps ==
  [kind : {"shard"}, at : Start, doc : Docs] \cup [kind : {"unlink"}, at : Start] \cup
  [kind : {"archive"}, bars : Docs] \cup [kind : {"index"}, index : Indexes]

Touches(w, at) == w.kind \in {"shard", "unlink"} /\ w.at = at

(* The file of the shard is on disk and stays, or the plan will write it.  *)
Kept(shard, fs, ws) ==
  /\ fs[shard.start] = shard.doc
  /\ \A j \in DOMAIN ws : ~Touches(ws[j], shard.start)

Coming(shard, ws) ==
  \E j \in DOMAIN ws :
    /\ ws[j].kind = "shard" /\ ws[j].at = shard.start /\ ws[j].doc = shard.doc
    /\ \A l \in DOMAIN ws : l > j => ~Touches(ws[l], shard.start)

(* An index comes last, and finds every shard it names.                    *)
Sound(ws, fs) ==
  /\ ws \in Seq(WriteOps)
  /\ \A j \in DOMAIN ws : ws[j].kind = "archive" => j = 1
  /\ \A j \in DOMAIN ws : ws[j].kind = "index" =>
       /\ j = Len(ws) /\ Good(ws[j].index)
       /\ \A k \in DOMAIN ws[j].index.shards :
            \/ Kept(ws[j].index.shards[k], fs, ws)
            \/ Coming(ws[j].index.shards[k], ws)

Bears(ws, bars) ==
  \A j \in DOMAIN ws : ws[j].kind = "index" => BarsOf(ws[j].index.shards) = bars

LEMMA OpFacts ==
  ASSUME NEW w \in WriteOps
  PROVE  /\ w.kind \in {"shard", "unlink", "archive", "index"}
         /\ w.kind = "shard" => w.at \in Start /\ w.doc \in Docs
         /\ w.kind = "unlink" => w.at \in Start
         /\ w.kind = "archive" => w.bars \in Docs
         /\ w.kind = "index" => w.index \in Indexes
BY DEF WriteOps

LEMMA PutShardsFacts ==
  ASSUME NEW put \in ShardSeq, \A k \in DOMAIN put : put[k].start \in Start
  PROVE  /\ PutShards(put) \in Seq(WriteOps)
         /\ Len(PutShards(put)) = Len(put) /\ DOMAIN PutShards(put) = DOMAIN put
         /\ \A k \in DOMAIN put : /\ PutShards(put)[k].kind = "shard"
                                  /\ PutShards(put)[k].at = put[k].start
                                  /\ PutShards(put)[k].doc = put[k].doc
<1> DEFINE Q == PutShards(put)
           e(k) == [kind |-> "shard", at |-> put[k].start, doc |-> put[k].doc]
<1>1. Len(put) \in Nat /\ DOMAIN put = 1 .. Len(put) /\ \A k \in DOMAIN put : put[k].doc \in Docs
  BY ShardSeqFacts
<1>2. Q = [k \in 1 .. Len(put) |-> e(k)]
  BY <1>1 DEF PutShards
<1>3. \A k \in 1 .. Len(put) : e(k) \in WriteOps
  BY <1>1 DEF WriteOps
<1>4. \A k \in 1 .. Len(put) : e(k).kind = "shard" /\ e(k).at = put[k].start /\ e(k).doc = put[k].doc
  OBVIOUS
<1> HIDE DEF Q, e
<1>5. Q \in Seq(WriteOps) /\ Len(Q) = Len(put)
  BY <1>1, <1>2, <1>3
<1> QED
  BY <1>1, <1>2, <1>4, <1>5 DEF Q

LEMMA IndexMade ==
  ASSUME NEW S, NEW rows, NEW D, Part(S, rows, D, 0, FALSE), D # {},
         NEW lineage, Segments(lineage, Cardinality(D))
  PROVE  Good([shards |-> S, lineage |-> lineage, count |-> Total(S)])
<1> DEFINE i == [shards |-> S, lineage |-> lineage, count |-> Total(S)]
<1>1. /\ S \in ShardSeq /\ DatesOf(S) = D /\ Len(S) \in Nat /\ DOMAIN S = 1 .. Len(S)
      /\ \A k \in DOMAIN S : S[k] \in Shard /\ S[k].start \in Start
  <2>1. S \in ShardSeq
    BY DEF Part
  <2>2. \A k \in DOMAIN S : S[k] \in Shard
    BY <2>1 DEF ShardSeq
  <2> QED
    BY <2>1, <2>2, PartStarts, ShardSeqFacts DEF Part
<1>2. S \in Seq(ShardEntries)
  <2>1. \A k \in DOMAIN S : S[k] \in ShardEntries
    BY <1>1 DEF Shard, ShardEntries
  <2>2. S = [k \in 1 .. Len(S) |-> S[k]]
    BY <1>1 DEF ShardSeq
  <2> QED
    BY <1>1, <2>1, <2>2
<1>3. Total(S) = Cardinality(D) /\ Cardinality(D) \in Nat
  BY PartTotal
<1>4. i.shards = S /\ i.lineage = lineage /\ i.count = Cardinality(D)
  BY <1>3
<1>5. i \in Indexes
  BY <1>2, <1>3 DEF Indexes, Segments, LineageSeq
<1>6. S # << >>
  BY <1>1 DEF DatesOf
<1>7. BarsOf(S) = On(rows, D) /\ Part(S, BarsOf(S), D, 0, FALSE)
  <2>1. BarsOf(S) = On(rows, D)
    BY PartBars
  <2>2. \A d \in D : BarsOf(S)[d] = rows[d]
    BY <2>1 DEF On
  <2> QED
    BY <2>1, <2>2, PartRows
<1> QED
  BY <1>1, <1>4, <1>5, <1>6, <1>7 DEF Good

Plan(pre, put, post) == pre \o PutShards(put) \o post

LEMMA ThreeParts ==
  ASSUME NEW R, NEW a \in Seq(R), NEW b \in Seq(R), NEW c \in Seq(R)
  PROVE  /\ a \o b \o c \in Seq(R) /\ Len(a \o b \o c) = Len(a) + Len(b) + Len(c)
         /\ DOMAIN (a \o b \o c) = 1 .. Len(a) + Len(b) + Len(c)
         /\ \A j \in 1 .. Len(a) : (a \o b \o c)[j] = a[j]
         /\ \A j \in 1 .. Len(b) : (a \o b \o c)[Len(a) + j] = b[j]
         /\ \A j \in 1 .. Len(c) : (a \o b \o c)[Len(a) + Len(b) + j] = c[j]
<1> DEFINE x == a \o b
           s == x \o c
<1>1. Len(a) \in Nat /\ Len(b) \in Nat /\ Len(c) \in Nat
  OBVIOUS
<1>2. /\ x \in Seq(R) /\ Len(x) = Len(a) + Len(b)
      /\ \A j \in 1 .. Len(a) + Len(b) : x[j] = IF j <= Len(a) THEN a[j] ELSE b[j - Len(a)]
  BY ConcatProperties
<1> HIDE DEF x
<1>3. x \in Seq(R)
  BY <1>2
<1>4. /\ s \in Seq(R) /\ Len(s) = Len(x) + Len(c)
      /\ \A j \in 1 .. Len(x) + Len(c) : s[j] = IF j <= Len(x) THEN x[j] ELSE c[j - Len(x)]
  BY <1>3, ConcatProperties
<1> HIDE DEF s
<1>5. DOMAIN s = 1 .. Len(a) + Len(b) + Len(c)
  BY <1>2, <1>4
<1>6. ASSUME NEW j \in 1 .. Len(a) PROVE s[j] = a[j]
  <2>1. j \in 1 .. Len(x) + Len(c) /\ j <= Len(x) /\ j \in 1 .. Len(a) + Len(b) /\ j <= Len(a)
    BY <1>1, <1>2
  <2> QED
    BY <1>2, <1>4, <2>1
<1>7. ASSUME NEW j \in 1 .. Len(b) PROVE s[Len(a) + j] = b[j]
  <2> DEFINE l == Len(a) + j
  <2>1. /\ l \in 1 .. Len(x) + Len(c) /\ l <= Len(x) /\ l \in 1 .. Len(a) + Len(b)
        /\ ~(l <= Len(a)) /\ l - Len(a) = j
    BY <1>1, <1>2
  <2> HIDE DEF l
  <2>2. s[l] = b[j]
    BY <1>2, <1>4, <2>1
  <2> QED
    BY <2>2 DEF l
<1>8. ASSUME NEW j \in 1 .. Len(c) PROVE s[Len(a) + Len(b) + j] = c[j]
  <2> DEFINE l == Len(a) + Len(b) + j
  <2>1. l \in 1 .. Len(x) + Len(c) /\ ~(l <= Len(x)) /\ l - Len(x) = j
    BY <1>1, <1>2
  <2> HIDE DEF l
  <2>2. s[l] = c[j]
    BY <1>4, <2>1
  <2> QED
    BY <2>2 DEF l
<1> QED
  <2>1. /\ s \in Seq(R) /\ Len(s) = Len(a) + Len(b) + Len(c)
        /\ DOMAIN s = 1 .. Len(a) + Len(b) + Len(c)
        /\ \A j \in 1 .. Len(a) : s[j] = a[j]
        /\ \A j \in 1 .. Len(b) : s[Len(a) + j] = b[j]
        /\ \A j \in 1 .. Len(c) : s[Len(a) + Len(b) + j] = c[j]
    BY <1>2, <1>4, <1>5, <1>6, <1>7, <1>8
  <2> QED
    BY <2>1 DEF s, x

(* Before the shards are written, the old history is archived and the old  *)
(* shards go; after them the index follows, unless a row fits no shard.    *)
Clears(pre) ==
  /\ pre \in Seq(WriteOps)
  /\ \A j \in DOMAIN pre : /\ pre[j].kind \in {"unlink", "archive"}
                           /\ pre[j].kind = "archive" => j = 1

Closes(post, S, rows, D) ==
  \/ post = << >>
  \/ \E lineage : /\ post = PutIndex(S, lineage)
                  /\ Part(S, rows, D, 0, FALSE) /\ D # {}
                  /\ Segments(lineage, Cardinality(D))

(* The plan starts with pre and archives nothing after it.                 *)
Opens(ws, pre) ==
  /\ \A j \in DOMAIN ws : ws[j].kind = "archive" => j \in DOMAIN pre
  /\ \A j \in DOMAIN pre : j \in DOMAIN ws /\ ws[j] = pre[j]

OneEmpty(a, b) == a = << >> \/ b = << >>

LEMMA PlanSound ==
  ASSUME NEW pre, Clears(pre),
         NEW kept \in ShardSeq, NEW put \in ShardSeq, NEW rows, NEW D, NEW more,
         Part(kept \o put, rows, D, 0, more),
         NEW fs, \A k \in DOMAIN kept : fs[kept[k].start] = kept[k].doc,
         OneEmpty(kept, pre),
         NEW post, Closes(post, kept \o put, rows, D)
  PROVE  /\ Sound(Plan(pre, put, post), fs)
         /\ \A bars : (post # << >> => bars = On(rows, D)) => Bears(Plan(pre, put, post), bars)
         /\ Opens(Plan(pre, put, post), pre)
<1> DEFINE ws == Plan(pre, put, post)
           S == kept \o put
           Q == PutShards(put)
           p == Len(pre)
           q == Len(put)
           n == Len(kept)
<1>1. /\ n \in Nat /\ DOMAIN kept = 1 .. n /\ q \in Nat /\ DOMAIN put = 1 .. q
      /\ DOMAIN S = 1 .. n + q
      /\ \A k \in DOMAIN kept : k \in DOMAIN S /\ S[k] = kept[k]
      /\ \A k \in DOMAIN put : k + n \in DOMAIN S /\ S[k + n] = put[k]
      /\ \A k \in DOMAIN S : k \notin DOMAIN kept => k - n \in DOMAIN put /\ S[k] = put[k - n]
  BY DEF ShardSeq
<1>2. /\ \A k \in DOMAIN S : S[k].start \in Start
      /\ \A j, k \in DOMAIN S : j # k => S[j].start # S[k].start
  BY PartStarts
<1>3. /\ Q \in Seq(WriteOps) /\ Len(Q) = q /\ DOMAIN Q = 1 .. q
      /\ \A k \in DOMAIN put : Q[k].kind = "shard" /\ Q[k].at = put[k].start /\ Q[k].doc = put[k].doc
  <2>1. \A k \in DOMAIN put : put[k].start \in Start
    BY <1>1, <1>2
  <2> HIDE DEF Q
  <2>2. /\ Q \in Seq(WriteOps) /\ Len(Q) = Len(put) /\ DOMAIN Q = DOMAIN put
        /\ \A k \in DOMAIN put : Q[k].kind = "shard" /\ Q[k].at = put[k].start /\ Q[k].doc = put[k].doc
    BY <2>1, PutShardsFacts DEF Q
  <2> QED
    BY <1>1, <2>2
<1>17. PICK lineage : post # << >> => /\ post = PutIndex(S, lineage)
                                      /\ Part(S, rows, D, 0, FALSE) /\ D # {}
                                      /\ Segments(lineage, Cardinality(D))
  BY DEF Closes
<1> DEFINE i == [shards |-> S, lineage |-> lineage, count |-> Total(S)]
<1>4. /\ post \in Seq(WriteOps)
      /\ post # << >> => /\ Len(post) = 1 /\ post[1].kind = "index" /\ post[1].index = i
                         /\ Good(i) /\ BarsOf(i.shards) = On(rows, D)
  <2>1. CASE post = << >>
    BY <2>1
  <2>2. CASE post # << >>
    <3>1. Good(i) /\ BarsOf(i.shards) = On(rows, D)
      <4>1. i.shards = S
        OBVIOUS
      <4>2. Part(S, rows, D, 0, FALSE) /\ D # {} /\ Segments(lineage, Cardinality(D))
        BY <1>17, <2>2
      <4>3. BarsOf(S) = On(rows, D)
        BY <4>2, PartBars
      <4> HIDE DEF S
      <4>4. Good(i)
        BY <4>2, IndexMade
      <4> QED
        BY <4>1, <4>3, <4>4
    <3>2. post = << [kind |-> "index", index |-> i] >>
      BY <1>17, <2>2 DEF PutIndex
    <3> HIDE DEF i
    <3>3. [kind |-> "index", index |-> i] \in WriteOps
      BY <3>1 DEF Good, WriteOps
    <3> QED
      BY <3>1, <3>2, <3>3
  <2> QED
    BY <2>1, <2>2
<1>5. i.shards = S
  OBVIOUS
<1> HIDE DEF S, Q, i
<1>6. /\ p \in Nat /\ DOMAIN pre = 1 .. p /\ q \in Nat /\ n \in Nat /\ Len(post) \in Nat
      /\ DOMAIN put = 1 .. q /\ DOMAIN kept = 1 .. n /\ DOMAIN Q = 1 .. q
      /\ pre = << >> => p = 0
      /\ (post = << >> /\ Len(post) = 0) \/ (post # << >> /\ Len(post) = 1)
      /\ \A j \in 1 .. p : pre[j].kind \in {"unlink", "archive"} /\ (pre[j].kind = "archive" => j = 1)
  BY <1>1, <1>3, <1>4 DEF Clears
<1>7. /\ ws \in Seq(WriteOps) /\ Len(ws) = p + q + Len(post) /\ DOMAIN ws = 1 .. p + q + Len(post)
      /\ \A j \in 1 .. p : ws[j] = pre[j]
      /\ \A j \in 1 .. q : ws[p + j] = Q[j]
      /\ \A j \in 1 .. Len(post) : ws[p + q + j] = post[j]
  <2> DEFINE w == pre \o Q \o post
  <2>1. pre \in Seq(WriteOps) /\ Q \in Seq(WriteOps) /\ post \in Seq(WriteOps)
    BY <1>3, <1>4 DEF Clears
  <2>2. /\ w \in Seq(WriteOps) /\ Len(w) = Len(pre) + Len(Q) + Len(post)
        /\ DOMAIN w = 1 .. Len(pre) + Len(Q) + Len(post)
        /\ \A j \in 1 .. Len(pre) : w[j] = pre[j]
        /\ \A j \in 1 .. Len(Q) : w[Len(pre) + j] = Q[j]
        /\ \A j \in 1 .. Len(post) : w[Len(pre) + Len(Q) + j] = post[j]
    BY <2>1, ThreeParts
  <2>3. w = ws
    BY DEF Q, Plan
  <2> HIDE DEF w, ws
  <2> QED
    BY <1>3, <2>2, <2>3
<1> HIDE DEF p, q, n, ws
<1>8. ASSUME NEW j \in DOMAIN ws
      PROVE  \/ j \in 1 .. p /\ ws[j] = pre[j]
             \/ j - p \in 1 .. q /\ ws[j] = Q[j - p] /\ j > p
             \/ /\ post # << >> /\ j = p + q + 1 /\ j = Len(ws)
                /\ ws[j].kind = "index" /\ ws[j].index = i
  <2>1. CASE j <= p
    BY <1>6, <1>7, <2>1
  <2>2. CASE j > p /\ j <= p + q
    <3>1. j - p \in 1 .. q /\ ws[p + (j - p)] = Q[j - p] /\ p + (j - p) = j
      BY <1>1, <1>6, <1>7, <2>2
    <3> QED
      BY <2>2, <3>1
  <2>3. CASE j > p + q
    <3>1. Len(post) \in Nat /\ j <= p + q + Len(post)
      BY <1>4, <1>7
    <3>2. post # << >> /\ Len(post) = 1
      <4>1. j \in Nat /\ p + q \in Nat
        BY <1>6, <1>7
      <4>2. Len(post) # 0
        BY <2>3, <3>1, <4>1
      <4> QED
        BY <1>6, <4>2
    <3>3. j = p + q + 1 /\ ws[p + q + 1] = post[1] /\ Len(ws) = p + q + 1
      <4>1. Len(ws) = p + q + 1 /\ j = p + q + 1
        <5>1. Len(ws) = p + q + 1 /\ DOMAIN ws = 1 .. p + q + 1
          BY <1>7, <3>2
        <5>2. p + q \in Nat
          BY <1>6
        <5> QED
          BY <2>3, <5>1, <5>2
      <4>2. ws[p + q + 1] = post[1]
        BY <1>7, <3>2
      <4> QED
        BY <4>1, <4>2
    <3> QED
      BY <1>4, <3>2, <3>3
  <2> QED
    BY <1>1, <1>6, <1>7, <2>1, <2>2, <2>3
<1>9. \A j \in DOMAIN ws : ws[j].kind = "archive" => j \in DOMAIN pre /\ j = 1
  BY <1>1, <1>3, <1>6, <1>8
<1>10. ASSUME NEW j \in DOMAIN ws, ws[j].kind = "index"
       PROVE  post # << >> /\ j = Len(ws) /\ ws[j].index = i
  BY <1>1, <1>3, <1>6, <1>8, <1>10
<1>11. ASSUME NEW k \in DOMAIN kept PROVE Kept(kept[k], fs, ws)
  <2> SUFFICES ASSUME NEW j \in DOMAIN ws, Touches(ws[j], kept[k].start) PROVE FALSE
    BY DEF Kept
  <2>1. p = 0
    <3>1. pre = << >>
      BY <1>1 DEF OneEmpty
    <3> QED
      BY <1>6, <3>1
  <2>2. j - p \in 1 .. q /\ ws[j] = Q[j - p]
    BY <1>6, <1>8, <2>1 DEF Touches
  <2>3. put[j - p].start = kept[k].start
    BY <1>1, <1>3, <2>2 DEF Touches
  <2>4. (j - p) + n \in DOMAIN S /\ S[(j - p) + n] = put[j - p] /\ k \in DOMAIN S /\ S[k] = kept[k]
    BY <1>1, <2>2
  <2>5. (j - p) + n # k
    BY <1>1, <2>1, <2>2
  <2> QED
    BY <1>2, <2>3, <2>4, <2>5
<1>12. ASSUME NEW k \in DOMAIN put PROVE Coming(put[k], ws)
  <2>1. p + k \in DOMAIN ws /\ ws[p + k] = Q[k]
    <3>1. k \in 1 .. q /\ k \in Nat
      BY <1>6
    <3>2. p + k \in 1 .. p + q + Len(post)
      BY <1>6, <3>1
    <3> QED
      BY <1>7, <3>1, <3>2
  <2>2. ASSUME NEW l \in DOMAIN ws, l > p + k, Touches(ws[l], put[k].start) PROVE FALSE
    <3>1. l - p \in 1 .. q /\ ws[l] = Q[l - p] /\ l - p # k
      BY <1>1, <1>6, <1>7, <1>8, <2>2 DEF Touches
    <3>2. put[l - p].start = put[k].start
      BY <1>1, <1>3, <2>2, <3>1 DEF Touches
    <3>3. /\ (l - p) + n \in DOMAIN S /\ S[(l - p) + n] = put[l - p]
          /\ k + n \in DOMAIN S /\ S[k + n] = put[k]
      BY <1>1, <3>1
    <3>4. (l - p) + n # k + n
      BY <1>1, <3>1
    <3> QED
      BY <1>2, <3>2, <3>3, <3>4
  <2> QED
    BY <1>3, <2>1, <2>2 DEF Coming
<1>13. ASSUME NEW k \in DOMAIN S PROVE Kept(S[k], fs, ws) \/ Coming(S[k], ws)
  BY <1>1, <1>11, <1>12
<1>14. Sound(ws, fs)
  <2>1. ASSUME NEW j \in DOMAIN ws, ws[j].kind = "index"
        PROVE  /\ j = Len(ws) /\ Good(ws[j].index)
               /\ \A k \in DOMAIN ws[j].index.shards :
                    \/ Kept(ws[j].index.shards[k], fs, ws)
                    \/ Coming(ws[j].index.shards[k], ws)
    BY <1>4, <1>5, <1>10, <1>13, <2>1
  <2> QED
    BY <1>7, <1>9, <2>1 DEF Sound
<1>15. \A bars : (post # << >> => bars = On(rows, D)) => Bears(ws, bars)
  BY <1>4, <1>10 DEF Bears
<1>16. \A j \in DOMAIN pre : j \in DOMAIN ws /\ ws[j] = pre[j]
  <2>1. Len(post) \in Nat
    BY <1>4
  <2> QED
    BY <1>1, <1>6, <1>7, <2>1
<1> QED
  BY <1>9, <1>14, <1>15, <1>16 DEF ws, Opens

-----------------------------------------------------------------------------
(* Filling the open shard.                                                 *)
LEMMA FirstOfInitial ==
  ASSUME NEW X \in SUBSET Nat, NEW E, IsInitial(E, X),
         NEW m \in E, \A d \in E : m <= d, NEW e \in X, \A d \in X : e <= d
  PROVE  m = e
<1>1. m \in X /\ m \in Nat /\ e \in Nat /\ e <= m
  BY DEF IsInitial
<1>2. e < m => e \in E
  BY DEF IsInitial
<1>3. e \in E => m <= e
  OBVIOUS
<1> QED
  BY <1>1, <1>2, <1>3

Fill(S, rows) == Chunk(Last(S).doc, rows)
Left(S, rows) == On(rows, Dates(rows) \ Fill(S, rows))
Active(S, rows) == [start |-> Last(S).start,
                    doc |-> Join(Last(S).doc, On(rows, Fill(S, rows))),
                    sealed |-> Dates(Left(S, rows)) # {}]
Added(S, rows) == Pack(Total(Front(S) \o << Active(S, rows) >>), Left(S, rows))

LEMMA JoinFacts ==
  ASSUME NEW f \in Docs, NEW g \in Docs
  PROVE  /\ Join(f, g) \in Docs /\ Dates(Join(f, g)) = Dates(f) \cup Dates(g)
         /\ \A d \in Dates(f) : Join(f, g)[d] = f[d]
         /\ \A d \in Dates(g) : d \notin Dates(f) => Join(f, g)[d] = g[d]
<1>1. /\ Dates(f) \subseteq Day /\ f \in [Dates(f) -> Bar]
      /\ Dates(g) \subseteq Day /\ g \in [Dates(g) -> Bar]
  BY DocFacts
<1> DEFINE D == Dates(f) \cup Dates(g)
<1>2. Join(f, g) = [d \in D |-> IF d \in Dates(f) THEN f[d] ELSE g[d]]
  BY DEF Join
<1>3. ASSUME NEW d \in D PROVE (IF d \in Dates(f) THEN f[d] ELSE g[d]) \in Bar
  BY <1>1
<1>4. Join(f, g) \in [D -> Bar] /\ D \in SUBSET Day
  BY <1>1, <1>2, <1>3
<1>5. Dates(Join(f, g)) = D
  BY <1>2 DEF Dates
<1>6. Join(f, g) \in Docs
  BY <1>4 DEF Docs
<1> QED
  BY <1>2, <1>5, <1>6

LEMMA Filled ==
  ASSUME NEW S, NEW com \in Docs, Part(S, com, Dates(com), 0, FALSE), S # << >>,
         NEW rows \in Docs, \A d \in Dates(rows), e \in Dates(com) : e < d
  PROVE  /\ IsInitial(Fill(S, rows), Dates(rows))
         /\ Active(S, rows) \in Shard /\ Front(S) \in ShardSeq
         /\ Dates(Active(S, rows).doc) = Dates(Last(S).doc) \cup Fill(S, rows)
         /\ Part(Front(S) \o << Active(S, rows) >>, Join(com, rows),
                 Dates(com) \cup Fill(S, rows), 0, Active(S, rows).sealed)
         /\ Active(S, rows).sealed <=> Fill(S, rows) # Dates(rows)
         /\ Fill(S, rows) # Dates(rows) =>
              ~Fits(On(Join(com, rows),
                       Dates(Active(S, rows).doc) \cup {Min(Dates(rows) \ Fill(S, rows))}))
<1> DEFINE C == Dates(com)
           last == Last(S)
           bars == Join(com, rows)
           old == last.doc
           fill == Fill(S, rows)
           act == Active(S, rows)
           L == Dates(old) \cup fill
           F == C \ Dates(old)
           e == Min(Dates(rows) \ fill)
<1>1. /\ bars \in Docs /\ Dates(bars) = C \cup Dates(rows)
      /\ \A d \in C : bars[d] = com[d]
      /\ \A d \in Dates(rows) : d \notin C => bars[d] = rows[d]
  BY JoinFacts
<1>2. C \subseteq Nat /\ Dates(rows) \subseteq Nat /\ C \cap Dates(rows) = {}
  <2>1. C \subseteq Nat /\ Dates(rows) \subseteq Nat
    BY DocFacts
  <2> QED
    BY <2>1
<1>3. /\ Len(S) \in DOMAIN S /\ ~last.sealed /\ last \in Shard
      /\ Dates(old) # {} /\ Dates(old) \subseteq C
      /\ old = On(com, Dates(old)) /\ Fits(old)
      /\ Part(Front(S), com, F, 0, TRUE)
      /\ last.start = 0 + Cardinality(F)
      /\ \A d \in F, f \in Dates(old) : d < f
      /\ Front(S) # << >> => Full(Front(S)[Len(Front(S))], last, com)
  BY PartFront
<1>4. fill = Chunk(old, rows)
  BY DEF Fill
<1>5. /\ IsInitial(fill, Dates(rows))
      /\ fill # {} => Fits(Join(old, On(rows, fill)))
      /\ fill # Dates(rows) =>
           /\ e \in Dates(rows) \ fill
           /\ ~Fits(Join(old, On(rows, fill \cup {e})))
  BY <1>4, ChunkFacts
<1>6. fill \subseteq Dates(rows) /\ old \in Docs
  BY <1>3, <1>5 DEF IsInitial, Shard, old
<1>7. /\ act.start = last.start /\ act.doc = Join(old, On(rows, fill))
      /\ act.sealed = (Dates(Left(S, rows)) # {})
  BY DEF Active, Fill
<1> HIDE DEF fill, old, act, bars, e, last
<1>8. ASSUME NEW X \in SUBSET Dates(rows)
      PROVE  /\ Join(old, On(rows, X)) = On(bars, Dates(old) \cup X)
             /\ Dates(Join(old, On(rows, X))) = Dates(old) \cup X
             /\ Join(old, On(rows, X)) \in Docs
  <2>1. On(rows, X) \in Docs /\ Dates(On(rows, X)) = X /\ On(rows, X) = [d \in X |-> rows[d]]
    BY OnFacts DEF On
  <2>2. /\ Join(old, On(rows, X)) \in Docs
        /\ Dates(Join(old, On(rows, X))) = Dates(old) \cup X
    BY <1>6, <2>1, JoinFacts
  <2>3. \A d \in Dates(old) : old[d] = bars[d]
    <3>1. \A d \in Dates(old) : old[d] = com[d]
      BY <1>3 DEF On
    <3> QED
      BY <1>1, <1>3, <3>1
  <2>4. \A d \in X : d \notin Dates(old) /\ On(rows, X)[d] = bars[d]
    BY <1>1, <1>2, <1>3, <2>1
  <2>5. Join(old, On(rows, X)) = [d \in Dates(old) \cup X |-> bars[d]]
    BY <2>1, <2>3, <2>4 DEF Join
  <2> QED
    BY <2>2, <2>5 DEF On
<1>9. act.doc = On(bars, L) /\ Dates(act.doc) = L /\ act.doc \in Docs
  BY <1>6, <1>7, <1>8
<1>10. act.sealed <=> fill # Dates(rows)
  <2>1. Dates(Left(S, rows)) = Dates(rows) \ fill
    BY OnFacts DEF Left, fill
  <2> QED
    BY <1>6, <1>7, <2>1
<1>11. act \in Shard
  <2>1. act.start \in Nat
    BY <1>3, <1>7 DEF Shard
  <2> QED
    BY <1>9, <2>1 DEF Shard, Active, act
<1>12. Fits(act.doc)
  <2>1. CASE fill = {}
    <3>1. act.doc = On(bars, Dates(old) \cup {}) /\ Dates(old) \cup {} = Dates(old)
      BY <1>9, <2>1
    <3>2. old = On(bars, Dates(old))
      <4>1. \A d \in Dates(old) : bars[d] = com[d]
        BY <1>1, <1>3
      <4> QED
        BY <1>3, <4>1 DEF On
    <3> QED
      BY <1>3, <3>1, <3>2
  <2>2. CASE fill # {}
    BY <1>5, <1>7, <2>2
  <2> QED
    BY <2>1, <2>2
<1>13. Cardinality(F) \in Nat
  <2>1. IsFiniteSet(C)
    BY DocFacts
  <2> QED
    BY <2>1, FS_Subset, FS_CardinalityType
<1>14. Part(<< act >>, bars, L, 0 + Cardinality(F), act.sealed)
  <2>1. act.start = 0 + Cardinality(F)
    BY <1>3, <1>7
  <2>2. 0 + Cardinality(F) \in Nat
    BY <1>13
  <2>3. Dates(act.doc) # {}
    BY <1>3, <1>9
  <2> HIDE DEF L
  <2> QED
    BY <1>9, <1>11, <1>12, <2>1, <2>2, <2>3, PartOne
<1>15. Part(Front(S), bars, F, 0, TRUE)
  <2>1. \A d \in F : bars[d] = com[d]
    BY <1>1
  <2> QED
    BY <1>3, <2>1, PartRows
<1>16. \A d \in F, f \in L : d < f
  BY <1>3, <1>6
<1>17. ASSUME Front(S) # << >> PROVE Full(Front(S)[Len(Front(S))], << act >>[1], bars)
  <2> DEFINE A == Front(S)
             prev == Dates(A[Len(A)].doc)
             m == Min(L)
             k == Min(Dates(old))
  <2>1. A \in ShardSeq /\ Len(A) \in DOMAIN A /\ prev \subseteq F
    <3>1. A \in ShardSeq /\ DatesOf(A) = F
      BY <1>3 DEF Part
    <3>2. Len(A) \in DOMAIN A
      BY <1>17, <3>1 DEF ShardSeq
    <3> QED
      BY <3>1, <3>2 DEF DatesOf
  <2>2. m \in L /\ (\A d \in L : m <= d) /\ k \in Dates(old) /\ (\A d \in Dates(old) : k <= d)
    <3>1. L \in SUBSET Nat /\ L # {} /\ Dates(old) \in SUBSET Nat /\ Dates(old) # {}
      BY <1>2, <1>3, <1>6
    <3> HIDE DEF L
    <3> QED
      BY <3>1, SmallestNumber
  <2>3. m = k
    <3>1. m <= k /\ k \in Nat /\ m \in Nat
      BY <1>2, <1>3, <1>6, <2>2
    <3>2. m \in Dates(old)
      <4> SUFFICES ASSUME m \in fill PROVE FALSE
        BY <2>2
      <4>1. m \in Dates(rows) /\ k \in C
        BY <1>3, <1>6, <2>2
      <4>2. k < m
        BY <4>1
      <4> QED
        BY <3>1, <4>2
    <3> QED
      BY <2>2, <3>1, <3>2
  <2>4. ~Fits(On(com, prev \cup {k}))
    BY <1>3, <1>17 DEF Full, old
  <2>5. prev \cup {k} \subseteq C
    BY <1>3, <2>1, <2>2
  <2>6. On(bars, prev \cup {k}) = On(com, prev \cup {k})
    BY <1>1, <2>5 DEF On
  <2> HIDE DEF m, k, prev, A
  <2>7. ~Fits(On(bars, prev \cup {Min(Dates(act.doc))}))
    BY <1>9, <2>3, <2>4, <2>6 DEF m, k
  <2> QED
    BY <2>7 DEF Full, A, prev
<1>18. Part(Front(S) \o << act >>, bars, F \cup L, 0, act.sealed)
  <2>1. << act >> # << >>
    OBVIOUS
  <2>2. 0 \in Nat
    OBVIOUS
  <2> HIDE DEF L, F
  <2> QED
    BY <1>14, <1>15, <1>16, <1>17, <2>1, <2>2, PartJoin
<1>19. F \cup L = C \cup fill
  BY <1>3
<1>20. fill # Dates(rows) => ~Fits(On(bars, L \cup {e}))
  <2> SUFFICES ASSUME fill # Dates(rows) PROVE ~Fits(On(bars, L \cup {e}))
    OBVIOUS
  <2>1. fill \cup {e} \in SUBSET Dates(rows) /\ ~Fits(Join(old, On(rows, fill \cup {e})))
    BY <1>5, <1>6
  <2>2. Join(old, On(rows, fill \cup {e})) = On(bars, Dates(old) \cup (fill \cup {e}))
    BY <1>8, <2>1
  <2>3. Dates(old) \cup (fill \cup {e}) = L \cup {e}
    OBVIOUS
  <2> QED
    BY <2>1, <2>2, <2>3
<1>21. Front(S) \in ShardSeq
  BY <1>3 DEF Part
<1> QED
  BY <1>5, <1>9, <1>10, <1>11, <1>18, <1>19, <1>20, <1>21 DEF fill, old, act, bars, e, last

(* The open shard and the new ones, from all rows.                         *)
LEMMA FilledAndAdded ==
  ASSUME NEW S, NEW com \in Docs, Part(S, com, Dates(com), 0, FALSE), S # << >>,
         NEW rows \in Docs, \A d \in Dates(rows), e \in Dates(com) : e < d
  PROVE  \E D, more :
           /\ Part(Front(S) \o (<< Active(S, rows) >> \o Added(S, rows)), Join(com, rows), D, 0, more)
           /\ << Active(S, rows) >> \o Added(S, rows) \in ShardSeq /\ Front(S) \in ShardSeq
           /\ Packs(Left(S, rows), Added(S, rows)) =>
                more = FALSE /\ D = Dates(com) \cup Dates(rows)
<1> DEFINE C == Dates(com)
           fill == Fill(S, rows)
           act == Active(S, rows)
           new == Added(S, rows)
           left == Left(S, rows)
           bars == Join(com, rows)
           R == Dates(rows) \ fill
           A == Front(S) \o << act >>
           G == C \cup fill
           E == DatesOf(new)
           more == E # R
           L == Dates(act.doc)
<1>1. /\ IsInitial(fill, Dates(rows)) /\ act \in Shard /\ Front(S) \in ShardSeq
      /\ Part(A, bars, G, 0, act.sealed)
      /\ act.sealed <=> fill # Dates(rows)
      /\ L = Dates(Last(S).doc) \cup fill
      /\ fill # Dates(rows) => ~Fits(On(bars, L \cup {Min(R)}))
  BY Filled
<1>2. /\ Dates(com) \subseteq Nat /\ Dates(rows) \subseteq Nat /\ fill \subseteq Dates(rows)
      /\ left \in Docs /\ Dates(left) = R /\ left = On(rows, R)
  <2>1. fill \subseteq Dates(rows)
    BY <1>1 DEF IsInitial
  <2> QED
    BY <2>1, OnFacts, DocFacts DEF Left
<1>3. << act >> \in ShardSeq /\ Len(<< act >>) = 1 /\ << act >>[1] = act
  BY <1>1 DEF ShardSeq
<1>4. /\ A \in ShardSeq /\ A # << >> /\ A[Len(A)] = act
  BY <1>1, <1>3 DEF ShardSeq
<1>5. Total(A) = Cardinality(G) /\ Cardinality(G) \in Nat /\ 0 + Cardinality(G) = Cardinality(G)
  <2>1. Part(A, bars, G, 0, act.sealed)
    BY <1>1
  <2> HIDE DEF A, bars, G, act
  <2>2. Total(A) = Cardinality(G) /\ Cardinality(G) \in Nat
    BY <2>1, PartTotal
  <2> QED
    BY <2>2
<1>6. /\ Part(new, left, E, Cardinality(G), more) /\ IsInitial(E, R)
      /\ Packs(left, new) <=> E = R
  <2>1. new = Pack(Cardinality(G), left)
    BY <1>5 DEF Added
  <2> HIDE DEF new, left, G, R
  <2> QED
    BY <1>2, <1>5, <2>1, PackFacts
<1> HIDE DEF fill, act, new, left, bars, A, L
<1>7. Part(new, bars, E, 0 + Cardinality(G), more)
  <2>1. \A d \in E : bars[d] = left[d]
    <3> SUFFICES ASSUME NEW d \in E PROVE bars[d] = left[d]
      OBVIOUS
    <3>1. d \in R
      BY <1>6 DEF IsInitial
    <3>2. d \notin C /\ left[d] = rows[d]
      BY <1>2, <3>1 DEF On
    <3> QED
      BY <3>1, <3>2, JoinFacts DEF bars
  <2> HIDE DEF E, more
  <2> QED
    BY <1>5, <1>6, <2>1, PartRows
<1>8. \A d \in G, f \in E : d < f
  <2> SUFFICES ASSUME NEW d \in G, NEW f \in E PROVE d < f
    OBVIOUS
  <2>1. f \in Dates(rows) /\ f \notin fill /\ f \in Nat
    BY <1>2, <1>6 DEF IsInitial
  <2>2. CASE d \in C
    BY <2>1, <2>2
  <2>3. CASE d \in fill
    <3>1. ~(f < d) /\ f # d /\ d \in Nat
      BY <1>1, <1>2, <2>1, <2>3 DEF IsInitial
    <3> QED
      BY <2>1, <3>1
  <2> QED
    BY <2>2, <2>3
<1>9. CASE fill = Dates(rows)
  <2>1. R = {} /\ E = {} /\ act.sealed = FALSE /\ G = C \cup Dates(rows)
    <3>1. act.sealed \in BOOLEAN
      BY <1>1 DEF Shard
    <3>2. R = {}
      BY <1>9
    <3>3. E = {}
      BY <1>6, <3>2 DEF IsInitial
    <3>4. act.sealed = FALSE
      BY <1>1, <1>9, <3>1
    <3> QED
      BY <1>9, <3>2, <3>3, <3>4
  <2>2. new = << >>
    BY <1>6, <2>1, PartNone
  <2>3. Front(S) \o (<< act >> \o new) = A /\ << act >> \o new = << act >>
    <3>1. << act >> \in Seq(Shard)
      BY <1>3 DEF ShardSeq
    <3> QED
      BY <2>2, <3>1, ConcatEmptySeq DEF A
  <2>4. Part(A, bars, G, 0, FALSE)
    BY <1>1, <2>1, Zenon
  <2> QED
    BY <1>1, <1>3, <2>1, <2>3, <2>4 DEF act, new, bars
<1>10. CASE fill # Dates(rows)
  <2>1. Part(A, bars, G, 0, TRUE)
    <3>1. act.sealed = TRUE
      <4>1. act.sealed \in BOOLEAN
        BY <1>1 DEF Shard
      <4> QED
        BY <1>1, <1>10, <4>1
    <3> QED
      BY <1>1, <3>1, Zenon
  <2>2. new # << >> => Full(A[Len(A)], new[1], bars)
    <3> SUFFICES ASSUME new # << >> PROVE Full(A[Len(A)], new[1], bars)
      OBVIOUS
    <3> DEFINE m == Min(Dates(new[1].doc))
               e == Min(R)
    <3>1. m \in E /\ \A d \in E : m <= d
      BY <1>6, PartFirst
    <3>2. e \in R /\ \A d \in R : e <= d
      <4>1. R \in SUBSET Nat /\ R # {}
        BY <1>2, <1>10
      <4> HIDE DEF R
      <4> QED
        BY <4>1, SmallestNumber
    <3>3. R \in SUBSET Nat
      BY <1>2
    <3> HIDE DEF m, e, E, R
    <3>4. m = e
      BY <1>6, <3>1, <3>2, <3>3, FirstOfInitial
    <3> QED
      BY <1>1, <1>4, <1>10, <3>4 DEF Full, m, e, L
  <2>3. new # << >> \/ more
    <3> SUFFICES ASSUME new = << >> PROVE E # R
      OBVIOUS
    <3>1. E = {}
      BY DEF DatesOf
    <3> QED
      BY <1>2, <1>10, <3>1
  <2> HIDE DEF more, G, E
  <2>4. Part(A \o new, bars, G \cup E, 0, more)
    BY <1>7, <1>8, <2>1, <2>2, <2>3, PartJoin
  <2>5. A \o new = Front(S) \o (<< act >> \o new) /\ << act >> \o new \in ShardSeq
    <3>1. Front(S) \in Seq(Shard) /\ << act >> \in Seq(Shard) /\ new \in Seq(Shard)
      BY <1>1, <1>3, <1>6 DEF Part, ShardSeq
    <3> QED
      BY <3>1, ConcatAssociative, ConcatProperties DEF A, ShardSeq
  <2>6. Packs(left, new) => more = FALSE /\ G \cup E = C \cup Dates(rows)
    BY <1>2, <1>6 DEF more, G
  <2> QED
    BY <1>1, <2>4, <2>5, <2>6 DEF act, new, left, bars
<1> QED
  BY <1>9, <1>10

-----------------------------------------------------------------------------
(* What each writer plans.                                                 *)
SeriesGood == index # None => Good(index)

LEMMA SeriesFacts ==
  ASSUME SeriesGood
  PROVE  /\ Shards \in ShardSeq /\ Committed \in Docs /\ DatesOf(Shards) = Dates(Committed)
         /\ Part(Shards, Committed, Dates(Committed), 0, FALSE)
         /\ Segments(Lineage, Cardinality(Dates(Committed)))
         /\ Total(Shards) = Cardinality(Dates(Committed))
         /\ Cardinality(Dates(Committed)) \in Nat
         /\ index = None => Shards = << >> /\ Lineage = << >> /\ Dates(Committed) = {}
         /\ index # None => /\ Shards # << >> /\ Dates(Committed) # {}
                            /\ index.count = Cardinality(Dates(Committed))
<1>1. Shards \in ShardSeq
  <2>1. CASE index = None
    BY <2>1 DEF Shards, ShardSeq
  <2>2. CASE index # None
    BY <2>2 DEF Shards, SeriesGood, Good, Part
  <2> QED
    BY <2>1, <2>2
<1>2. Committed \in Docs /\ Dates(Committed) = DatesOf(Shards)
  BY <1>1, BarsAreDoc DEF Committed
<1>3. CASE index = None
  <2>1. Shards = << >> /\ Lineage = << >>
    BY <1>3 DEF Shards, Lineage
  <2>2. DatesOf(Shards) = {}
    BY <2>1 DEF DatesOf
  <2>3. Part(Shards, Committed, Dates(Committed), 0, FALSE)
    BY <1>2, <2>1, <2>2, PartEmpty
  <2>4. Cardinality(Dates(Committed)) = 0
    BY <1>2, <2>2, FS_EmptySet
  <2>5. Segments(Lineage, 0)
    BY <2>1 DEF Segments, LineageSeq
  <2>6. Total(Shards) = Cardinality(Dates(Committed))
    BY <2>3, PartTotal
  <2>7. Segments(Lineage, Cardinality(Dates(Committed))) /\ Cardinality(Dates(Committed)) \in Nat
    BY <2>4, <2>5
  <2>8. Dates(Committed) = {}
    BY <1>2, <2>2
  <2> QED
    BY <1>1, <1>2, <1>3, <2>1, <2>3, <2>6, <2>7, <2>8
<1>4. CASE index # None
  <2>1. Good(index) /\ Shards = index.shards /\ Lineage = index.lineage
    BY <1>4 DEF SeriesGood, Shards, Lineage
  <2>2. /\ Part(Shards, Committed, Dates(Committed), 0, FALSE)
        /\ Segments(Lineage, Cardinality(Dates(Committed)))
        /\ Shards # << >> /\ index.count = Cardinality(Dates(Committed))
    BY <1>2, <2>1 DEF Good, Committed
  <2>3. Dates(Committed) # {}
    BY <2>2, PartNone
  <2>4. Total(Shards) = Cardinality(Dates(Committed)) /\ Cardinality(Dates(Committed)) \in Nat
    BY <2>2, PartTotal
  <2> QED
    BY <1>1, <1>2, <1>4, <2>2, <2>3, <2>4
<1> QED
  BY <1>3, <1>4

LEMMA OnAll ==
  ASSUME NEW f \in Docs
  PROVE  On(f, Dates(f)) = f
BY DocFacts DEF On

NoArchive(ws) == \A j \in DOMAIN ws : ws[j].kind # "archive"

(* A plan that only writes shards and the index.                           *)
LEMMA PutsMade ==
  ASSUME NEW kept \in ShardSeq, NEW put \in ShardSeq, NEW bars, NEW D, NEW more,
         NEW post, Part(kept \o put, bars, D, 0, more),
         NEW fs, \A k \in DOMAIN kept : fs[kept[k].start] = kept[k].doc,
         Closes(post, kept \o put, bars, D), post # << >> => bars = On(bars, D)
  PROVE  /\ Sound(PutShards(put) \o post, fs) /\ Bears(PutShards(put) \o post, bars)
         /\ NoArchive(PutShards(put) \o post)
<1> DEFINE w == Plan(<< >>, put, post)
           ws == PutShards(put) \o post
<1>1. ws = w
  <2>1. \A k \in DOMAIN put : put[k].start \in Start
    <3> DEFINE S == kept \o put
    <3>1. \A k \in DOMAIN S : S[k].start \in Start
      BY PartStarts
    <3>2. \A k \in DOMAIN put : k + Len(kept) \in DOMAIN S /\ S[k + Len(kept)] = put[k]
      BY DEF ShardSeq
    <3> QED
      BY <3>1, <3>2
  <2>2. PutShards(put) \in Seq(WriteOps)
    BY <2>1, PutShardsFacts
  <2>3. << >> \o PutShards(put) = PutShards(put)
    BY <2>2, ConcatEmptySeq
  <2> QED
    BY <2>3 DEF Plan
<1>2. << >> \in Seq(WriteOps) /\ DOMAIN << >> = {} /\ Clears(<< >>)
  BY DEF Clears
<1>3. /\ Sound(w, fs)
      /\ \A b : (post # << >> => b = On(bars, D)) => Bears(w, b)
      /\ \A j \in DOMAIN w : w[j].kind = "archive" => j \in DOMAIN << >>
  BY <1>2, PlanSound DEF OneEmpty, Opens
<1> HIDE DEF w
<1>5. Bears(w, bars)
  BY <1>3
<1>6. \A j \in DOMAIN w : w[j].kind # "archive"
  BY <1>2, <1>3
<1> QED
  BY <1>1, <1>3, <1>5, <1>6 DEF NoArchive

LEMMA AddedSeq ==
  ASSUME NEW S, NEW com \in Docs, Part(S, com, Dates(com), 0, FALSE), S # << >>,
         NEW rows \in Docs, \A d \in Dates(rows), e \in Dates(com) : e < d
  PROVE  Added(S, rows) \in ShardSeq
<1> DEFINE A == Front(S) \o << Active(S, rows) >>
           G == Dates(com) \cup Fill(S, rows)
<1>1. /\ IsInitial(Fill(S, rows), Dates(rows))
      /\ Part(A, Join(com, rows), G, 0, Active(S, rows).sealed)
  BY Filled
<1>2. Left(S, rows) \in Docs
  BY <1>1, OnFacts DEF IsInitial, Left
<1>3. Total(A) \in Nat
  <2> HIDE DEF A, G
  <2> QED
    BY <1>1, PartTotal
<1> QED
  BY <1>2, <1>3, PackFacts DEF Added, Part

LEMMA AppendPlan ==
  ASSUME SeriesGood, Readable, NEW rows \in Docs, Dates(rows) # {},
         \A d \in Dates(rows) : After(d, Dates(Committed))
  PROVE  /\ Sound(AppendWrites(rows), files)
         /\ Bears(AppendWrites(rows), Join(Committed, rows))
         /\ NoArchive(AppendWrites(rows))
<1> DEFINE C == Dates(Committed)
           n == Cardinality(Dates(rows))
           done == Segment(Total(Shards), n)
           bars == Join(Committed, rows)
<1>1. /\ Shards \in ShardSeq /\ Committed \in Docs /\ Part(Shards, Committed, C, 0, FALSE)
      /\ Segments(Lineage, Cardinality(C)) /\ Total(Shards) = Cardinality(C)
      /\ Cardinality(C) \in Nat
      /\ index = None => Shards = << >> /\ Lineage = << >> /\ C = {}
      /\ index # None => Shards # << >>
  BY SeriesFacts
<1>2. /\ n \in Nat \ {0} /\ IsFiniteSet(Dates(rows)) /\ IsFiniteSet(C)
      /\ C \cap Dates(rows) = {} /\ C \subseteq Nat /\ Dates(rows) \subseteq Nat
      /\ \A d \in Dates(rows), e \in C : e < d
  <2>1. IsFiniteSet(Dates(rows)) /\ IsFiniteSet(C) /\ C \subseteq Nat /\ Dates(rows) \subseteq Nat
    BY <1>1, DocFacts
  <2>2. n \in Nat \ {0}
    BY <2>1, FS_CardinalityType, FS_EmptySet
  <2>3. \A d \in Dates(rows), e \in C : e < d
    BY <2>1 DEF After
  <2>4. C \cap Dates(rows) = {}
    BY <2>1, <2>3
  <2> QED
    BY <2>1, <2>2, <2>3, <2>4
<1>3. Cardinality(C \cup Dates(rows)) = Cardinality(C) + n
  BY <1>2, DisjointUnion
<1>4. Segments(Lineage \o done, Cardinality(C \cup Dates(rows)))
  <2>1. Segments(Segment(0, n), n) /\ done = ShiftLineage(Segment(0, n), Cardinality(C))
    BY <1>1, <1>2, SegmentOne
  <2>2. n \in Nat
    BY <1>2
  <2> HIDE DEF done, n, C
  <2>3. Segments(Lineage \o ShiftLineage(Segment(0, n), Cardinality(C)), Cardinality(C) + n)
    BY <1>1, <2>1, <2>2, SegmentsShift
  <2> QED
    BY <1>3, <2>1, <2>3
<1>5. bars \in Docs /\ Dates(bars) = C \cup Dates(rows) /\ On(bars, C \cup Dates(rows)) = bars
  <2>1. bars \in Docs /\ Dates(bars) = C \cup Dates(rows)
    BY <1>1, JoinFacts
  <2> HIDE DEF bars
  <2> QED
    BY <2>1, OnAll
<1>6. << >> \in Seq(WriteOps) /\ DOMAIN << >> = {}
  OBVIOUS
<1>7. ASSUME NEW S, Part(S, bars, C \cup Dates(rows), 0, FALSE)
      PROVE  Closes(PutIndex(S, Lineage \o done), S, bars, C \cup Dates(rows))
  <2>1. C \cup Dates(rows) # {}
    OBVIOUS
  <2> HIDE DEF bars, C, done
  <2> QED
    BY <1>4, <1>7, <2>1 DEF Closes
<1>8. CASE index = None
  <2> DEFINE new == Pack(0, rows)
             fits == Packs(rows, new)
             D == DatesOf(new)
             more == D # Dates(rows)
  <2>1. /\ Part(new, rows, D, 0, more)
        /\ fits <=> D = Dates(rows)
    BY PackFacts
  <2>2. Shards = << >> /\ Lineage = << >> /\ C = {}
    BY <1>1, <1>8
  <2>3. << >> \in ShardSeq /\ << >> \in Seq(Shard) /\ DOMAIN << >> = {} /\ new \in Seq(Shard)
    <3>1. new \in ShardSeq
      BY <2>1 DEF Part
    <3> HIDE DEF new
    <3> QED
      BY <3>1 DEF ShardSeq
  <2>4. << >> \o << >> = << >> /\ << >> \o new = new
    BY <2>3, ConcatEmptySeq
  <2>5. Total(<< >>) = 0
    BY <1>1, <2>2, FS_EmptySet
  <2>6. bars = rows
    <3>1. Dates(Committed) = {} /\ rows = [d \in Dates(rows) |-> rows[d]]
      BY <2>2, OnAll DEF On
    <3> QED
      BY <3>1 DEF Join
  <2>7. On(rows, Dates(rows) \ {}) = rows
    <3>1. Dates(rows) \ {} = Dates(rows)
      OBVIOUS
    <3> QED
      BY <3>1, OnAll
  <2>8. ~(Shards # << >> /\ ~Last(Shards).sealed)
    BY <2>2
  <2>9. AppendWrites(rows) =
          PutShards(<< >> \o new) \o
          (IF fits THEN PutIndex(<< >> \o << >> \o new, Lineage \o done) ELSE << >>)
    BY <2>2, <2>4, <2>5, <2>7, <2>8 DEF AppendWrites
  <2> HIDE DEF new, fits, D, done
  <2> DEFINE kept == << >>
             put == << >> \o new
             post == IF fits THEN PutIndex(kept \o put, Lineage \o done) ELSE << >>
  <2>10. kept \in ShardSeq /\ put \in ShardSeq /\ kept \o put = new /\ DOMAIN kept = {}
    BY <2>3, <2>4 DEF ShardSeq
  <2>11. AppendWrites(rows) = PutShards(put) \o post
    BY <2>4, <2>9
  <2> HIDE DEF kept, put, bars
  <2>12. Part(kept \o put, bars, D, 0, more)
    BY <2>1, <2>6, <2>10
  <2>13. fits => D = C \cup Dates(rows) /\ more = FALSE
    BY <2>1, <2>2
  <2>14. Closes(post, kept \o put, bars, D)
    <3>1. CASE fits
      <4>1. Part(kept \o put, bars, D, 0, FALSE)
        BY <2>12, <2>13, <3>1, Zenon
      <4>2. D = C \cup Dates(rows) /\ post = PutIndex(kept \o put, Lineage \o done)
        BY <2>13, <3>1
      <4> HIDE DEF post, C
      <4> QED
        BY <1>7, <4>1, <4>2
    <3>2. CASE ~fits
      BY <3>2 DEF Closes
    <3> QED
      BY <3>1, <3>2
  <2>15. post # << >> => D = C \cup Dates(rows)
    BY <2>13
  <2>16. \A k \in DOMAIN kept : files[kept[k].start] = kept[k].doc
    BY <2>10
  <2>17. post # << >> => bars = On(bars, D)
    BY <1>5, <2>15
  <2> DEFINE ws == PutShards(put) \o post
  <2> HIDE DEF post, more
  <2>19. Sound(ws, files) /\ Bears(ws, bars) /\ NoArchive(ws)
    BY <2>10, <2>12, <2>14, <2>16, <2>17, PutsMade
  <2> QED
    BY <2>11, <2>19 DEF bars
<1>9. CASE index # None
  <2> DEFINE act == Active(Shards, rows)
             new == Added(Shards, rows)
             put == << act >> \o new
             fits == Packs(Left(Shards, rows), new)
             kept == Front(Shards)
             last == Last(Shards)
  <2>1. /\ Shards # << >> /\ Len(Shards) \in DOMAIN Shards /\ ~last.sealed
        /\ last = Shards[Len(Shards)]
        /\ kept \o << last >> = Shards
    <3>1. Shards # << >> /\ 0 \in Nat
      BY <1>1, <1>9
    <3> HIDE DEF C
    <3> QED
      BY <1>1, <3>1, PartFront DEF Last
  <2>2. \E D, more :
          /\ Part(kept \o put, bars, D, 0, more)
          /\ put \in ShardSeq /\ kept \in ShardSeq
          /\ fits => more = FALSE /\ D = C \cup Dates(rows)
    BY <1>1, <1>2, <2>1, FilledAndAdded
  <2>3. files[last.start] = last.doc
    BY <2>1 DEF Readable
  <2>4. \A k \in DOMAIN kept : files[kept[k].start] = kept[k].doc
    <3>1. kept \in Seq(Shard) /\ << last >> \in Seq(Shard)
      <4>1. last \in Shard
        BY <1>1, <2>1 DEF ShardSeq
      <4> QED
        BY <2>2, <4>1 DEF ShardSeq
    <3>2. \A k \in DOMAIN kept : k \in DOMAIN Shards /\ kept[k] = Shards[k]
      <4> HIDE DEF kept, last
      <4> QED
        BY <2>1, <3>1
    <3> QED
      BY <3>2 DEF Readable
  <2>5. /\ Shards # << >> /\ ~Last(Shards).sealed
        /\ Shards[LastShard].start = last.start
        /\ Chunk(files[last.start], rows) = Fill(Shards, rows)
        /\ On(rows, Dates(rows) \ Fill(Shards, rows)) = Left(Shards, rows)
        /\ [start |-> last.start, doc |-> Join(files[last.start], On(rows, Fill(Shards, rows))),
             sealed |-> Dates(Left(Shards, rows)) # {}] = act
        /\ Pack(Total(kept \o << act >>), Left(Shards, rows)) = new
    BY <2>1, <2>3 DEF LastShard, Fill, Left, Active, Added
  <2> DEFINE post == IF fits THEN PutIndex(kept \o << act >> \o new, Lineage \o done) ELSE << >>
  <2>6. AppendWrites(rows) = PutShards(put) \o post
    <3> HIDE DEF act, new, last, C, bars
    <3>1. AppendWrites(rows) =
            PutShards(<< act >> \o new) \o
            (IF Packs(Left(Shards, rows), new)
             THEN PutIndex(Front(Shards) \o << act >> \o new, Lineage \o Segment(Total(Shards), n))
             ELSE << >>)
      BY <2>5 DEF AppendWrites
    <3> QED
      BY <3>1
  <2>7. PICK D, more :
          /\ Part(kept \o put, bars, D, 0, more)
          /\ put \in ShardSeq /\ kept \in ShardSeq
          /\ fits => more = FALSE /\ D = C \cup Dates(rows)
    BY <2>2
  <2>8. kept \o << act >> \o new = kept \o put
    <3>1. << act >> \in Seq(Shard) /\ new \in Seq(Shard) /\ kept \in Seq(Shard)
      <4>1. act \in Shard /\ kept \in ShardSeq
        BY <1>1, <1>2, <2>1, Filled
      <4>2. new \in ShardSeq
        BY <1>1, <1>2, <2>1, AddedSeq
      <4> QED
        BY <4>1, <4>2 DEF ShardSeq
    <3> QED
      BY <3>1, ConcatAssociative
  <2> HIDE DEF put, bars, kept, fits, done
  <2>9. fits => Closes(post, kept \o put, bars, D)
    <3> SUFFICES ASSUME fits PROVE Closes(post, kept \o put, bars, D)
      OBVIOUS
    <3>1. Part(kept \o put, bars, D, 0, FALSE)
      BY <2>7, Zenon
    <3>2. D = C \cup Dates(rows) /\ post = PutIndex(kept \o put, Lineage \o done)
      BY <2>7, <2>8
    <3> HIDE DEF post, C
    <3> QED
      BY <1>7, <3>1, <3>2
  <2>10. ~fits => Closes(post, kept \o put, bars, D)
    BY DEF Closes
  <2>11. Part(kept \o put, bars, D, 0, more) /\ put \in ShardSeq /\ kept \in ShardSeq
    BY <2>7
  <2>12. Closes(post, kept \o put, bars, D)
    BY <2>9, <2>10
  <2>13. post # << >> => bars = On(bars, D)
    BY <1>5, <2>7
  <2> DEFINE ws == PutShards(put) \o post
  <2> HIDE DEF post
  <2>14. Sound(ws, files) /\ Bears(ws, bars) /\ NoArchive(ws)
    BY <2>4, <2>11, <2>12, <2>13, PutsMade
  <2> QED
    BY <2>6, <2>14 DEF bars
<1> QED
  BY <1>8, <1>9

(* Replacing all shards.                                                   *)
LEMMA UnlinksFacts ==
  ASSUME NEW S \in ShardSeq, \A k \in DOMAIN S : S[k].start \in Start
  PROVE  /\ Unlinks(S) \in Seq(WriteOps) /\ Clears(Unlinks(S)) /\ NoArchive(Unlinks(S))
<1> DEFINE Q == Unlinks(S)
           e(k) == [kind |-> "unlink", at |-> S[k].start]
<1>1. Len(S) \in Nat /\ DOMAIN S = 1 .. Len(S)
  BY ShardSeqFacts
<1>2. Q = [k \in 1 .. Len(S) |-> e(k)]
  BY <1>1 DEF Unlinks
<1>3. \A k \in 1 .. Len(S) : e(k) \in WriteOps
  BY <1>1 DEF WriteOps
<1>4. \A k \in 1 .. Len(S) : e(k).kind = "unlink"
  OBVIOUS
<1> HIDE DEF Q, e
<1>5. Q \in Seq(WriteOps) /\ Len(Q) = Len(S)
  BY <1>1, <1>2, <1>3
<1>6. \A j \in DOMAIN Q : Q[j].kind = "unlink"
  BY <1>1, <1>2, <1>4
<1> QED
  BY <1>5, <1>6 DEF Q, Clears, NoArchive

LEMMA SwapMade ==
  ASSUME NEW pre, Clears(pre), NEW fs, NEW rows \in Docs, Dates(rows) # {},
         NEW S, Part(S, rows, Dates(rows), 0, FALSE),
         NEW lineage, Segments(lineage, Cardinality(Dates(rows)))
  PROVE  /\ Sound(Plan(pre, S, PutIndex(S, lineage)), fs)
         /\ Bears(Plan(pre, S, PutIndex(S, lineage)), rows)
         /\ Opens(Plan(pre, S, PutIndex(S, lineage)), pre)
<1> DEFINE D == Dates(rows)
           post == PutIndex(S, lineage)
           kept == << >>
           more == FALSE
           ws == Plan(pre, S, post)
<1>1. S \in ShardSeq /\ kept \in ShardSeq /\ DOMAIN kept = {}
  BY DEF Part, ShardSeq
<1>2. kept \o S = S
  BY <1>1, ConcatEmptySeq DEF ShardSeq
<1>3. \A k \in DOMAIN kept : fs[kept[k].start] = kept[k].doc
  BY <1>1
<1>4. Closes(post, S, rows, D)
  <2> HIDE DEF D
  <2> QED
    BY DEF Closes, D
<1>5. On(rows, D) = rows
  BY OnAll
<1>6. OneEmpty(kept, pre)
  BY DEF OneEmpty
<1>7. Part(kept \o S, rows, D, 0, more)
  BY <1>2
<1>8. Closes(post, kept \o S, rows, D)
  BY <1>2, <1>4
<1> HIDE DEF kept, post, D, more
<1>9. /\ Sound(ws, fs)
      /\ \A bars : (post # << >> => bars = On(rows, D)) => Bears(ws, bars)
      /\ Opens(ws, pre)
  BY <1>1, <1>3, <1>6, <1>7, <1>8, PlanSound
<1> QED
  BY <1>5, <1>9 DEF post

LEMMA Packed ==
  ASSUME NEW rows \in Docs, Packs(rows, Pack(0, rows))
  PROVE  Part(Pack(0, rows), rows, Dates(rows), 0, FALSE)
<1> DEFINE new == Pack(0, rows)
           D == DatesOf(new)
           more == D # Dates(rows)
<1>1. Part(new, rows, D, 0, more) /\ D = Dates(rows)
  BY PackFacts
<1>2. more = FALSE
  BY <1>1
<1> HIDE DEF new, D, more
<1>3. Part(new, rows, Dates(rows), 0, FALSE)
  BY <1>1, <1>2, Zenon
<1> QED
  BY <1>3 DEF new

LEMMA ExtendPlan ==
  ASSUME SeriesGood, index # None, NEW rows \in Docs, VerifiedBaseline(rows),
         Packs(rows, Pack(0, rows))
  PROVE  /\ Sound(ExtendWrites(rows), files) /\ Bears(ExtendWrites(rows), rows)
         /\ NoArchive(ExtendWrites(rows))
<1> DEFINE C == Dates(Committed)
           P == {d \in Dates(rows) : Before(d, C)}
           Q == {d \in Dates(rows) : After(d, C)}
           p == Cardinality(P)
           q == Cardinality(Q)
           c == Cardinality(C)
           n == Cardinality(Dates(rows))
           new == Pack(0, rows)
           head == IF p > 0 THEN Segment(0, p) ELSE << >>
           tail == IF q > 0 THEN Segment(n - q, q) ELSE << >>
           middle == head \o ShiftLineage(Lineage, p)
           lineage == middle \o tail
<1>1. /\ Shards \in ShardSeq /\ Committed \in Docs /\ Part(Shards, Committed, C, 0, FALSE)
      /\ Segments(Lineage, c) /\ c \in Nat /\ C # {}
  BY SeriesFacts
<1>2. /\ IsFiniteSet(Dates(rows)) /\ Dates(rows) \subseteq Nat /\ C \subseteq Dates(rows)
      /\ IsFiniteSet(C) /\ Dates(rows) # {}
  BY <1>1, DocFacts DEF VerifiedBaseline
<1>3. /\ Dates(rows) = (P \cup C) \cup Q /\ P \cap C = {} /\ (P \cup C) \cap Q = {}
      /\ IsFiniteSet(P) /\ IsFiniteSet(Q)
  <2>1. Dates(rows) = (P \cup C) \cup Q
    BY <1>2 DEF VerifiedBaseline
  <2>2. P \cap C = {}
    BY <1>2 DEF Before
  <2>3. Q \cap C = {}
    BY <1>2 DEF After
  <2>4. P \cap Q = {}
    <3> SUFFICES ASSUME NEW d \in P, d \in Q PROVE FALSE
      OBVIOUS
    <3>1. PICK e \in C : TRUE
      BY <1>1
    <3> QED
      BY <1>2, <3>1 DEF Before, After
  <2>5. IsFiniteSet(P) /\ IsFiniteSet(Q)
    BY <1>2, FS_Subset
  <2> HIDE DEF P, Q, C
  <2> QED
    BY <2>1, <2>2, <2>3, <2>4, <2>5
<1>4. p \in Nat /\ q \in Nat /\ c \in Nat /\ n = (p + c) + q
  <2>1. IsFiniteSet(P \cup C)
    BY <1>2, <1>3, FS_Union
  <2> HIDE DEF P, Q, C
  <2>2. Cardinality(P \cup C) = p + c /\ p \in Nat /\ c \in Nat
    BY <1>2, <1>3, DisjointUnion
  <2>3. Cardinality((P \cup C) \cup Q) = Cardinality(P \cup C) + q /\ q \in Nat
    BY <1>3, <2>1, DisjointUnion
  <2> QED
    BY <1>3, <2>2, <2>3
<1> HIDE DEF P, Q, C, p, q, c, n
<1>5. Segments(head, p)
  <2>1. CASE p > 0
    BY <1>4, <2>1, SegmentOne
  <2>2. CASE ~(p > 0)
    <3>1. p = 0 /\ head = << >>
      BY <1>4, <2>2
    <3> QED
      BY <3>1 DEF Segments, LineageSeq
  <2> QED
    BY <2>1, <2>2
<1> HIDE DEF head
<1>6. Segments(middle, p + c)
  BY <1>1, <1>4, <1>5, SegmentsShift
<1> HIDE DEF middle
<1>7. Segments(lineage, n)
  <2>1. CASE q > 0
    <3> DEFINE m == p + c
    <3>1. m \in Nat /\ n = m + q /\ n - q = m /\ q \in Nat \ {0}
      BY <1>4, <2>1
    <3>2. Segments(middle, m)
      BY <1>6
    <3> HIDE DEF m
    <3>3. tail = ShiftLineage(Segment(0, q), m) /\ Segments(Segment(0, q), q)
      BY <2>1, <3>1, SegmentOne
    <3> HIDE DEF tail
    <3>4. Segments(middle \o ShiftLineage(Segment(0, q), m), m + q)
      BY <3>1, <3>2, <3>3, SegmentsShift
    <3> QED
      BY <3>1, <3>3, <3>4
  <2>2. CASE ~(q > 0)
    <3>1. n = p + c /\ tail = << >>
      BY <1>4, <2>2
    <3>2. lineage = middle
      BY <1>6, <3>1, ConcatEmptySeq DEF Segments, LineageSeq
    <3> QED
      BY <1>6, <3>1, <3>2
  <2> QED
    BY <2>1, <2>2
<1>8. ExtendWrites(rows) = Plan(Unlinks(Shards), new, PutIndex(new, lineage))
  <2>1. ExtendWrites(rows) =
          SwapShards(Shards, new) \o
          PutIndex(new, (IF p > 0 THEN Segment(0, p) ELSE << >>) \o
                        ShiftLineage(Lineage, p) \o
                        (IF q > 0 THEN Segment(n - q, q) ELSE << >>))
    BY DEF ExtendWrites, p, q, n, P, Q, C
  <2> QED
    BY <2>1 DEF SwapShards, Plan, middle, head
<1>9. Part(new, rows, Dates(rows), 0, FALSE)
  BY Packed
<1>10. Clears(Unlinks(Shards)) /\ NoArchive(Unlinks(Shards))
  BY <1>1, PartStarts, UnlinksFacts
<1> DEFINE pre == Unlinks(Shards)
           ws == Plan(pre, new, PutIndex(new, lineage))
<1>11. Segments(lineage, Cardinality(Dates(rows)))
  BY <1>7 DEF n
<1> HIDE DEF pre, new, lineage
<1>12. /\ Sound(ws, files) /\ Bears(ws, rows)
       /\ Opens(ws, pre)
  BY <1>2, <1>9, <1>10, <1>11, SwapMade DEF pre
<1>13. NoArchive(ws)
  BY <1>10, <1>12 DEF NoArchive, Opens, pre
<1> QED
  BY <1>8, <1>12, <1>13 DEF pre

ArchiveFirst(ws, bars) ==
  /\ ws # << >> /\ Head(ws).kind = "archive"
  /\ \A j \in DOMAIN ws : ws[j].kind = "archive" => ws[j].bars = bars

LEMMA ReplacePlan ==
  ASSUME SeriesGood, NEW rows \in Docs, Dates(rows) # {}
  PROVE  /\ Sound(ReplaceWrites(rows), files) /\ Bears(ReplaceWrites(rows), rows)
         /\ ArchiveFirst(ReplaceWrites(rows), Committed)
<1> DEFINE w == [kind |-> "archive", bars |-> Committed]
           a == << w >>
           u == Unlinks(Shards)
           new == Pack(0, rows)
           n == Cardinality(Dates(rows))
           x == PutIndex(new, Segment(0, n))
           ws == ReplaceWrites(rows)
<1>1. /\ Shards \in ShardSeq /\ Committed \in Docs
      /\ Part(Shards, Committed, Dates(Committed), 0, FALSE)
  BY SeriesFacts
<1>2. w \in WriteOps /\ a \in Seq(WriteOps) /\ Len(a) = 1 /\ DOMAIN a = {1} /\ a[1] = w
  BY <1>1 DEF WriteOps
<1>3. u \in Seq(WriteOps) /\ Clears(u) /\ NoArchive(u)
  BY <1>1, PartStarts, UnlinksFacts
<1>4. w.kind = "archive" /\ w.bars = Committed
  OBVIOUS
<1>5. CASE ~Packs(rows, new)
  <2>1. ws = a
    <3>1. ws = a \o << >>
      BY <1>5 DEF ReplaceWrites
    <3> HIDE DEF a, ws
    <3> QED
      BY <1>2, <3>1, ConcatEmptySeq
  <2> HIDE DEF ws, a, w
  <2>2. Sound(ws, files) /\ Bears(ws, rows)
    BY <1>2, <1>4, <2>1 DEF Sound, Bears
  <2>3. ArchiveFirst(ws, Committed)
    BY <1>2, <1>4, <2>1 DEF ArchiveFirst
  <2> QED
    BY <2>2, <2>3 DEF ws
<1>6. CASE Packs(rows, new)
  <2> DEFINE pre == a \o u
  <2>1. Part(new, rows, Dates(rows), 0, FALSE)
    BY <1>6, Packed
  <2>2. n \in Nat \ {0}
    BY DocFacts, FS_CardinalityType, FS_EmptySet
  <2>3. Segments(Segment(0, n), n)
    BY <2>2, SegmentOne
  <2>4. PutShards(new) \in Seq(WriteOps) /\ x \in Seq(WriteOps)
    <3>1. new \in ShardSeq /\ \A k \in DOMAIN new : new[k].start \in Start
      BY <2>1, PartStarts DEF Part
    <3> DEFINE i == [shards |-> new, lineage |-> Segment(0, n), count |-> Total(new)]
    <3>2. Good(i)
      <4> HIDE DEF new
      <4> QED
        BY <2>1, <2>3, IndexMade
    <3>3. x = << [kind |-> "index", index |-> i] >>
      BY DEF PutIndex
    <3> HIDE DEF i, new, x
    <3>4. [kind |-> "index", index |-> i] \in WriteOps
      BY <3>2 DEF Good, WriteOps
    <3>5. x \in Seq(WriteOps)
      BY <3>3, <3>4
    <3> QED
      BY <3>1, <3>5, PutShardsFacts
  <2>5. ws = Plan(pre, new, x)
    <3> DEFINE b == PutShards(new)
    <3>1. ws = a \o ((u \o b) \o x)
      BY <1>6 DEF ReplaceWrites, SwapShards
    <3>2. b \in Seq(WriteOps) /\ x \in Seq(WriteOps)
      BY <2>4
    <3> HIDE DEF a, u, b, x, w
    <3>6. a \in Seq(WriteOps) /\ u \in Seq(WriteOps)
      BY <1>2, <1>3
    <3>3. /\ u \o b \in Seq(WriteOps) /\ u \o b \o x = u \o (b \o x) /\ b \o x \in Seq(WriteOps)
          /\ a \o u \in Seq(WriteOps)
      BY <1>2, <1>3, <3>2, ConcatAssociative, ConcatProperties
    <3>4. (a \o u) \o b \o x = (a \o u) \o (b \o x)
      BY <3>2, <3>3, ConcatAssociative
    <3>5. (a \o u) \o (b \o x) = a \o (u \o (b \o x))
      <4> DEFINE y == b \o x
      <4>1. y \in Seq(WriteOps)
        BY <3>3
      <4> HIDE DEF y
      <4>2. (a \o u) \o y = a \o (u \o y)
        BY <3>6, <4>1, ConcatAssociative
      <4> QED
        BY <4>2 DEF y
    <3> QED
      BY <3>1, <3>3, <3>4, <3>5 DEF Plan, b
  <2> HIDE DEF a, u, w, new, ws
  <2>6. /\ pre \in Seq(WriteOps) /\ 1 \in DOMAIN pre /\ pre[1] = w
        /\ \A j \in DOMAIN pre : j # 1 => pre[j].kind = "unlink"
        /\ Clears(pre)
    <3>1. /\ pre \in Seq(WriteOps) /\ Len(pre) = Len(a) + Len(u)
          /\ \A j \in 1 .. Len(a) + Len(u) : pre[j] = IF j <= Len(a) THEN a[j] ELSE u[j - Len(a)]
      BY <1>2, <1>3, ConcatProperties
    <3> HIDE DEF pre
    <3>2. Len(u) \in Nat /\ DOMAIN u = 1 .. Len(u) /\ DOMAIN pre = 1 .. 1 + Len(u)
      BY <1>2, <1>3, <3>1
    <3>3. 1 \in DOMAIN pre /\ pre[1] = w
      BY <1>2, <3>1, <3>2
    <3>4. ASSUME NEW j \in DOMAIN pre, j # 1 PROVE pre[j].kind = "unlink"
      <4>1. j - 1 \in DOMAIN u /\ pre[j] = u[j - 1]
        BY <1>2, <3>1, <3>2, <3>4
      <4>2. u[j - 1].kind \in {"unlink", "archive"} /\ u[j - 1].kind # "archive"
        BY <1>3, <4>1 DEF Clears, NoArchive
      <4> QED
        BY <4>1, <4>2
    <3> QED
      BY <1>4, <3>1, <3>3, <3>4 DEF Clears
  <2> HIDE DEF pre, n
  <2> DEFINE lineage == Segment(0, n)
  <2>7. Segments(lineage, Cardinality(Dates(rows))) /\ x = PutIndex(new, lineage)
    BY <2>3 DEF n
  <2> HIDE DEF lineage, x
  <2> DEFINE v == Plan(pre, new, PutIndex(new, lineage))
  <2>8. /\ Sound(v, files) /\ Bears(v, rows)
        /\ Opens(v, pre)
    BY <2>1, <2>6, <2>7, SwapMade
  <2>9. v = ws
    BY <2>5, <2>7
  <2> HIDE DEF v
  <2>10. ArchiveFirst(ws, Committed)
    <3>1. 1 \in DOMAIN ws /\ ws[1] = w /\ ws \in Seq(WriteOps)
      BY <2>6, <2>8, <2>9 DEF Sound, Opens
    <3>2. ws # << >> /\ Head(ws) = w
      BY <3>1
    <3>3. ASSUME NEW j \in DOMAIN ws, ws[j].kind = "archive" PROVE ws[j].bars = Committed
      <4>1. j = 1
        BY <2>8, <2>9, <3>3 DEF Sound
      <4> QED
        BY <1>4, <3>1, <4>1
    <3> QED
      BY <1>4, <3>2, <3>3 DEF ArchiveFirst
  <2> QED
    BY <2>8, <2>9, <2>10 DEF ws
<1> QED
  BY <1>5, <1>6

-----------------------------------------------------------------------------
(* One file operation.                                                     *)
Files == [Start -> Docs \cup {None}]

Performed(w, fs, fs2) ==
  /\ w.kind = "shard" => fs2 = [fs EXCEPT ![w.at] = w.doc]
  /\ w.kind = "unlink" => fs2 = [fs EXCEPT ![w.at] = None]
  /\ w.kind \in {"archive", "index"} => fs2 = fs

LEMMA PerformedFacts ==
  ASSUME NEW w \in WriteOps, NEW fs \in Files, NEW fs2, Performed(w, fs, fs2)
  PROVE  /\ fs2 \in Files
         /\ \A at \in Start : ~Touches(w, at) => fs2[at] = fs[at]
         /\ w.kind = "shard" => fs2[w.at] = w.doc
<1>1. /\ w.kind \in {"shard", "unlink", "archive", "index"}
      /\ w.kind = "shard" => w.at \in Start /\ w.doc \in Docs
      /\ w.kind = "unlink" => w.at \in Start
  BY OpFacts
<1>2. CASE w.kind = "shard"
  BY <1>1, <1>2 DEF Files, Performed, Touches
<1>3. CASE w.kind = "unlink"
  BY <1>1, <1>3 DEF Files, Performed, Touches
<1>4. CASE w.kind \in {"archive", "index"}
  BY <1>4 DEF Performed
<1> QED
  BY <1>1, <1>2, <1>3, <1>4

LEMMA TailFacts ==
  ASSUME NEW R, NEW s \in Seq(R), s # << >>
  PROVE  /\ 1 \in DOMAIN s /\ Head(s) = s[1] /\ Head(s) \in R
         /\ Tail(s) \in Seq(R) /\ Len(Tail(s)) = Len(s) - 1 /\ Len(s) \in Nat \ {0}
         /\ DOMAIN s = 1 .. Len(s) /\ DOMAIN Tail(s) = 1 .. Len(s) - 1
         /\ \A j \in DOMAIN Tail(s) : j + 1 \in DOMAIN s /\ Tail(s)[j] = s[j + 1]
         /\ Tail(s) = << >> <=> Len(s) = 1
<1>1. Len(s) \in Nat \ {0} /\ DOMAIN s = 1 .. Len(s)
  <2>1. Len(s) \in Nat /\ DOMAIN s = 1 .. Len(s) /\ Len(s) # 0
    BY EmptySeq
  <2> QED
    BY <2>1
<1>2. /\ Tail(s) \in Seq(R) /\ Len(Tail(s)) = Len(s) - 1 /\ Head(s) = s[1] /\ Head(s) \in R
      /\ \A j \in 1 .. Len(Tail(s)) : Tail(s)[j] = s[j + 1]
  BY HeadTailProperties
<1>3. DOMAIN Tail(s) = 1 .. Len(s) - 1
  BY <1>2
<1>4. Tail(s) = << >> <=> Len(s) = 1
  <2>1. Tail(s) = << >> <=> Len(Tail(s)) = 0
    BY <1>2, EmptySeq
  <2> QED
    BY <1>1, <1>2, <2>1
<1>5. \A j \in DOMAIN Tail(s) : j + 1 \in DOMAIN s
  BY <1>1, <1>3
<1> QED
  BY <1>1, <1>2, <1>3, <1>4, <1>5

LEMMA SoundTail ==
  ASSUME NEW ws, ws # << >>, NEW fs \in Files, NEW fs2, Sound(ws, fs),
         Performed(Head(ws), fs, fs2)
  PROVE  Sound(Tail(ws), fs2)
<1> DEFINE t == Tail(ws)
           w == Head(ws)
<1>1. ws \in Seq(WriteOps)
  BY DEF Sound
<1>2. /\ 1 \in DOMAIN ws /\ w = ws[1] /\ w \in WriteOps
      /\ t \in Seq(WriteOps) /\ Len(t) = Len(ws) - 1 /\ Len(ws) \in Nat \ {0}
      /\ DOMAIN ws = 1 .. Len(ws) /\ DOMAIN t = 1 .. Len(ws) - 1
      /\ \A j \in DOMAIN t : j + 1 \in DOMAIN ws /\ t[j] = ws[j + 1]
  BY <1>1, TailFacts
<1>3. /\ \A at \in Start : ~Touches(w, at) => fs2[at] = fs[at]
      /\ w.kind = "shard" => fs2[w.at] = w.doc
  BY <1>2, PerformedFacts
<1> HIDE DEF t, w
<1>4. \A j \in DOMAIN t : t[j].kind # "archive"
  <2> SUFFICES ASSUME NEW j \in DOMAIN t, t[j].kind = "archive" PROVE FALSE
    OBVIOUS
  <2>1. j + 1 = 1 /\ j \in Nat \ {0}
    BY <1>2 DEF Sound
  <2> QED
    BY <2>1
<1>5. ASSUME NEW s, s.start \in Start, Kept(s, fs, ws) PROVE Kept(s, fs2, t)
  <2>1. fs[s.start] = s.doc /\ ~Touches(w, s.start)
    BY <1>2, <1>5 DEF Kept
  <2>2. \A j \in DOMAIN t : ~Touches(t[j], s.start)
    BY <1>2, <1>5 DEF Kept
  <2> QED
    BY <1>3, <1>5, <2>1, <2>2 DEF Kept
<1>6. ASSUME NEW s, s.start \in Start, Coming(s, ws)
      PROVE  Kept(s, fs2, t) \/ Coming(s, t)
  <2>1. PICK m \in DOMAIN ws :
          /\ ws[m].kind = "shard" /\ ws[m].at = s.start /\ ws[m].doc = s.doc
          /\ \A l \in DOMAIN ws : l > m => ~Touches(ws[l], s.start)
    BY <1>6 DEF Coming
  <2>2. CASE m = 1
    <3>1. fs2[s.start] = s.doc
      BY <1>2, <1>3, <2>1, <2>2
    <3>2. ASSUME NEW j \in DOMAIN t PROVE ~Touches(t[j], s.start)
      <4>1. j + 1 \in DOMAIN ws /\ j + 1 > 1 /\ t[j] = ws[j + 1]
        BY <1>2
      <4> QED
        BY <2>1, <2>2, <4>1
    <3> QED
      BY <3>1, <3>2 DEF Kept
  <2>3. CASE m # 1
    <3> DEFINE k == m - 1
    <3>1. k \in DOMAIN t /\ k + 1 = m
      BY <1>2, <2>3
    <3> HIDE DEF k
    <3>2. t[k] = ws[m]
      BY <1>2, <3>1
    <3>3. ASSUME NEW l \in DOMAIN t, l > k PROVE ~Touches(t[l], s.start)
      <4>1. l + 1 \in DOMAIN ws /\ l + 1 > m /\ t[l] = ws[l + 1]
        BY <1>2, <3>1, <3>3
      <4> QED
        BY <2>1, <4>1
    <3> QED
      BY <2>1, <3>1, <3>2, <3>3 DEF Coming
  <2> QED
    BY <2>2, <2>3
<1>7. ASSUME NEW j \in DOMAIN t, t[j].kind = "index"
      PROVE  /\ j = Len(t) /\ Good(t[j].index)
             /\ \A k \in DOMAIN t[j].index.shards :
                  \/ Kept(t[j].index.shards[k], fs2, t)
                  \/ Coming(t[j].index.shards[k], t)
  <2>1. j + 1 \in DOMAIN ws /\ t[j] = ws[j + 1] /\ j \in Nat
    BY <1>2
  <2>2. /\ j + 1 = Len(ws) /\ Good(t[j].index)
        /\ \A k \in DOMAIN t[j].index.shards :
             \/ Kept(t[j].index.shards[k], fs, ws)
             \/ Coming(t[j].index.shards[k], ws)
    BY <1>7, <2>1 DEF Sound
  <2>3. \A k \in DOMAIN t[j].index.shards : t[j].index.shards[k].start \in Start
    BY <2>2, PartStarts DEF Good
  <2>4. \A k \in DOMAIN t[j].index.shards :
          \/ Kept(t[j].index.shards[k], fs2, t)
          \/ Coming(t[j].index.shards[k], t)
    BY <1>5, <1>6, <2>2, <2>3
  <2>5. j = Len(t)
    BY <1>2, <2>1, <2>2
  <2> QED
    BY <2>2, <2>4, <2>5
<1> QED
  BY <1>2, <1>4, <1>7 DEF Sound, t

LEMMA IndexLands ==
  ASSUME NEW ws, ws # << >>, NEW fs, Sound(ws, fs), Head(ws).kind = "index"
  PROVE  /\ Len(ws) = 1 /\ Good(Head(ws).index)
         /\ \A k \in DOMAIN Head(ws).index.shards :
              fs[Head(ws).index.shards[k].start] = Head(ws).index.shards[k].doc
<1>1. /\ ws \in Seq(WriteOps) /\ 1 \in DOMAIN ws /\ Head(ws) = ws[1]
      /\ DOMAIN ws = 1 .. Len(ws)
  <2>1. ws \in Seq(WriteOps)
    BY DEF Sound
  <2> QED
    BY <2>1, TailFacts
<1>2. /\ 1 = Len(ws) /\ Good(ws[1].index)
      /\ \A k \in DOMAIN ws[1].index.shards :
           \/ Kept(ws[1].index.shards[k], fs, ws)
           \/ Coming(ws[1].index.shards[k], ws)
  BY <1>1 DEF Sound
<1>3. \A s : ~Coming(s, ws)
  <2>1. \A j \in DOMAIN ws : ws[j].kind = "index"
    <3>1. Len(ws) = 1
      BY <1>2
    <3>2. DOMAIN ws = 1 .. 1
      BY <1>1, <3>1, Zenon
    <3>3. ws[1].kind = "index"
      BY <1>1, Zenon
    <3>4. \A j \in 1 .. 1 : j = 1
      OBVIOUS
    <3> QED
      BY <3>2, <3>3, <3>4, Zenon
  <2> QED
    BY <2>1 DEF Coming
<1> QED
  BY <1>1, <1>2, <1>3 DEF Kept

-----------------------------------------------------------------------------
(* The inductive invariant.                                                *)

(* How far the history g may differ from h when a writer of the kind has   *)
(* written the index.                                                      *)
MayBecome(kind, h, g) ==
  /\ Dates(h) \subseteq Dates(g)
  /\ kind = "append" =>
       /\ \A d \in Dates(h) : g[d] = h[d]
       /\ \A d \in Dates(g) \ Dates(h) : After(d, Dates(h))
  /\ kind = "extend" =>
       /\ \A d \in Dates(h) : g[d] = h[d]
       /\ \A d \in Dates(g) \ Dates(h) : Before(d, Dates(h)) \/ After(d, Dates(h))
  /\ kind = "replace" =>
       /\ Cardinality({d \in Dates(h) : g[d] # h[d]}) <= MaxRevised
       /\ \A d \in {e \in Dates(h) : g[e] # h[e]} :
            Cardinality({e \in Dates(h) : e > d}) < RevisableTail

Permitted(ws, kind, h) ==
  \A j \in DOMAIN ws : ws[j].kind = "index" => MayBecome(kind, h, BarsOf(ws[j].index.shards))

(* A rebase archives the history first; then it is on disk.                *)
ArchiveKept(ws, kind, h, old) ==
  \A j \in DOMAIN ws : ws[j].kind = "archive" =>
    kind = "replace" /\ ws[j].bars = h /\ old[today] = None

Archived(ws, kind, h, old) ==
  kind = "replace" =>
    /\ today \in RebaseDay
    /\ old[today] = h \/ (ws # << >> /\ Head(ws).kind = "archive")

Settled == op = "idle" /\ ~torn => Intact

IInv ==
  /\ TypeOK
  /\ SeriesGood
  /\ Sound(writes, files)
  /\ Permitted(writes, op, Committed)
  /\ ArchiveKept(writes, op, Committed, archive)
  /\ Archived(writes, op, Committed, archive)
  /\ Settled

LEMMA NoneFacts ==
  /\ \A d \in Docs : d # None /\ d # Partial
  /\ \A i \in Indexes : i # None
BY NoneAssumption

LEMMA InitIInv ==
  Init => IInv
<1> SUFFICES ASSUME Init PROVE IInv
  OBVIOUS
<1>1. writes = << >> /\ DOMAIN writes = {} /\ writes \in Seq(WriteOps) /\ index = None /\ op = "idle"
  BY DEF Init
<1>2. TypeOK
  <2>1. 1 \in Day
    BY SeriesAssumption DEF Day
  <2> QED
    BY <1>1, <2>1 DEF Init, TypeOK, Op
<1>3. SeriesGood
  BY <1>1 DEF SeriesGood
<1>4. Sound(writes, files) /\ Permitted(writes, op, Committed)
  BY <1>1 DEF Sound, Permitted
<1>5. ArchiveKept(writes, op, Committed, archive) /\ Archived(writes, op, Committed, archive)
  BY <1>1 DEF ArchiveKept, Archived
<1>6. Settled
  BY <1>1 DEF Settled, Intact, Shards
<1> QED
  BY <1>2, <1>3, <1>4, <1>5, <1>6 DEF IInv

(* What stays as long as the index does.                                   *)
LEMMA SameSeries ==
  ASSUME UNCHANGED index
  PROVE  Shards' = Shards /\ Lineage' = Lineage /\ Committed' = Committed /\ SeriesGood' = SeriesGood
BY DEF Shards, Lineage, Committed, SeriesGood, Good

LEMMA BeginIInv ==
  ASSUME IInv, op = "idle", NEW kind \in {"append", "extend", "replace"}, NEW plan,
         Begin(kind, plan), Sound(plan, files), Permitted(plan, kind, Committed),
         ArchiveKept(plan, kind, Committed, archive), Archived(plan, kind, Committed, archive)
  PROVE  IInv'
<1>1. /\ plan # << >> /\ op' = kind /\ writes' = plan
      /\ UNCHANGED <<dated, today, index, files, archive, torn>>
  BY DEF Begin
<1>2. Shards' = Shards /\ Committed' = Committed /\ SeriesGood'
  BY <1>1, SameSeries DEF IInv
<1>3. TypeOK'
  <2>1. kind \in Op /\ kind # "idle"
    BY DEF Op
  <2> QED
    BY <1>1, <2>1 DEF IInv, TypeOK
<1>4. Sound(writes, files)'
  BY <1>1 DEF Sound, Kept, Coming
<1>5. Permitted(writes, op, Committed)'
  BY <1>1, <1>2 DEF Permitted
<1>6. ArchiveKept(writes, op, Committed, archive)' /\ Archived(writes, op, Committed, archive)'
  BY <1>1, <1>2 DEF ArchiveKept, Archived
<1>7. Settled'
  BY <1>1 DEF Settled
<1> QED
  BY <1>2, <1>3, <1>4, <1>5, <1>6, <1>7 DEF IInv

LEMMA AppendBarsIInv ==
  ASSUME IInv, op = "idle", NEW bars \in Docs, AppendBars(bars)
  PROVE  IInv'
<1> DEFINE new == On(bars, Dates(bars) \ Dates(Committed))
           h == Committed
           g == Join(h, new)
           ws == AppendWrites(new)
<1>1. /\ Readable /\ Dates(new) # {} /\ (\A d \in Dates(new) : After(d, Dates(h)))
      /\ Begin("append", ws)
  BY DEF AppendBars
<1>2. new \in Docs
  BY OnFacts
<1>3. SeriesGood
  BY DEF IInv
<1>4. h \in Docs
  BY <1>3, SeriesFacts
<1>5. /\ Sound(ws, files) /\ Bears(ws, g) /\ NoArchive(ws)
  <2> HIDE DEF new
  <2> QED
    BY <1>1, <1>2, <1>3, AppendPlan
<1>6. MayBecome("append", h, g)
  <2> HIDE DEF new, h
  <2>1. /\ Dates(g) = Dates(h) \cup Dates(new) /\ \A d \in Dates(h) : g[d] = h[d]
    BY <1>2, <1>4, JoinFacts
  <2> HIDE DEF g
  <2> QED
    BY <1>1, <2>1 DEF MayBecome
<1> HIDE DEF ws, g
<1>7. /\ Permitted(ws, "append", Committed) /\ ArchiveKept(ws, "append", Committed, archive)
      /\ Archived(ws, "append", Committed, archive)
  BY <1>5, <1>6 DEF Permitted, Bears, ArchiveKept, NoArchive, Archived
<1> QED
  BY <1>1, <1>5, <1>7, BeginIInv

LEMMA FetchFacts ==
  ASSUME NEW n, NEW rows \in Fetch(n)
  PROVE  rows \in Docs
BY DEF Fetch, Docs

LEMMA CollectIInv ==
  ASSUME IInv, CollectEod
  PROVE  IInv'
<1>1. op = "idle"
  BY DEF CollectEod
<1>2. PICK rows \in Fetch(EodWindow) :
        AppendBars(On(rows, {d \in Dates(rows) : After(d, Dates(Committed))}))
  BY DEF CollectEod
<1>3. On(rows, {d \in Dates(rows) : After(d, Dates(Committed))}) \in Docs
  BY FetchFacts, OnFacts
<1> QED
  BY <1>1, <1>2, <1>3, AppendBarsIInv

LEMMA EnsureIInv ==
  ASSUME IInv, EnsureHistory
  PROVE  IInv'
<1>1. op = "idle"
  BY DEF EnsureHistory
<1>2. PICK rows \in Fetch(Target) : AppendBars(rows)
  BY DEF EnsureHistory
<1> QED
  BY <1>1, <1>2, FetchFacts, AppendBarsIInv

LEMMA InitializeIInv ==
  ASSUME IInv, InitializeBaseline
  PROVE  IInv'
<1>1. op = "idle" /\ SeriesGood
  BY DEF InitializeBaseline, IInv
<1>2. PICK rows \in Fetch(Target) :
        \/ AppendBars(rows)
        \/ /\ index # None /\ VerifiedBaseline(rows)
           /\ Packs(rows, Pack(0, rows)) /\ Begin("extend", ExtendWrites(rows))
  BY DEF InitializeBaseline
<1>3. rows \in Docs
  BY FetchFacts
<1>4. CASE AppendBars(rows)
  BY <1>1, <1>3, <1>4, AppendBarsIInv
<1>5. CASE /\ index # None /\ VerifiedBaseline(rows)
           /\ Packs(rows, Pack(0, rows)) /\ Begin("extend", ExtendWrites(rows))
  <2> DEFINE ws == ExtendWrites(rows)
  <2>1. Sound(ws, files) /\ Bears(ws, rows) /\ NoArchive(ws)
    BY <1>1, <1>3, <1>5, ExtendPlan
  <2>2. MayBecome("extend", Committed, rows)
    BY <1>5 DEF MayBecome, VerifiedBaseline, Agree
  <2>3. Begin("extend", ws)
    BY <1>5
  <2> HIDE DEF ws
  <2>4. /\ Permitted(ws, "extend", Committed) /\ ArchiveKept(ws, "extend", Committed, archive)
        /\ Archived(ws, "extend", Committed, archive)
    BY <2>1, <2>2 DEF Permitted, Bears, ArchiveKept, NoArchive, Archived
  <2> QED
    BY <1>1, <2>1, <2>3, <2>4, BeginIInv
<1> QED
  BY <1>2, <1>4, <1>5

LEMMA RebaseIInv ==
  ASSUME IInv, Rebase
  PROVE  IInv'
<1>1. op = "idle" /\ SeriesGood /\ today \in RebaseDay /\ index # None /\ archive[today] = None
  BY DEF Rebase, IInv
<1>2. PICK fetched \in Fetch(LastDay) :
        /\ ValidReplacement(Selected(fetched))
        /\ Begin("replace", ReplaceWrites(Selected(fetched)))
  BY DEF Rebase
<1> DEFINE rows == Selected(fetched)
           ws == ReplaceWrites(rows)
<1>3. rows \in Docs
  BY FetchFacts, OnFacts DEF Selected
<1> HIDE DEF rows
<1>4. ValidReplacement(rows) /\ Begin("replace", ws)
  BY <1>2 DEF rows
<1>5. Dates(rows) # {}
  BY <1>1, <1>4, SeriesFacts DEF ValidReplacement
<1>6. Sound(ws, files) /\ Bears(ws, rows) /\ ArchiveFirst(ws, Committed)
  BY <1>1, <1>3, <1>5, ReplacePlan
<1>7. MayBecome("replace", Committed, rows)
  BY <1>4 DEF MayBecome, ValidReplacement, InTail
<1> HIDE DEF ws
<1>8. /\ Permitted(ws, "replace", Committed) /\ ArchiveKept(ws, "replace", Committed, archive)
      /\ Archived(ws, "replace", Committed, archive)
  BY <1>1, <1>6, <1>7 DEF Permitted, Bears, ArchiveKept, ArchiveFirst, Archived
<1> QED
  BY <1>1, <1>4, <1>6, <1>8, BeginIInv

LEMMA WriteIInv ==
  ASSUME IInv, Write
  PROVE  IInv'
<1> DEFINE w == Head(writes)
           t == Tail(writes)
<1>1. /\ TypeOK /\ SeriesGood /\ Sound(writes, files) /\ Permitted(writes, op, Committed)
      /\ ArchiveKept(writes, op, Committed, archive)
      /\ Archived(writes, op, Committed, archive)
  BY DEF IInv
<1>2. /\ writes # << >> /\ Perform(w) /\ writes' = t
      /\ op' = (IF Len(writes) = 1 THEN "idle" ELSE op)
      /\ torn' = (IF Len(writes) = 1 THEN w.kind # "index" ELSE torn)
      /\ dated' = dated /\ today' = today
  BY DEF Write
<1>3. writes \in Seq(WriteOps)
  BY <1>1 DEF Sound
<1>4. /\ 1 \in DOMAIN writes /\ w = writes[1] /\ w \in WriteOps
      /\ t \in Seq(WriteOps) /\ Len(writes) \in Nat \ {0}
      /\ \A j \in DOMAIN t : j + 1 \in DOMAIN writes /\ t[j] = writes[j + 1]
      /\ t = << >> <=> Len(writes) = 1
  BY <1>2, <1>3, TailFacts
<1>5. /\ w.kind \in {"shard", "unlink", "archive", "index"}
      /\ w.kind = "archive" => w.bars \in Docs
      /\ w.kind = "index" => w.index \in Indexes
  BY <1>4, OpFacts
<1>6. /\ w.kind = "shard" => files' = [files EXCEPT ![w.at] = w.doc] /\ UNCHANGED <<index, archive>>
      /\ w.kind = "unlink" => files' = [files EXCEPT ![w.at] = None] /\ UNCHANGED <<index, archive>>
      /\ w.kind = "archive" => /\ archive' = [archive EXCEPT ![today] = w.bars]
                               /\ UNCHANGED <<index, files>>
      /\ w.kind = "index" => index' = w.index /\ UNCHANGED <<files, archive>>
  <2> HIDE DEF w
  <2>1. CASE w.kind = "shard"
    BY <1>2, <2>1 DEF Perform
  <2>2. CASE w.kind = "unlink"
    BY <1>2, <2>2 DEF Perform
  <2>3. CASE w.kind = "archive"
    BY <1>2, <2>3 DEF Perform
  <2>4. CASE w.kind = "index"
    BY <1>2, <2>4 DEF Perform
  <2> QED
    BY <1>5, <2>1, <2>2, <2>3, <2>4
<1>7. Performed(w, files, files') /\ files \in Files
  <2> HIDE DEF w
  <2> QED
    BY <1>1, <1>6 DEF Performed, Files, TypeOK
<1>8. Sound(writes, files)'
  <2>1. Sound(t, files')
    BY <1>1, <1>2, <1>7, SoundTail
  <2> HIDE DEF t
  <2> QED
    BY <1>2, <2>1 DEF Sound, Kept, Coming
<1>9. files' \in Files
  BY <1>4, <1>7, PerformedFacts
<1>10. w.kind = "index" =>
         /\ Len(writes) = 1 /\ Good(w.index)
         /\ \A k \in DOMAIN w.index.shards : files[w.index.shards[k].start] = w.index.shards[k].doc
  BY <1>1, <1>2, IndexLands
<1>11. w.kind = "archive" => /\ op = "replace" /\ w.bars = Committed /\ archive[today] = None
                             /\ today \in RebaseDay
  BY <1>1, <1>4 DEF ArchiveKept, Archived
<1> HIDE DEF w, t
<1>12. w.kind # "index" => index' = index
  BY <1>5, <1>6
<1>13. TypeOK'
  <2>1. archive' \in [RebaseDay -> Docs \cup {None, Partial}]
    BY <1>1, <1>5, <1>6, <1>11 DEF TypeOK
  <2>2. index' \in Indexes \cup {None}
    BY <1>1, <1>5, <1>6 DEF TypeOK
  <2>3. op' \in Op /\ (op' = "idle" <=> writes' = << >>)
    BY <1>1, <1>2, <1>4 DEF TypeOK, Op
  <2>4. dated' \in BOOLEAN /\ torn' \in BOOLEAN
    BY <1>1, <1>2 DEF TypeOK
  <2> QED
    BY <1>1, <1>2, <1>9, <2>1, <2>2, <2>3, <2>4 DEF TypeOK, Files
<1>14. SeriesGood'
  <2>1. CASE w.kind = "index"
    BY <1>6, <1>10, <2>1 DEF SeriesGood, Good
  <2>2. CASE w.kind # "index"
    BY <1>1, <1>12, <2>2, SameSeries
  <2> QED
    BY <2>1, <2>2
<1>15. CASE Len(writes) = 1
  <2>1. writes' = << >> /\ op' = "idle" /\ DOMAIN << >> = {}
    BY <1>2, <1>4, <1>15
  <2>2. /\ Permitted(writes, op, Committed)' /\ ArchiveKept(writes, op, Committed, archive)'
        /\ Archived(writes, op, Committed, archive)'
    BY <2>1 DEF Permitted, ArchiveKept, Archived
  <2>3. Settled'
    <3> SUFFICES ASSUME ~torn' PROVE Intact'
      BY DEF Settled
    <3>1. w.kind = "index"
      BY <1>2, <1>15
    <3>2. index' = w.index /\ files' = files /\ w.index # None
      BY <1>5, <1>6, <3>1, NoneFacts
    <3>3. Shards' = w.index.shards
      BY <3>2 DEF Shards
    <3> QED
      BY <1>10, <3>1, <3>2, <3>3 DEF Intact
  <2> QED
    BY <1>8, <1>13, <1>14, <2>2, <2>3 DEF IInv
<1>16. CASE Len(writes) # 1
  <2>1. op' = op /\ w.kind # "index"
    BY <1>2, <1>10, <1>16
  <2>2. Committed' = Committed
    BY <1>12, <2>1, SameSeries
  <2>3. Permitted(writes, op, Committed)'
    BY <1>1, <1>2, <1>4, <2>1, <2>2 DEF Permitted
  <2>4. \A j \in DOMAIN t : t[j].kind # "archive"
    <3> SUFFICES ASSUME NEW j \in DOMAIN t, t[j].kind = "archive" PROVE FALSE
      OBVIOUS
    <3>1. j + 1 = 1
      BY <1>1, <1>4 DEF Sound
    <3>2. j \in Nat \ {0}
      BY <1>4
    <3> QED
      BY <3>1, <3>2
  <2>5. ArchiveKept(writes, op, Committed, archive)'
    BY <1>2, <2>4 DEF ArchiveKept
  <2>6. Archived(writes, op, Committed, archive)'
    <3> SUFFICES ASSUME op = "replace" PROVE today \in RebaseDay /\ archive'[today] = Committed
      BY <1>2, <2>1, <2>2 DEF Archived
    <3>1. today \in RebaseDay
      BY <1>1 DEF Archived
    <3>2. CASE w.kind = "archive"
      BY <1>1, <1>6, <1>11, <3>1, <3>2 DEF TypeOK
    <3>3. CASE w.kind # "archive"
      BY <1>1, <1>5, <1>6, <3>3 DEF Archived, w
    <3> QED
      BY <3>1, <3>2, <3>3
  <2>7. Settled'
    <3>1. op # "idle"
      BY <1>1, <1>2 DEF TypeOK
    <3> QED
      BY <2>1, <3>1 DEF Settled
  <2> QED
    BY <1>8, <1>13, <1>14, <2>3, <2>5, <2>6, <2>7 DEF IInv
<1> QED
  BY <1>15, <1>16

LEMMA WriteFailsIInv ==
  ASSUME IInv, WriteFails
  PROVE  IInv'
<1>1. /\ TypeOK /\ SeriesGood /\ Sound(writes, files)
      /\ ArchiveKept(writes, op, Committed, archive)
      /\ Archived(writes, op, Committed, archive)
  BY DEF IInv
<1>2. /\ writes # << >> /\ writes' = << >> /\ op' = "idle" /\ torn'
      /\ UNCHANGED <<dated, today, index, files>> /\ torn' \in BOOLEAN
  BY DEF WriteFails
<1>3. writes' \in Seq(WriteOps) /\ DOMAIN writes' = {}
  BY <1>2
<1>4. archive' \in [RebaseDay -> Docs \cup {None, Partial}]
  <2>1. CASE UNCHANGED archive
    BY <1>1, <2>1 DEF TypeOK
  <2>2. CASE archive' = [archive EXCEPT ![today] = Partial]
    BY <1>1, <2>2 DEF TypeOK
  <2> QED
    BY <2>1, <2>2 DEF WriteFails
<1>5. TypeOK'
  BY <1>1, <1>2, <1>4 DEF TypeOK, Op
<1>6. SeriesGood'
  BY <1>1, <1>2, SameSeries
<1>7. /\ Sound(writes, files)' /\ Permitted(writes, op, Committed)'
      /\ ArchiveKept(writes, op, Committed, archive)'
      /\ Archived(writes, op, Committed, archive)'
  BY <1>2, <1>3 DEF Sound, Permitted, ArchiveKept, Archived
<1>8. Settled'
  BY <1>2 DEF Settled
<1> QED
  BY <1>5, <1>6, <1>7, <1>8 DEF IInv

LEMMA NextDayIInv ==
  ASSUME IInv, NextDay
  PROVE  IInv'
<1>1. /\ TypeOK /\ SeriesGood /\ Sound(writes, files) /\ Settled
  BY DEF IInv
<1>2. /\ op = "idle" /\ today' = today + 1 /\ today < LastDay
      /\ UNCHANGED <<dated, index, files, archive, op, writes, torn>>
  BY DEF NextDay
<1>3. writes = << >> /\ writes' = << >> /\ DOMAIN << >> = {}
  BY <1>1, <1>2 DEF TypeOK
<1>4. TypeOK'
  <2>1. today' \in Day
    BY <1>1, <1>2, SeriesAssumption DEF TypeOK, Day
  <2> QED
    BY <1>1, <1>2, <2>1 DEF TypeOK
<1>5. SeriesGood' /\ Shards' = Shards
  BY <1>1, <1>2, SameSeries
<1>6. Sound(writes, files)'
  BY <1>1, <1>2 DEF Sound, Kept, Coming
<1>7. /\ Permitted(writes, op, Committed)' /\ ArchiveKept(writes, op, Committed, archive)'
      /\ Archived(writes, op, Committed, archive)'
  BY <1>2, <1>3 DEF Permitted, ArchiveKept, Archived
<1>8. Settled'
  BY <1>1, <1>2, <1>5 DEF Settled, Intact
<1> QED
  BY <1>4, <1>5, <1>6, <1>7, <1>8 DEF IInv

LEMMA StutterIInv ==
  ASSUME IInv, UNCHANGED vars
  PROVE  IInv'
<1>1. UNCHANGED <<dated, today, index, files, archive, op, writes, torn>>
  BY DEF vars
<1>2. SeriesGood' /\ Shards' = Shards /\ Committed' = Committed
  BY <1>1, SameSeries DEF IInv
<1>3. TypeOK' /\ Sound(writes, files)'
  BY <1>1 DEF IInv, TypeOK, Sound, Kept, Coming
<1>4. /\ Permitted(writes, op, Committed)' /\ ArchiveKept(writes, op, Committed, archive)'
      /\ Archived(writes, op, Committed, archive)'
  BY <1>1, <1>2 DEF IInv, Permitted, ArchiveKept, Archived
<1>5. Settled'
  BY <1>1, <1>2 DEF IInv, Settled, Intact
<1> QED
  BY <1>2, <1>3, <1>4, <1>5 DEF IInv

(* The plan of the writer at work ends in a well-formed index whose shards *)
(* it leaves on disk, and that may follow the committed one.               *)
THEOREM Invariant == Spec => []IInv
<1>1. IInv /\ [Next]_vars => IInv'
  BY CollectIInv, EnsureIInv, InitializeIInv, RebaseIInv, WriteIInv, WriteFailsIInv,
     NextDayIInv, StutterIInv
     DEF Next
<1> QED
  BY <1>1, InitIInv, PTL DEF Spec

-----------------------------------------------------------------------------
(* Whatever append_daily_bars, initialize and rebase write, and wherever   *)
(* they are interrupted: files, indexes and archives keep their types.     *)
THEOREM TypeCorrect == Spec => []TypeOK
<1>1. IInv => TypeOK
  BY DEF IInv
<1> QED
  BY <1>1, Invariant, PTL

(* A series no writer was interrupted on passes _read_all_records: its     *)
(* files are those the index describes, the counts agree and the dates     *)
(* ascend.                                                                 *)
THEOREM WholeSeriesIsReadable == Spec => []ReadableUnlessTorn
<1>1. IInv => ReadableUnlessTorn
  <2> SUFFICES ASSUME IInv, op = "idle", ~torn PROVE Readable
    BY DEF ReadableUnlessTorn
  <2>1. /\ Part(Shards, Committed, Dates(Committed), 0, FALSE)
        /\ index # None => index.count = Total(Shards)
    BY SeriesFacts DEF IInv
  <2>2. Intact
    BY DEF IInv, Settled
  <2> QED
    BY <2>1, <2>2 DEF Readable, Intact, Part, Ascending
<1> QED
  BY <1>1, Invariant, PTL

LEMMA TilesShards ==
  ASSUME SeriesGood
  PROVE  ShardsTile
<1> DEFINE S == Shards
           D == Dates(Committed)
<1>1. /\ S \in ShardSeq /\ DatesOf(S) = D /\ Part(S, Committed, D, 0, FALSE) /\ Committed \in Docs
  BY SeriesFacts
<1>2. Len(S) \in Nat /\ DOMAIN S = 1 .. Len(S) /\ \A k \in DOMAIN S : S[k].doc \in Docs
  BY <1>1, ShardSeqFacts
<1>3. /\ \A k \in DOMAIN S : Piece(S[k], Committed, D, 0)
      /\ \A k \in DOMAIN S : S[k].sealed <=> k < Len(S) \/ FALSE
      /\ Ascending(S)
      /\ \A k \in DOMAIN S : k + 1 \in DOMAIN S => Full(S[k], S[k + 1], Committed)
  BY <1>1 DEF Part
<1> HIDE DEF S, D
<1>4. ASSUME NEW k \in DOMAIN S
      PROVE  S[k].start = Total(SubSeq(S, 1, k - 1))
  <2> DEFINE q == SubSeq(S, 1, k - 1)
             U == {d \in D : Before(d, Dates(S[k].doc))}
  <2>1. k \in Nat /\ k - 1 \in Nat /\ k - 1 <= Len(S) /\ k >= 1
    BY <1>2
  <2>2. /\ q \in ShardSeq /\ Len(q) = k - 1 /\ DOMAIN q = 1 .. k - 1
        /\ \A j \in 1 .. k - 1 : q[j] = S[j] /\ j \in DOMAIN S
    <3>1. S \in Seq(Shard)
      BY <1>1 DEF ShardSeq, S
    <3>2. \A j \in 1 .. k - 1 : S[j] \in Shard /\ j \in DOMAIN S
      BY <1>2, <2>1, <3>1
    <3>3. q = [j \in 1 .. k - 1 |-> S[j]]
      BY <1>2, <2>1, <3>1
    <3> HIDE DEF q
    <3>4. q \in Seq(Shard) /\ Len(q) = k - 1
      BY <2>1, <3>2, <3>3
    <3> QED
      BY <3>2, <3>3, <3>4 DEF ShardSeq
  <2> HIDE DEF q
  <2>3. \A i, j \in DOMAIN q : i # j => Dates(q[i].doc) \cap Dates(q[j].doc) = {}
    <3> SUFFICES ASSUME NEW i \in DOMAIN q, NEW j \in DOMAIN q, i # j,
                        NEW d \in Dates(q[i].doc), d \in Dates(q[j].doc)
                 PROVE  FALSE
      OBVIOUS
    <3>1. i \in DOMAIN S /\ j \in DOMAIN S /\ q[i] = S[i] /\ q[j] = S[j] /\ (i < j \/ j < i)
      BY <2>1, <2>2
    <3>2. d < d
      BY <1>3, <3>1 DEF Ascending
    <3>3. d \in Nat
      BY <1>2, <3>1, DocFacts
    <3> QED
      BY <3>2, <3>3
  <2>4. Total(q) = Cardinality(DatesOf(q))
    BY <2>2, <2>3, TotalCounts
  <2>5. DatesOf(q) = U
    <3>1. ASSUME NEW d \in DatesOf(q) PROVE d \in U
      <4>1. PICK j \in DOMAIN q : d \in Dates(q[j].doc)
        BY DEF DatesOf
      <4>2. j \in DOMAIN S /\ d \in Dates(S[j].doc) /\ j < k
        BY <2>1, <2>2, <4>1
      <4>3. d \in D
        BY <1>1, <4>2 DEF DatesOf, S, D
      <4> QED
        BY <1>3, <4>2, <4>3 DEF Ascending, Before
    <3>2. ASSUME NEW d \in U PROVE d \in DatesOf(q)
      <4>1. PICK j \in DOMAIN S : d \in Dates(S[j].doc)
        BY <1>1 DEF DatesOf, S, D
      <4>2. d \in Nat /\ j \in Nat
        BY <1>2, <4>1, DocFacts
      <4>3. PICK e \in Dates(S[k].doc) : e \in Nat
        BY <1>2, <1>3, DocFacts DEF Piece
      <4>4. j < k
        <5>1. j # k
          BY <4>1, <4>2 DEF Before
        <5>2. ~(k < j)
          <6> SUFFICES ASSUME k < j PROVE FALSE
            OBVIOUS
          <6>1. e < d /\ d < e
            BY <1>3, <4>1, <4>3 DEF Ascending, Before
          <6> QED
            BY <4>2, <4>3, <6>1
        <5> QED
          BY <2>1, <4>2, <5>1, <5>2
      <4>5. j \in DOMAIN q /\ q[j] = S[j]
        BY <1>2, <2>1, <2>2, <4>4
      <4> QED
        BY <4>1, <4>5 DEF DatesOf
    <3> QED
      BY <3>1, <3>2
  <2>6. S[k].start = 0 + Cardinality(U) /\ S[k].start \in Nat
    BY <1>1, <1>3, ShardSeqFacts DEF Piece, S
  <2>7. IsFiniteSet(U)
    BY <1>1, DocFacts, FS_Subset DEF D
  <2>8. Cardinality(U) \in Nat
    BY <2>7, FS_CardinalityType
  <2> HIDE DEF U
  <2>9. S[k].start = Total(q)
    BY <2>4, <2>5, <2>6, <2>8
  <2> QED
    BY <2>9 DEF q
<1>5. ASSUME NEW k \in DOMAIN S, k < Len(S)
      PROVE  LET next == S[k + 1].doc
             IN  ~Fits(Join(S[k].doc, On(next, {Min(Dates(next))})))
  <2> DEFINE f == S[k].doc
             next == S[k + 1].doc
             m == Min(Dates(next))
  <2>1. k + 1 \in DOMAIN S /\ k \in Nat
    BY <1>2, <1>5
  <2>2. ~Fits(On(Committed, Dates(f) \cup {m}))
    BY <1>3, <2>1 DEF Full
  <2>3. /\ f = On(Committed, Dates(f)) /\ next = On(Committed, Dates(next)) /\ Dates(next) # {}
    BY <1>3, <2>1 DEF Piece
  <2>4. m \in Dates(next)
    <3>1. Dates(next) \in SUBSET Nat
      BY <1>2, <2>1, DocFacts
    <3> QED
      BY <2>3, <3>1, SmallestNumber
  <2> HIDE DEF f, next, m
  <2>5. On(next, {m}) = [d \in {m} |-> next[d]] /\ Dates(On(next, {m})) = {m}
    BY DEF On, Dates
  <2>6. \A d \in Dates(f) : f[d] = Committed[d]
    BY <2>3 DEF On
  <2>7. next[m] = Committed[m]
    BY <2>3, <2>4 DEF On
  <2>8. Join(f, On(next, {m})) = On(Committed, Dates(f) \cup {m})
    BY <2>5, <2>6, <2>7 DEF Join, On
  <2> QED
    BY <2>2, <2>8 DEF f, next, m
<1> QED
  BY <1>3, <1>4, <1>5 DEF ShardsTile, Piece, S

(* Whatever writers made the series: its shards tile the records, none     *)
(* above a limit, all but the last sealed and full; so do the segments of  *)
(* its lineage, through every renumbering.                                 *)
THEOREM EveryRecordOnce == Spec => []RecordsTile
<1>1. IInv => RecordsTile
  <2> SUFFICES ASSUME IInv PROVE RecordsTile
    OBVIOUS
  <2>1. SeriesGood
    BY DEF IInv
  <2>2. LineageTiles
    <3>1. CASE index = None
      BY <3>1 DEF LineageTiles, Lineage
    <3>2. CASE index # None
      <4>1. Segments(Lineage, index.count)
        BY <2>1, <3>2 DEF SeriesGood, Good, Lineage
      <4>2. \A k \in DOMAIN Lineage : Lineage # << >> /\ Lineage[k].to \in Nat
        <5> DEFINE R == [from : Nat, to : Nat]
        <5>1. Lineage \in Seq(R)
          BY <4>1 DEF Segments, LineageSeq
        <5>2. \A r \in R : r.to \in Nat
          OBVIOUS
        <5> HIDE DEF R
        <5>3. \A k \in DOMAIN Lineage : Lineage[k] \in R /\ Lineage # << >>
          BY <5>1
        <5> QED
          BY <5>2, <5>3
      <4> QED
        BY <4>1, <4>2 DEF LineageTiles, Segments
    <3> QED
      BY <3>1, <3>2
  <2> QED
    BY <2>1, <2>2, TilesShards DEF RecordsTile
<1> QED
  BY <1>1, Invariant, PTL

(* A series that an interrupted writer left unreadable stays as it is: no  *)
(* later collector, initialisation or rebase builds on it.                 *)
THEOREM TornSeriesStays == Spec => FailsClosed
<1>1. IInv /\ [Next]_vars =>
        [op = "idle" /\ ~Intact => UNCHANGED <<index, files, archive>> /\ op' = "idle"]_vars
  <2> SUFFICES ASSUME IInv, Next, op = "idle", ~Intact
               PROVE  UNCHANGED <<index, files, archive>> /\ op' = "idle"
    OBVIOUS
  <2>1. ~Readable
    BY DEF Readable, Intact
  <2>2. ~CollectEod /\ ~EnsureHistory
    BY <2>1 DEF CollectEod, EnsureHistory, AppendBars
  <2>3. ~InitializeBaseline
    BY <2>1 DEF InitializeBaseline, AppendBars
  <2>4. ~Rebase
    BY <2>1 DEF Rebase
  <2>5. ~Write /\ ~WriteFails
    BY DEF Write, WriteFails, IInv, TypeOK
  <2>6. NextDay
    BY <2>2, <2>3, <2>4, <2>5 DEF Next
  <2> QED
    BY <2>6 DEF NextDay
<1> QED
  BY <1>1, Invariant, PTL DEF Spec, FailsClosed

(* The histories that rebases have archived whole.                         *)
Archives == {archive[d] : d \in {e \in RebaseDay : archive[e] \notin {None, Partial}}}

(* Every replacement of _index.json is a step of the Store's contract:     *)
(* later bars, bars around the old ones, or few revisions in the tail of a *)
(* history that is in the archive.                                         *)
THEOREM ImplementsDailyHistory == Spec => RefinesDailyHistory
<1>1. Init => History!DInit
  <2> SUFFICES ASSUME Init PROVE Committed = << >> /\ Archives = {}
    BY DEF History!DInit, History!NoBars, Archives
  <2>1. Archives = {}
    BY DEF Init, Archives
  <2>2. Shards = << >>
    BY DEF Init, Shards
  <2>3. DatesOf(Shards) = {}
    BY <2>2 DEF DatesOf
  <2>4. Committed = [d \in {} |-> Committed[d]]
    BY <2>2 DEF Committed, BarsOf
  <2>5. Committed = << >>
    BY <2>4
  <2> QED
    BY <2>1, <2>5
<1>2. IInv /\ [Next]_vars => [History!DNext]_<<Committed, Archives>>
  <2> SUFFICES ASSUME IInv, [Next]_vars PROVE [History!DNext]_<<Committed, Archives>>
    OBVIOUS
  <2>1. CASE UNCHANGED <<index, archive>>
    BY <2>1, SameSeries DEF Archives
  <2>2. CASE ~UNCHANGED <<index, archive>> /\ Write
    <3> DEFINE w == Head(writes)
    <3>1. /\ writes # << >> /\ Perform(w) /\ writes \in Seq(WriteOps)
          /\ Sound(writes, files) /\ Permitted(writes, op, Committed)
          /\ ArchiveKept(writes, op, Committed, archive)
          /\ Archived(writes, op, Committed, archive) /\ TypeOK /\ SeriesGood
      BY <2>2 DEF Write, IInv, Sound
    <3>2. 1 \in DOMAIN writes /\ w = writes[1] /\ w \in WriteOps
      BY <3>1, TailFacts
    <3>3. /\ w.kind \in {"shard", "unlink", "archive", "index"}
          /\ w.kind = "archive" => w.bars \in Docs
          /\ w.kind = "index" => w.index \in Indexes
      BY <3>2, OpFacts
    <3>4. Committed \in Docs /\ Committed # None /\ Committed # Partial
      BY <3>1, SeriesFacts, NoneFacts
    <3> HIDE DEF w
    <3>5. w.kind \in {"archive", "index"}
      BY <2>2, <3>1, <3>3 DEF Perform
    <3>6. CASE w.kind = "archive"
      <4>1. index' = index /\ archive' = [archive EXCEPT ![today] = w.bars]
        BY <3>1, <3>6 DEF Perform
      <4>2. /\ op = "replace" /\ w.bars = Committed /\ archive[today] = None
            /\ today \in RebaseDay
        BY <3>1, <3>2, <3>6 DEF ArchiveKept, Archived
      <4>3. Committed' = Committed
        BY <4>1, SameSeries
      <4>4. Archives' = Archives \cup {Committed}
        <5>1. archive'[today] = Committed /\ \A d \in RebaseDay : d # today => archive'[d] = archive[d]
          BY <3>1, <4>1, <4>2 DEF TypeOK
        <5> QED
          BY <3>4, <4>2, <5>1 DEF Archives
      <4> QED
        BY <4>3, <4>4 DEF History!DNext, History!Archive, Archives
    <3>7. CASE w.kind = "index"
      <4>1. index' = w.index /\ archive' = archive
        BY <3>1, <3>7 DEF Perform
      <4>2. Committed' = BarsOf(w.index.shards)
        BY <3>3, <3>7, <4>1, NoneFacts DEF Committed, Shards
      <4>3. MayBecome(op, Committed, Committed')
        BY <3>1, <3>2, <3>7, <4>2 DEF Permitted
      <4>4. Archives' = Archives
        BY <4>1 DEF Archives
      <4>5. op \in {"append", "extend", "replace"}
        BY <3>1 DEF TypeOK, Op
      <4>6. CASE op = "append"
        <5>1. History!Append
          BY <4>3, <4>4, <4>6
             DEF MayBecome, History!Append, History!Keeps, History!Dates, History!Later, Dates,
                 After, Archives
        <5> QED
          BY <5>1 DEF History!DNext
      <4>7. CASE op = "extend"
        <5>1. History!Widen
          BY <4>3, <4>4, <4>7
             DEF MayBecome, History!Widen, History!Keeps, History!Dates, History!Later,
                 History!Earlier, Dates, Before, After, Archives
        <5> QED
          BY <5>1 DEF History!DNext
      <4>8. CASE op = "replace"
        <5>1. today \in RebaseDay /\ archive[today] = Committed
          BY <3>1, <3>7, <4>8 DEF Archived, w
        <5>2. Committed \in Archives
          BY <3>4, <5>1 DEF Archives
        <5>3. History!Replace
          <6> DEFINE h == Committed
                     g == Committed'
                     V == {d \in Dates(h) : g[d] # h[d]}
          <6>1. /\ Dates(h) \subseteq Dates(g) /\ Cardinality(V) <= MaxRevised
                /\ \A d \in V : Cardinality({e \in Dates(h) : e > d}) < RevisableTail
            BY <4>3, <4>8 DEF MayBecome
          <6>2. History!Revised(h, g) = V /\ History!Dates(h) = Dates(h) /\ History!Dates(g) = Dates(g)
            BY DEF History!Revised, History!Dates, Dates
          <6>3. \A d : History!Newer(d, h) = {e \in Dates(h) : e > d}
            BY <6>2 DEF History!Newer
          <6>4. Archives' = Archives /\ h \in Archives
            BY <4>4, <5>2
          <6> HIDE DEF V
          <6>5. \A d \in V : Cardinality(History!Newer(d, h)) < RevisableTail
            BY <6>1, <6>3, Zenon
          <6>7. \A S : History!Cardinality(S) = Cardinality(S)
            BY DEF History!Cardinality, Cardinality, History!IsFiniteSet, IsFiniteSet
          <6>6. /\ History!Dates(h) \subseteq History!Dates(g)
                /\ Cardinality(History!Revised(h, g)) <= MaxRevised
                /\ \A d \in History!Revised(h, g) : Cardinality(History!Newer(d, h)) < RevisableTail
            BY <6>1, <6>2, <6>5
          <6> QED
            BY <6>4, <6>6, <6>7 DEF History!Replace, Archives
        <5> QED
          BY <5>3 DEF History!DNext
      <4> QED
        BY <4>5, <4>6, <4>7, <4>8
    <3> QED
      BY <3>5, <3>6, <3>7
  <2>3. CASE ~UNCHANGED <<index, archive>> /\ WriteFails
    <3>1. /\ writes # << >> /\ Head(writes).kind = "archive" /\ index' = index
          /\ archive' = [archive EXCEPT ![today] = Partial]
      BY <2>3 DEF WriteFails
    <3>2. writes \in Seq(WriteOps) /\ ArchiveKept(writes, op, Committed, archive) /\ TypeOK
      BY DEF IInv, Sound
    <3>3. archive[today] = None
      <4>1. 1 \in DOMAIN writes /\ Head(writes) = writes[1]
        BY <3>1, <3>2, TailFacts
      <4> QED
        BY <3>1, <3>2, <4>1 DEF ArchiveKept
    <3>4. Archives' = Archives
      <4>1. \A d \in RebaseDay : /\ d # today => archive'[d] = archive[d]
                                 /\ d = today => archive'[d] = Partial
        BY <3>1, <3>2 DEF TypeOK
      <4> QED
        BY <3>3, <4>1 DEF Archives
    <3>5. Committed' = Committed
      BY <3>1, SameSeries
    <3> QED
      BY <3>4, <3>5
  <2>4. CollectEod \/ EnsureHistory \/ InitializeBaseline \/ Rebase \/ NextDay
          => UNCHANGED <<index, archive>>
    BY DEF CollectEod, EnsureHistory, InitializeBaseline, Rebase, NextDay, AppendBars, Begin
  <2> QED
    BY <2>1, <2>2, <2>3, <2>4 DEF Next, vars
<1> QED
  BY <1>1, <1>2, Invariant, PTL DEF Spec, RefinesDailyHistory, History!DSpec, Archives
=============================================================================
