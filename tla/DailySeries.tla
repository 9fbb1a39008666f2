---------------------------- MODULE DailySeries ----------------------------
(***************************************************************************)
(* One daily series of the Store: the index _index.json and the shard      *)
(* files of a (provider, symbol) directory, and the four writers that      *)
(* change them:                                                            *)
(*   - collect_previous_session_eod (market_data_collectors.py), which     *)
(*     appends settled sessions with market_data_store.append_daily_bars,  *)
(*   - _ensure_daily_history (collect_dynamic_candidates.py), which        *)
(*     appends the whole answer for a requested candidate in the same way, *)
(*   - initialize_market_data_baseline.initialize, which creates a series  *)
(*     or widens it around what is already there,                          *)
(*   - rebase_market_data_baseline.rebase, which archives the series and   *)
(*     replaces it.                                                        *)
(* A writer reads and checks the series, decides, and then writes file     *)
(* after file, the index last.  Every single file is replaced atomically   *)
(* (market_data_store._write_json), the series is not: an exception        *)
(* between two writes is caught per symbol, the batch goes on with the     *)
(* next symbol, and the job publishes what is on disk.  (A job that dies   *)
(* publishes nothing: StorePublication.)                                   *)
(*                                                                         *)
(* A shard document is a function from trade dates to bars: the code sorts *)
(* the bars by date and keeps one per date.  The digest in a shard's index *)
(* entry stands for the document it was taken of, so the entry holds that  *)
(* document.  Provider, asset class, adjustment and effective date are     *)
(* those of the universe file in every run and pass the affinity checks;   *)
(* a candidate's history has no effective date, so a symbol with one is    *)
(* not requested as a candidate (its dated series would refuse the bars).  *)
(***************************************************************************)
EXTENDS Naturals, Sequences, FiniteSets, FiniteSetsExt, SequencesExt

CONSTANTS LastDay,           \* bound: the last trade date
          RebaseDay,         \* bound: the dates with an operator's rebase request
          Bar,               \* the contents a bar may have
          Size,              \* the canonical size of a bar, in [Bar -> Nat]
          RecordLimit,       \* shard_record_limit
          ByteLimit,         \* shard_canonical_json_byte_limit
          EodWindow,         \* twelve_data_daily.history_outputsize
          BootstrapMinimum,  \* twelve_data_daily.bootstrap_minimum_records
          Target,            \* the longest analysis window, and a candidate's history
          RevisableTail, MaxRevised,  \* explicit_rebase limits
          None,              \* no file
          Partial            \* an archive whose write_text was cut short

ASSUME SeriesAssumption ==
  /\ {LastDay, RecordLimit, EodWindow, BootstrapMinimum, Target} \subseteq Nat \ {0}
  /\ {ByteLimit, MaxRevised} \subseteq Nat /\ RevisableTail \in Nat \ {0}
  /\ RebaseDay \subseteq 1 .. LastDay
  /\ Size \in [Bar -> Nat]

VARIABLES dated,     \* whether the universe dates the symbol's identity
          today,     \* the trade_date of the running job
          index,     \* _index.json, or None
          files,     \* the shard file that starts at a record number, or None
          archive,   \* the rebase archive of a trade date: the old bars, None
                     \* or Partial
          op,        \* the writer at work on this series
          writes,    \* what it still has to write
          torn       \* its predecessor stopped between two writes

vars == <<dated, today, index, files, archive, op, writes, torn>>

Day == 1 .. LastDay
Start == 0 .. LastDay
Docs == UNION {[D -> Bar] : D \in SUBSET Day}
NoBars == << >>

(* What an index may hold: shard entries, lineage segments and the count.  *)
ShardEntries == [start : Start, doc : Docs, sealed : BOOLEAN]
Indexes == [shards : Seq(ShardEntries), lineage : Seq([from : Nat, to : Nat]), count : Nat]

ASSUME NoneAssumption == None \notin Docs \cup Indexes /\ Partial \notin Docs

Op == {"idle", "append", "extend", "replace"}

Dates(doc) == DOMAIN doc
On(doc, D) == [d \in D |-> doc[d]]
Join(f, g) == [d \in Dates(f) \cup Dates(g) |->
                 IF d \in Dates(f) THEN f[d] ELSE g[d]]

-----------------------------------------------------------------------------
(* Reading a series.                                                       *)

Total(docs) == MapThenSumSet(LAMBDA k : Cardinality(Dates(docs[k].doc)), DOMAIN docs)

(* The bars of a sequence of shards.                                       *)
BarsOf(shards) ==
  LET holder(d) == CHOOSE k \in DOMAIN shards : d \in Dates(shards[k].doc)
  IN  [d \in UNION {Dates(shards[k].doc) : k \in DOMAIN shards} |->
         shards[holder(d)].doc[d]]

Shards == IF index = None THEN << >> ELSE index.shards
Lineage == IF index = None THEN << >> ELSE index.lineage
Committed == BarsOf(Shards)

(* Fault form: the digests of the index are not compared with the files.   *)
ReadUnchecked == \A k \in DOMAIN Shards : files[Shards[k].start] # None

(* _read_all_records succeeds: every shard file is there and is what its   *)
(* index entry says, the counts agree and the dates ascend.                *)
Readable ==
  /\ \A k \in DOMAIN Shards : files[Shards[k].start] = Shards[k].doc
  /\ index # None => Total(Shards) = index.count
  /\ \A k, l \in DOMAIN Shards : k < l =>
       \A d \in Dates(Shards[k].doc), e \in Dates(Shards[l].doc) : d < e

Before(d, D) == \A e \in D : d < e
After(d, D) == \A e \in D : d > e
Agree(f, g) == \A d \in Dates(f) \cap Dates(g) : f[d] = g[d]

-----------------------------------------------------------------------------
(* Cutting rows into shards.                                               *)

Fits(doc) ==
  /\ Cardinality(Dates(doc)) <= RecordLimit
  /\ MapThenSumSet(LAMBDA d : Size[doc[d]], Dates(doc)) <= ByteLimit

Initials(D) == {D} \cup {{d \in D : d < e} : e \in D}

(* Fault form: what the shard holds already is not counted.                *)
ChunkAlone(doc, rows) ==
  UNION {D \in Initials(Dates(rows)) : Fits(On(rows, D))}

(* The dates the packing loop moves from the front of rows into a shard    *)
(* that holds `doc` already: as many as fit.                               *)
Chunk(doc, rows) ==
  UNION {D \in Initials(Dates(rows)) : Fits(Join(doc, On(rows, D)))}

(* New shards for rows, from record number `first` on; all but the last    *)
(* are sealed.  They stop before a bar that fits no shard.                 *)
Pack(first, rows) ==
  LET pack[D \in SUBSET Dates(rows)] ==
        LET chunk == Chunk(NoBars, On(rows, D))
        IN  IF chunk = {} THEN << >>
            ELSE << [start  |-> first + Cardinality(Dates(rows) \ D),
                     doc    |-> On(rows, chunk),
                     sealed |-> chunk # D] >> \o pack[D \ chunk]
  IN  pack[Dates(rows)]

Packs(rows, shards) == Dates(BarsOf(shards)) = Dates(rows)

-----------------------------------------------------------------------------
(* What a writer writes, in order.                                         *)

PutShards(shards) ==
  [k \in DOMAIN shards |-> [kind |-> "shard", at |-> shards[k].start, doc |-> shards[k].doc]]
Unlinks(shards) == [k \in DOMAIN shards |-> [kind |-> "unlink", at |-> shards[k].start]]
PutIndex(shards, lineage) ==
  << [kind |-> "index",
      index |-> [shards |-> shards, lineage |-> lineage, count |-> Total(shards)]] >>

Segment(from, n) == << [from |-> from, to |-> from + n - 1] >>

(* The shard an append fills, unless it is sealed.                         *)
LastShard == Len(Shards)

(* append_daily_bars: fill the open shard, seal it if rows remain, then    *)
(* add shards, then replace the index.  A row that fits no shard raises    *)
(* when its turn comes, after the writes before it.                        *)
AppendWrites(rows) ==
  LET open == Shards # << >> /\ ~Last(Shards).sealed
      first == IF open THEN Shards[LastShard].start ELSE Total(Shards)
      old == IF open THEN files[first] ELSE NoBars
      fill == IF open THEN Chunk(old, rows) ELSE {}
      rest == On(rows, Dates(rows) \ fill)
      active == IF open THEN << [start  |-> first,
                                 doc    |-> Join(old, On(rows, fill)),
                                 sealed |-> Dates(rest) # {}] >> ELSE << >>
      kept == IF open THEN Front(Shards) ELSE Shards
      new == Pack(Total(kept \o active), rest)
      done == Segment(Total(Shards), Cardinality(Dates(rows)))
  IN  PutShards(active \o new) \o
      (IF Packs(rest, new) THEN PutIndex(kept \o active \o new, Lineage \o done)
                           ELSE << >>)

(* _shift_lineage.                                                         *)
ShiftLineage(segments, offset) ==
  [k \in DOMAIN segments |->
     [from |-> segments[k].from + offset, to |-> segments[k].to + offset]]

(* Fault form: the new shards are written before the old ones go.          *)
PutThenUnlink(old, new) == PutShards(new) \o Unlinks(old)

(* _write_rebased_series and _replace_series: the old shards go first.     *)
SwapShards(old, new) == Unlinks(old) \o PutShards(new)

ExtendWrites(rows) ==
  LET prefix == Cardinality({d \in Dates(rows) : Before(d, Dates(Committed))})
      suffix == Cardinality({d \in Dates(rows) : After(d, Dates(Committed))})
      new == Pack(0, rows)
  IN  SwapShards(Shards, new) \o
      PutIndex(new, (IF prefix > 0 THEN Segment(0, prefix) ELSE << >>) \o
                    ShiftLineage(Lineage, prefix) \o
                    (IF suffix > 0 THEN Segment(Cardinality(Dates(rows)) - suffix, suffix)
                                   ELSE << >>))

(* The archive comes first; rows that fit no shard raise right after it.   *)
ReplaceWrites(rows) ==
  LET new == Pack(0, rows)
  IN  << [kind |-> "archive", bars |-> Committed] >> \o
      (IF Packs(rows, new)
       THEN SwapShards(Shards, new) \o
            PutIndex(new, Segment(0, Cardinality(Dates(rows))))
       ELSE << >>)

-----------------------------------------------------------------------------
(* The writers.                                                            *)

Init ==
  /\ dated \in BOOLEAN
  /\ today = 1
  /\ index = None
  /\ files = [s \in Start |-> None]
  /\ archive = [d \in RebaseDay |-> None]
  /\ op = "idle" /\ writes = << >> /\ torn = FALSE

(* What the provider may answer for the last n sessions before today: any  *)
(* of them, with any bars.  Dates before the effective date of the symbol  *)
(* are dropped like missing ones.                                          *)
Fetch(n) == UNION {[D -> Bar] : D \in SUBSET {d \in Day : d < today /\ d + n >= today}}

Begin(kind, plan) ==
  /\ plan # << >>
  /\ op' = kind /\ writes' = plan
  /\ UNCHANGED <<dated, today, index, files, archive, torn>>

(* append_daily_bars refuses conflicting and out-of-order bars, and does   *)
(* nothing when every bar is there already.                                *)
AppendBars(bars) ==
  LET new == On(bars, Dates(bars) \ Dates(Committed))
  IN  /\ Readable
      /\ Agree(bars, Committed)
      /\ Dates(new) # {}
      /\ \A d \in Dates(new) : After(d, Dates(Committed))
      /\ Begin("append", AppendWrites(new))

(* collect_previous_session_eod, for this symbol: any revision in the      *)
(* overlap refuses the whole answer.                                       *)
CollectEod ==
  /\ op = "idle"
  /\ \E rows \in Fetch(EodWindow) :
       /\ Dates(rows) # {}
       /\ \/ index = None /\ Cardinality(Dates(rows)) >= BootstrapMinimum
          \/ index # None /\ Readable /\ Agree(rows, Committed)
       /\ AppendBars(On(rows, {d \in Dates(rows) : After(d, Dates(Committed))}))

(* _ensure_daily_history, for this symbol: no check but those of the       *)
(* append, and no minimum.                                                 *)
EnsureHistory ==
  /\ op = "idle" /\ ~dated
  /\ \E rows \in Fetch(Target) : Dates(rows) # {} /\ AppendBars(rows)

(* merge_verified_baseline: the fetched rows repeat every stored bar and   *)
(* have no other date between the first and the last of them.              *)
VerifiedBaseline(rows) ==
  /\ Dates(Committed) \subseteq Dates(rows)
  /\ Agree(rows, Committed)
  /\ \A d \in Dates(rows) \ Dates(Committed) :
       Before(d, Dates(Committed)) \/ After(d, Dates(Committed))

(* initialize, for this symbol.                                            *)
InitializeBaseline ==
  /\ op = "idle"
  /\ \E rows \in Fetch(Target) :
       \/ index = None /\ AppendBars(rows)
       \/ /\ index # None /\ Readable
          /\ VerifiedBaseline(rows)
          /\ Dates(rows) # Dates(Committed)
          /\ Packs(rows, Pack(0, rows))
          /\ Begin("extend", ExtendWrites(rows))

(* The rows rebase keeps of an over-long answer: the stored dates, what is *)
(* newer, and what the target still needs.                                 *)
Selected(rows) ==
  LET newest == {d \in Dates(rows) : Cardinality({e \in Dates(rows) : e > d}) < Target}
      first == Min(newest \cup Dates(Committed))
  IN  On(rows, {d \in Dates(rows) : d >= first})

InTail(d) == Cardinality({e \in Dates(Committed) : e > d}) < RevisableTail

(* Fault form: any stored bar may be revised.                              *)
AnyRevision(rows) == Dates(Committed) \subseteq Dates(rows)

(* validate_replacement                                                    *)
ValidReplacement(rows) ==
  LET revised == {d \in Dates(Committed) : rows[d] # Committed[d]}
  IN  /\ Dates(Committed) \subseteq Dates(rows)
      /\ \A d \in revised : InTail(d)
      /\ Cardinality(revised) <= MaxRevised

(* rebase, for this symbol: one archive per trade date, whole or cut short.*)
Rebase ==
  /\ op = "idle" /\ today \in RebaseDay
  /\ index # None /\ Readable
  /\ \E fetched \in Fetch(LastDay) :
       /\ Cardinality(Dates(fetched)) >= Target \/ dated
       /\ ValidReplacement(Selected(fetched))
       /\ archive[today] = None
       /\ Begin("replace", ReplaceWrites(Selected(fetched)))

(* One file operation of the writer at work.                               *)
Perform(w) ==
  CASE w.kind = "shard"   -> /\ files' = [files EXCEPT ![w.at] = w.doc]
                             /\ UNCHANGED <<index, archive>>
    [] w.kind = "unlink"  -> /\ files' = [files EXCEPT ![w.at] = None]
                             /\ UNCHANGED <<index, archive>>
    [] w.kind = "archive" -> /\ archive' = [archive EXCEPT ![today] = w.bars]
                             /\ UNCHANGED <<index, files>>
    [] w.kind = "index"   -> /\ index' = w.index
                             /\ UNCHANGED <<files, archive>>

Write ==
  /\ writes # << >>
  /\ Perform(Head(writes))
  /\ writes' = Tail(writes)
  /\ op' = IF Len(writes) = 1 THEN "idle" ELSE op
  /\ torn' = IF Len(writes) = 1 THEN Head(writes).kind # "index" ELSE torn
  /\ UNCHANGED <<dated, today>>

(* Fault form: what was still to be written is kept for later.             *)
WriteFailsPending ==
  /\ writes # << >>
  /\ op' = "idle" /\ torn' = TRUE
  /\ UNCHANGED <<dated, today, index, files, archive, writes>>

(* A file operation raises; the symbol is recorded as a failure and what   *)
(* was written stays.  Only the archive is not replaced atomically.        *)
WriteFails ==
  /\ writes # << >>
  /\ writes' = << >> /\ op' = "idle" /\ torn' = TRUE
  /\ \/ UNCHANGED archive
     \/ /\ Head(writes).kind = "archive"
        /\ archive' = [archive EXCEPT ![today] = Partial]
  /\ UNCHANGED <<dated, today, index, files>>

(* The next trade date's job.                                              *)
NextDay ==
  /\ op = "idle"
  /\ today < LastDay
  /\ today' = today + 1
  /\ UNCHANGED <<dated, index, files, archive, op, writes, torn>>

Next ==
  \/ CollectEod \/ EnsureHistory \/ InitializeBaseline \/ Rebase
  \/ Write \/ WriteFails \/ NextDay

Spec == Init /\ [][Next]_vars

-----------------------------------------------------------------------------
(* Properties.                                                             *)

(* Every file, index entry, archive and pending write has its type.        *)
TypeOK ==
  /\ today \in Day
  /\ index \in Indexes \cup {None}
  /\ files \in [Start -> Docs \cup {None}]
  /\ archive \in [RebaseDay -> Docs \cup {None, Partial}]
  /\ op \in Op /\ (op = "idle" <=> writes = << >>)
  /\ dated \in BOOLEAN /\ torn \in BOOLEAN

(* Whatever sequence of appends, baseline extensions and rebases made the  *)
(* series, a writer that was not interrupted leaves it readable: its shard *)
(* files are exactly those its index describes.                            *)
ReadableUnlessTorn == op = "idle" /\ ~torn => Readable

Intact == \A k \in DOMAIN Shards : files[Shards[k].start] = Shards[k].doc

(* A series that an interrupted writer left unreadable is never built on:  *)
(* no later collector extends it, replaces it or archives it as good.      *)
FailsClosed ==
  [][op = "idle" /\ ~Intact => UNCHANGED <<index, files, archive>> /\ op' = "idle"]_vars

(* The shards tile the records: each starts where the one before ends, all *)
(* but the last are sealed and full (the next bar did not fit), none       *)
(* exceeds its limits.                                                     *)
ShardsTile ==
  \A k \in DOMAIN Shards :
    /\ Shards[k].start = Total(SubSeq(Shards, 1, k - 1))
    /\ Fits(Shards[k].doc)
    /\ Shards[k].sealed <=> k < Len(Shards)
    /\ k < Len(Shards) =>
         LET next == Shards[k + 1].doc
         IN  ~Fits(Join(Shards[k].doc, On(next, {Min(Dates(next))})))

(* The lineage segments tile the records as well, through every prefix     *)
(* that renumbers them: each record has exactly one provenance.            *)
LineageTiles ==
  \A k \in DOMAIN Lineage :
    /\ Lineage[k].from = IF k = 1 THEN 0 ELSE Lineage[k - 1].to + 1
    /\ Lineage[k].from <= Lineage[k].to
    /\ k = Len(Lineage) => Lineage[k].to = index.count - 1

(* Every record is in exactly one shard and has exactly one provenance.    *)
RecordsTile == ShardsTile /\ LineageTiles

(* The committed bars change only as the Store's contract allows.          *)
History == INSTANCE DailyHistory WITH
  history  <- Committed,
  archives <- {archive[d] : d \in {e \in RebaseDay : archive[e] \notin {None, Partial}}}

RefinesDailyHistory == History!DSpec
=============================================================================
