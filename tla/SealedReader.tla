---------------------------- MODULE SealedReader ----------------------------
(***************************************************************************)
(* The reader of a sealed corpus (BinaryMarketCorpusReader.cpp).  A corpus *)
(* holds one row sequence per producer shard; a source may span shards.    *)
(* Opening a selection validates the whole corpus before any row is        *)
(* exposed: first every segment physically, shard by shard, then the       *)
(* transactions and the source generations in the order of the merge.  The *)
(* cursor then merges the shards a second time and emits the rows of the   *)
(* selected sources and receive interval.                                  *)
(*                                                                         *)
(* A row is abstracted to its two arrival clocks, its source, its kind and *)
(* its generation, with the generation a lifecycle row follows; a depth    *)
(* transaction to rows of kind "part" closed by a "row" of the same frame  *)
(* (CorpusRecords has the framing itself).                                 *)
(***************************************************************************)
EXTENDS Integers, Sequences, FiniteSets, SequencesExt

CONSTANTS
  Shards, Sources,
  Candidates,      \* the rows each shard may hold
  Capacity,        \* bound: the rows of each shard
  Ledgers,         \* the loss ledgers to try: sets of [src, lo, hi, channel]
  Requests,        \* the selections to try: [included, channels, required, exact]
  Begin, End       \* the selected receive interval

VARIABLES
  tables,     \* manifest.bin, sources.bin, index.bin and gaps.bin: they agree
              \* ("hold") and cover the selected interval, or not ("short"), or disagree
  corpus,     \* the rows of each shard, in segment order
  phase,      \* where the selection stands
  request,    \* sources and channels included, depth data or exact replay required
  ledger,     \* gaps.bin
  pos,        \* rows of each shard already merged
  open,       \* the transaction each shard is inside of
  gen,        \* generation of each source, moved in merge order
  atBegin,    \* sourcesAtBegin
  present,    \* some selected row carries replayable data
  emitted     \* what the cursor gave out

vars == <<tables, corpus, phase, request, ledger, pos, open, gen, atBegin, present, emitted>>

NoTxn == [src |-> 0, real |-> 0]
InitialGen == 1

-----------------------------------------------------------------------------

Init ==
  /\ corpus = [s \in Shards |-> <<>>]
  /\ tables \in {"hold", "short", "bad"}
  /\ phase = "catalog"
  /\ request = [included |-> {}, channels |-> {}, required |-> FALSE, exact |-> FALSE]
  /\ ledger = {}
  /\ pos = [s \in Shards |-> 0] /\ open = [s \in Shards |-> NoTxn]
  /\ gen = [s \in Sources |-> InitialGen] /\ atBegin = gen
  /\ present = FALSE /\ emitted = <<>>

\* readManifest and readTable: sizes, record counts and checksums of the
\* metadata files.
TablesHold == tables # "bad"

\* BinaryMarketCorpusReader::catalog and the index and ledger tables, then the
\* interval against the sealed coverage.
Catalog ==
  /\ phase = "catalog"
  /\ phase' = IF ~TablesHold THEN "corrupt" ELSE IF tables = "short" THEN "absent" ELSE "segments"
  /\ UNCHANGED <<tables, corpus, request, ledger, pos, open, gen, atBegin, present, emitted>>

\* The block and record checks, and the arrival order of the shard.
Passes(s, row) == row.kind # "torn" /\ (corpus[s] # <<>> => row.mono >= Last(corpus[s]).mono)

\* SegmentDecoder::next: the next stored row of a shard passes the block and
\* record checks, or the corpus is refused.  Shards are independent here, so
\* their rows are drawn one shard after the other.
Decode(s, row) ==
  /\ phase = "segments"
  /\ Len(corpus[s]) < Capacity[s]
  /\ \A t \in Shards : t > s => corpus[t] = <<>>
  /\ corpus' = [corpus EXCEPT ![s] = Append(@, row)]
  /\ phase' = IF Passes(s, row) THEN phase ELSE "corrupt"
  /\ UNCHANGED <<tables, request, ledger, pos, open, gen, atBegin, present, emitted>>

-----------------------------------------------------------------------------
(* Selection.                                                              *)

\* A loss of the ledger that makes the selection unprovable: a lost lifecycle
\* row of any source, or a loss of an included source and channel whose arrival
\* range overlaps the interval or is unknown.
Intersects(gap, asked) ==
  \/ gap.channel = "lifecycle"
  \/ /\ gap.src \in asked.included /\ gap.channel \in asked.channels
     /\ gap.lo = 0 \/ (gap.hi >= Begin /\ gap.lo < End)

\* The rest of BinaryMarketCorpusCursor::open before the merge: the request,
\* the source choice and the ledger.
Select(asked, gaps) ==
  /\ phase = "segments"
  /\ request' = asked /\ ledger' = gaps
  /\ phase' = IF \E g \in gaps : Intersects(g, asked) THEN "corrupt" ELSE "preflight"
  /\ UNCHANGED <<tables, corpus, pos, open, gen, atBegin, present, emitted>>

-----------------------------------------------------------------------------
(* The merge.                                                              *)

HeadRow(s) == corpus[s][pos[s] + 1]
Ready == {s \in Shards : pos[s] < Len(corpus[s])}

\* recordBefore: arrival, then shard; rows of one shard stay in sequence.
Before(s, t) ==
  \/ HeadRow(s).mono < HeadRow(t).mono
  \/ HeadRow(s).mono = HeadRow(t).mono /\ s < t

Merged == CHOOSE s \in Ready : \A t \in Ready \ {s} : Before(s, t)

\* advanceBinaryMarketDepthTransaction on the shard of the row.
TxnOf(row) == [src |-> row.src, real |-> row.real]
TxnAccepts(s, row) ==
  IF row.kind \in {"part", "row"} THEN open[s] \in {NoTxn, TxnOf(row)} ELSE open[s] = NoTxn

\* advanceBinaryMarketSourceState on the row's source: a lifecycle row follows
\* the current generation and keeps or raises it, any other row belongs to it.
SourceAccepts(row) ==
  IF row.kind = "change" THEN row.prev = gen[row.src] /\ row.gen >= gen[row.src]
  ELSE row.gen = gen[row.src]

Advance(s, row) ==
  /\ pos' = [pos EXCEPT ![s] = @ + 1]
  /\ open' = [open EXCEPT ![s] = IF row.kind = "part" THEN TxnOf(row) ELSE NoTxn]
  /\ gen' = [gen EXCEPT ![row.src] = row.gen]

\* Lifecycle rows are of every selection; rows that exact replay cannot use are
\* trades here, the other market rows depth.
Channel(row) == IF row.kind = "recorded" THEN "trade" ELSE "depth"

Selected(row) ==
  /\ row.src \in request.included /\ row.real >= Begin /\ row.real < End
  /\ row.kind = "change" \/ Channel(row) \in request.channels

\* A row the selection cannot hold: a capture loss, or a row that exact replay
\* cannot use when exact replay is asked for.
Refuses(row) ==
  Selected(row) /\ (row.kind = "gap" \/ (request.exact /\ row.kind = "recorded"))

\* One record of the preflight merge.
Preflight ==
  /\ phase = "preflight" /\ Ready # {}
  /\ LET s == Merged
         row == HeadRow(s) IN
       /\ IF TxnAccepts(s, row) /\ SourceAccepts(row)
            THEN /\ Advance(s, row)
                 /\ atBegin' = IF row.real < Begin THEN [atBegin EXCEPT ![row.src] = row.gen] ELSE atBegin
                 /\ phase' = IF Refuses(row) THEN "corrupt" ELSE phase
                 /\ present' = (present \/ (Selected(row) /\ row.kind \in {"row", "part"}))
            ELSE phase' = "corrupt" /\ UNCHANGED <<pos, open, gen, atBegin, present>>
  /\ UNCHANGED <<tables, corpus, request, ledger, emitted>>

PreflightEndOpenTxn ==
  /\ phase = "preflight" /\ Ready = {}
  /\ phase' = IF request.required /\ ~present THEN "absent" ELSE "reading"
  /\ pos' = [s \in Shards |-> 0] /\ open' = [s \in Shards |-> NoTxn]
  /\ gen' = [s \in Sources |-> InitialGen]
  /\ UNCHANGED <<tables, corpus, request, ledger, atBegin, present, emitted>>

\* The end of the preflight: no shard ends inside a transaction, required data
\* is there, and the cursor rewinds to the first row.
PreflightEnd ==
  /\ phase = "preflight" /\ Ready = {}
  /\ phase' = IF \E s \in Shards : open[s] # NoTxn THEN "corrupt"
              ELSE IF request.required /\ ~present THEN "absent" ELSE "reading"
  /\ pos' = [s \in Shards |-> 0] /\ open' = [s \in Shards |-> NoTxn]
  /\ gen' = [s \in Sources |-> InitialGen]
  /\ UNCHANGED <<tables, corpus, request, ledger, atBegin, present, emitted>>

\* BinaryMarketCorpusCursor::next, one merged row: skipped, emitted, or the
\* cursor fails because the files no longer hold what the preflight saw.
NextRow ==
  /\ phase = "reading" /\ Ready # {}
  /\ LET s == Merged
         row == HeadRow(s) IN
       IF TxnAccepts(s, row) /\ SourceAccepts(row) /\ ~Refuses(row)
         THEN /\ Advance(s, row) /\ phase' = phase
              /\ emitted' = IF Selected(row) THEN Append(emitted, row) ELSE emitted
         ELSE phase' = "failed" /\ UNCHANGED <<pos, open, gen, emitted>>
  /\ UNCHANGED <<tables, corpus, request, ledger, atBegin, present>>

NextEnd ==
  /\ phase = "reading" /\ Ready = {}
  /\ phase' = "exhausted"
  /\ UNCHANGED <<tables, corpus, request, ledger, pos, open, gen, atBegin, present, emitted>>

Next ==
  \/ Catalog
  \/ /\ phase = "segments"
     /\ \/ \E s \in Shards : \E row \in Candidates[s] : Decode(s, row)
        \/ \E asked \in Requests, gaps \in Ledgers : Select(asked, gaps)
  \/ Preflight \/ PreflightEnd \/ NextRow \/ NextEnd

Spec == Init /\ [][Next]_vars

-----------------------------------------------------------------------------
(* The reference: all rows in arrival order.                               *)

Tagged == UNION {{[shard |-> s, at |-> i] : i \in 1..Len(corpus[s])} : s \in Shards}
RowAt(t) == corpus[t.shard][t.at]
Earlier(t, u) ==
  \/ RowAt(t).mono < RowAt(u).mono
  \/ RowAt(t).mono = RowAt(u).mono /\ (t.shard < u.shard \/ (t.shard = u.shard /\ t.at < u.at))

Arrivals == LET order == SetToSortSeq(Tagged, Earlier) IN [i \in DOMAIN order |-> RowAt(order[i])]

\* Row i is of the generation that the earlier lifecycle rows of its source left
\* in force, or follows it.
FitsGeneration(rows, i, start) ==
  LET changes == {j \in 1..i - 1 : rows[j].kind = "change" /\ rows[j].src = rows[i].src}
      inForce == IF changes = {} THEN start[rows[i].src] ELSE rows[Max(changes)].gen
  IN  IF rows[i].kind = "change" THEN rows[i].prev = inForce /\ inForce <= rows[i].gen
      ELSE rows[i].gen = inForce

\* A corpus a reader may use: no torn row, arrival clocks that never step back
\* inside a shard, every row of the generation in force where it arrived, and
\* every transaction complete with one frame.
Sound ==
  /\ tables # "bad"
  /\ \A t \in Tagged : RowAt(t).kind # "torn"
  /\ \A s \in Shards : \A i \in 1..Len(corpus[s]) - 1 : corpus[s][i].mono <= corpus[s][i + 1].mono
  /\ LET rows == Arrivals IN
       \A i \in DOMAIN rows : FitsGeneration(rows, i, [s \in Sources |-> InitialGen])
  /\ \A s \in Shards : \A i \in 1..Len(corpus[s]) :
       corpus[s][i].kind = "part" =>
         /\ i < Len(corpus[s])
         /\ corpus[s][i + 1].kind \in {"part", "row"} /\ TxnOf(corpus[s][i + 1]) = TxnOf(corpus[s][i])

\* A selection the corpus can answer: its interval was captured, nothing of it was
\* lost, it asks for no data the interval lacks, and every row of it can be replayed
\* when asked.
Answerable ==
  /\ tables # "short"
  /\ \A g \in ledger : g.channel # "lifecycle" /\ (g.src \in request.included /\ g.channel \in request.channels =>
       ~(g.lo = 0 \/ \E t \in Begin..End - 1 : t \in g.lo..g.hi))
  /\ \A t \in Tagged : Selected(RowAt(t)) =>
       RowAt(t).kind # "gap" /\ (request.exact => RowAt(t).kind # "recorded")
  /\ request.required => \E t \in Tagged : Selected(RowAt(t)) /\ RowAt(t).kind \in {"row", "part"}

\* A selection opens exactly when the whole corpus is sound and can answer it:
\* no row is exposed from a corpus that would fail later, and no sound corpus
\* is refused.
OpensExactlySound ==
  /\ phase \in {"reading", "exhausted"} => Sound /\ Answerable
  /\ phase \in {"corrupt", "absent"} /\ request.included # {} => ~(Sound /\ Answerable)

\* The cursor never finds on its second pass what the preflight did not see.
CursorNeverFails == phase # "failed"

\* The cursor emits the selected rows in arrival order across shards, each
\* once, and all of them when it is exhausted.
EmitsArrivals ==
  phase \in {"reading", "exhausted"} =>
    LET wanted == SelectSeq(Arrivals, Selected) IN
    IsPrefix(emitted, wanted) /\ (phase = "exhausted" => emitted = wanted)

\* The wall clock never steps back along the arrival order.
SteadyClock == LET rows == Arrivals IN \A i, j \in DOMAIN rows : i < j => rows[i].real <= rows[j].real

\* The state reported for the beginning of the interval fits the rows given
\* out: each source starts in the reported generation and every emitted row is
\* of the generation that the emitted lifecycle rows lead to.
BeginFitsRows ==
  phase \in {"reading", "exhausted"} /\ SteadyClock =>
    \A i \in DOMAIN emitted : FitsGeneration(emitted, i, atBegin)
=============================================================================
