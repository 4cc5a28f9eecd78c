---- MODULE SessionReplay ----
(***************************************************************************)
(* Three machines: the timeline and its seeks (Init, Next), full-depth     *)
(* rows turned into levels (LevelInit, LevelNext), and the verdict on the  *)
(* integrity of the session (VerdictInit, VerdictNext).                    *)
(*                                                                         *)
(* The replayed session behind the viewer: rows are added file by file,    *)
(* finalize merges them into a timeline of buckets (one per timestamp), and *)
(* seek moves a cursor and an order book along the buckets.                *)
(***************************************************************************)
EXTENDS Integers, Sequences, FiniteSets, SequencesExt

CONSTANTS
    TradeFiles, TickerFiles,    \* files: sequences of rows [ts, cap, seq]; 0 is "absent"
    DepthFiles,                 \* files: sequences of deltas [ts, price, qty]; qty 0 deletes
    Times,                      \* timestamps a seek may ask for
    MaxRows                     \* bound on the rows of one channel

VARIABLES
    trades, tickers, depths,    \* rows in the order they were added
    buckets,    \* the timeline: [ts, rows], rows the depth rows of the bucket in order
    cursor,     \* buckets already applied
    book,       \* price levels with a quantity
    status,     \* status_: TRUE for Ok
    target,     \* the last timestamp asked for, or 0
    rewound     \* history: the book was rewound since the timeline was last rebuilt

vars == <<trades, tickers, depths, buckets, cursor, book, status, target, rewound>>

Init ==
    /\ trades = <<>> /\ tickers = <<>> /\ depths = <<>> /\ buckets = <<>> /\ cursor = 0
    /\ book = {} /\ status = TRUE /\ target = 0 /\ rewound = TRUE

(***************************************************************************)
(* The order of the timeline.                                              *)
(***************************************************************************)
\* rebuildEvents_: depth rows take no part in the ingest order
Event(kind, i, ts, seq) == [kind |-> kind, row |-> i, ts |-> ts, seq |-> seq]
Events ==
    {Event(0, i, depths[i].ts, 0) : i \in DOMAIN depths}
    \cup {Event(1, i, trades[i].ts, trades[i].seq) : i \in DOMAIN trades}
    \cup {Event(3, i, tickers[i].ts, tickers[i].seq) : i \in DOMAIN tickers}

Before(a, b) ==
    IF a.ts # b.ts THEN a.ts < b.ts
    ELSE IF a.seq > 0 /\ b.seq > 0 /\ a.seq # b.seq THEN a.seq < b.seq
    ELSE IF a.kind # b.kind THEN a.kind < b.kind
    ELSE a.row < b.row

\* rebuildBuckets_: only the depth rows of a bucket reach the book
Timeline ==
    LET stamps == SetToSortSeq({e.ts : e \in Events}, <)
        At(ts) == SelectSeq([i \in DOMAIN depths |-> i], LAMBDA i : depths[i].ts = ts)
    IN [k \in DOMAIN stamps |-> [ts |-> stamps[k], rows |-> [j \in DOMAIN At(stamps[k]) |-> depths[At(stamps[k])[j]]]]]

(***************************************************************************)
(* validateSequenceMetadata_                                               *)
(***************************************************************************)
AnyCap(rows) == \E i \in DOMAIN rows : rows[i].cap > 0
AnySeq(rows) == \E i \in DOMAIN rows : rows[i].seq > 0

ValidChannel(rows) ==
    /\ \A i, j \in DOMAIN rows : i < j /\ rows[i].cap > 0 /\ rows[j].cap > 0 => rows[i].cap < rows[j].cap
    /\ \A i \in 2..Len(rows) : rows[i - 1].seq > 0 /\ rows[i].seq > 0 => rows[i - 1].seq < rows[i].seq
    /\ AnyCap(rows) => \A i \in DOMAIN rows : rows[i].cap > 0
    /\ AnySeq(rows) => \A i \in DOMAIN rows : rows[i].seq > 0

Valid == ValidChannel(trades) /\ ValidChannel(tickers)

(***************************************************************************)
(* The book.                                                               *)
(***************************************************************************)
\* applyLevel
Applied(b, d) ==
    {l \in b : l.price # d.price} \cup (IF d.qty = 0 THEN {} ELSE {[price |-> d.price, qty |-> d.qty]})

\* applyBucket_ for the buckets from k to m
Advanced(b, k, m) == FoldLeft(Applied, b, FlattenSeq([n \in 1..(m - k + 1) |-> buckets[k + n - 1].rows]))

SeekNeverRewinds(t) ==
    LET upTo == Cardinality({k \in DOMAIN buckets : buckets[k].ts <= t})
        last == IF upTo < cursor THEN cursor ELSE upTo
    IN cursor' = last /\ book' = Advanced(book, cursor + 1, last)

\* A target before the bucket the cursor has reached.
Behind(t) == cursor > 0 /\ t < buckets[cursor].ts

\* seek: such a target rewinds to the snapshot (none is recorded) first
Sought(t) ==
    LET upTo == Cardinality({k \in DOMAIN buckets : buckets[k].ts <= t})
    IN /\ cursor' = upTo
       /\ book' = IF Behind(t) THEN Advanced({}, 1, upTo) ELSE Advanced(book, cursor + 1, upTo)

Seek(t) ==
    /\ target' = t
    /\ IF status THEN Sought(t) ELSE UNCHANGED <<cursor, book>>
    /\ rewound' = (rewound \/ (status /\ Behind(t)))
    /\ UNCHANGED <<trades, tickers, depths, buckets, status>>

(***************************************************************************)
(* Loading.                                                                *)

Reset ==
    /\ trades' = <<>> /\ tickers' = <<>> /\ depths' = <<>> /\ buckets' = <<>> /\ cursor' = 0
    /\ book' = {} /\ status' = TRUE /\ target' = 0 /\ rewound' = TRUE

\* A file that fails to parse leaves the rows before the bad line (k of them).
AddTrades(f, k) ==
    /\ Len(trades) + k <= MaxRows
    /\ trades' = trades \o SubSeq(f, 1, k)
    /\ UNCHANGED <<tickers, depths, buckets, cursor, book, status, target, rewound>>

AddTickers(f, k) ==
    /\ Len(tickers) + k <= MaxRows
    /\ tickers' = tickers \o SubSeq(f, 1, k)
    /\ UNCHANGED <<trades, depths, buckets, cursor, book, status, target, rewound>>

\* depth files: all rows or none, unless a partial package is allowed
AddDepth(f, k, allow) ==
    /\ Len(depths) + k <= MaxRows
    /\ depths' = IF k < Len(f) /\ ~allow THEN depths ELSE depths \o SubSeq(f, 1, k)
    /\ UNCHANGED <<trades, tickers, buckets, cursor, book, status, target, rewound>>

\* finalize: a partial depth package is corrupt but stays renderable, so only the
\* sequence numbers of the other channels decide the status
Finalize ==
    /\ buckets' = Timeline /\ cursor' = 0 /\ book' = {} /\ target' = 0 /\ rewound' = TRUE
    /\ status' = Valid
    /\ UNCHANGED <<trades, tickers, depths>>

\* refreshLiveTimeline: as finalize, but the book is not rewound
RefreshLiveTimeline ==
    /\ buckets' = Timeline /\ cursor' = 0 /\ rewound' = FALSE
    /\ status' = Valid
    /\ UNCHANGED <<trades, tickers, depths, book, target>>

\* addCandlesFile, addCandles2File: candles have no place in the timeline, but adding a
\* file puts its buckets together again from the events it was last built from
AddCandles ==
    /\ cursor' = 0 /\ rewound' = FALSE
    /\ UNCHANGED <<trades, tickers, depths, buckets, book, status, target>>

AddCandlesFails ==
    /\ status' = FALSE
    /\ UNCHANGED <<trades, tickers, depths, buckets, cursor, book, target, rewound>>

Next ==
    \/ Reset \/ Finalize \/ RefreshLiveTimeline \/ AddCandles \/ AddCandlesFails
    \/ \E t \in Times : Seek(t)
    \/ \E f \in TradeFiles : \E k \in 0..Len(f) : AddTrades(f, k)
    \/ \E f \in TickerFiles : \E k \in 0..Len(f) : AddTickers(f, k)
    \/ \E f \in DepthFiles : \E k \in 0..Len(f), allow \in BOOLEAN : AddDepth(f, k, allow)

Spec == Init /\ [][Next]_vars

(***************************************************************************)
(* Properties.                                                             *)
(***************************************************************************)

\* The book that follows from the deltas up to time t
BookAt(t) == FoldLeft(Applied, {}, FlattenSeq([k \in 1..Cardinality({b \in DOMAIN buckets : buckets[b].ts <= t})
                                                 |-> buckets[k].rows]))

\* "Advance the book forward so it contains every delta with tsNs <= targetTsNs": after
\* any sequence of forward and backward seeks the book is the one of the last target.
\* A refresh and an added candles file put the timeline together again under the book
\* (BookOfCursor); the first seek backwards, like a finalize, makes it right again.
BookFollowsSeek == status /\ rewound => book = BookAt(target)

\* "Current book reflecting all events with ts <= cursor tsNs.": the book is at every
\* moment the one of the buckets before the cursor.
BookOfCursor == status => book = Advanced({}, 1, cursor)

\* An accepted session has a timeline order at all: the comparison the sort uses is
\* transitive on its events, although rows with and without an ingest sequence number
\* are compared by different keys.
AcceptedOrder ==
    status /\ Valid =>
        \A a, b, c \in Events : Before(a, b) /\ Before(b, c) => Before(a, c)

-----------------------------------------------------------------------------
(***************************************************************************)
(* The order book a replayed session keeps: full-depth snapshots turned into*)
(* deltas, deltas applied level by level, and the filtered and best levels *)
(* the views read from it.  One side of the book; the other is its mirror. *)
(***************************************************************************)

CONSTANTS Prices, Quantities, MaxDepthRows

VARIABLES depthRows, normalised, levelBook

levelVars == <<depthRows, normalised, levelBook>>

Level(p, q) == [price |-> p, qty |-> q]

\* A recorded row: the levels it sets; a quantity of 0 deletes.  A price occurs once.
Rows == {r \in SUBSET {Level(p, q) : p \in Prices, q \in Quantities} :
            \A a, b \in r : a.price = b.price => a = b}

\* hasDeleteLevel
HasDelete(rs) == \E i \in DOMAIN rs : \E l \in rs[i] : l.qty = 0

PricesOf(r) == {l.price : l \in r}

\* normalizeFixedDepthSnapshotDeltas: each row also deletes what only the row before held
Normalised(rs) ==
    IF HasDelete(rs) THEN rs
    ELSE [i \in DOMAIN rs |-> rs[i] \cup (IF i = 1 THEN {} ELSE
             {Level(p, 0) : p \in PricesOf(rs[i - 1]) \ PricesOf(rs[i])})]

\* applyLevel, applyDelta
LevelApplied(b, r) == {l \in b : l.price \notin PricesOf(r)} \cup {l \in r : l.qty # 0}

\* filteredLevels, of the asks: the window [lo, hi] (0 is open), best first, at most n (0 is all)
Filtered(b, lo, hi, n) ==
    LET kept == SetToSortSeq({l \in b : l.qty > 0 /\ (lo > 0 => l.price >= lo) /\ (hi > 0 => l.price <= hi)},
                             LAMBDA x, y : x.price < y.price)
    IN SubSeq(kept, 1, IF n > 0 /\ n < Len(kept) THEN n ELSE Len(kept))

\* bestAskPrice and bestAskQty: a running best that starts at 0
Best(b) == FoldSet(LAMBDA l, best : IF l.qty > 0 /\ (best.price = 0 \/ l.price < best.price) THEN l ELSE best,
                   Level(0, 0), b)

LevelInit == depthRows \in BoundedSeq(Rows, MaxDepthRows) /\ normalised = Normalised(depthRows) /\ levelBook = <<{}>>

\* the next row reaches the book; the earlier books are kept as history
Apply ==
    /\ Len(levelBook) <= Len(depthRows)
    /\ levelBook' = Append(levelBook, LevelApplied(Last(levelBook), normalised[Len(levelBook)]))
    /\ UNCHANGED <<depthRows, normalised>>

LevelNext == Apply

LevelSpec == LevelInit /\ [][LevelNext]_levelVars

(***************************************************************************)
(* Properties.                                                             *)
(***************************************************************************)
\* Rows of full depth, normalised into deltas, give after each row exactly the levels of
\* that row: nothing an earlier row held survives, whatever lies between.
SnapshotsReproduced == ~HasDelete(depthRows) => \A i \in 2..Len(levelBook) : levelBook[i] = depthRows[i - 1]

\* No price is ever in the book twice and no level in it is empty.
OneLevelPerPrice == \A i \in DOMAIN levelBook : \A a, b \in levelBook[i] : a.qty > 0 /\ (a.price = b.price => a = b)

\* A bounded view is the beginning of the whole view, of the window asked for and no
\* other, so a view never hides a better level behind a worse one.
WindowIsPrefix ==
    \A lo, hi \in Prices \cup {0}, n \in 0..2 :
        LET all == Filtered(Last(levelBook), lo, hi, 0)
        IN /\ IsPrefix(Filtered(Last(levelBook), lo, hi, n), all)
           /\ n > 0 /\ all # <<>> => Filtered(Last(levelBook), lo, hi, n) # <<>>
           /\ lo = 0 /\ hi = 0 /\ all # <<>> => all[1] = Best(Last(levelBook))

-----------------------------------------------------------------------------
(***************************************************************************)
(* The verdict a replayed session carries: the health of every channel, the *)
(* incidents the capture left in the manifest, and whether the whole session*)
(* is eligible for exact replay.  Rows are abstracted to "has rows" and to *)
(* what the sequence numbers of the rows say.                              *)
(***************************************************************************)

CONSTANTS
    Streams,        \* a subset of {"trades", "ticker", "depth"}
    Hinted          \* those a manifest may report an incident or staleness of

VARIABLES
    hints,      \* manifestHints_
    rowKinds,       \* channels with rows
    mixed,      \* channels whose sequence numbers do not increase or are not on every row
    unproved,   \* channels with only one of the two sequence numbers
    repeated,   \* a trade and a book ticker have the same ingest sequence number
    partial,    \* partialDepthCorrupt_
    sum,        \* integritySummary_ of each channel: [state, exact, incidents]
    exact, health, accepted,
    lastCall        \* history: the last operation

verdictVars == <<hints, rowKinds, mixed, unproved, repeated, partial, sum, exact, health, accepted, lastCall>>

Fresh == [state |-> "not_captured", exact |-> FALSE, incidents |-> 0]

\* a session without a manifest: every channel enabled and required
NoHints == [enabled |-> Streams, required |-> Streams, captured |-> {}, exact |-> TRUE, stale |-> {}]

Hints == {h \in [enabled : SUBSET Streams, required : SUBSET Streams, captured : SUBSET Hinted,
                 exact : BOOLEAN, stale : SUBSET (Hinted \ {"trades"})] : h.required \subseteq h.enabled}

VerdictInit ==
    /\ hints = NoHints /\ rowKinds = {} /\ mixed = {} /\ unproved = {} /\ repeated = FALSE /\ partial = FALSE
    /\ sum = [c \in Streams |-> Fresh] /\ exact = FALSE /\ health = "clean" /\ accepted = TRUE /\ lastCall = "reset"

(***************************************************************************)
(* The steps of the verdict.                                               *)
(***************************************************************************)
\* noteIncident_, and the corrupt state that goes with an error
Noted(s, cs) == [c \in Streams |-> IF c \in cs THEN [s[c] EXCEPT !.incidents = @ + 1] ELSE s[c]]
Broken(s, cs) == [c \in Streams |-> IF c \in cs THEN [state |-> "corrupt", exact |-> FALSE, incidents |-> s[c].incidents + 1]
                                    ELSE s[c]]

\* resetIntegrity_
ResetIntegrity(h) == Noted([c \in Streams |-> Fresh], h.captured)

\* finalizeChannelStates_, trades and book ticker
SimpleState(c, s, h, r) ==
    IF c \notin h.enabled THEN [s EXCEPT !.state = "not_captured", !.exact = FALSE]
    ELSE IF s.state = "corrupt" THEN [s EXCEPT !.exact = FALSE]
    ELSE IF s.incidents # 0 THEN [s EXCEPT !.state = "degraded", !.exact = FALSE]
    ELSE IF c \notin r /\ c \in h.required THEN [state |-> "missing", exact |-> FALSE, incidents |-> 1]
    ELSE [s EXCEPT !.state = "clean", !.exact = TRUE]

\* finalizeChannelStates_, depth: a missing depth is no incident
DepthState(s, h, r) ==
    IF "depth" \notin h.enabled THEN [s EXCEPT !.state = "not_captured", !.exact = FALSE]
    ELSE IF s.state = "corrupt" THEN [s EXCEPT !.exact = FALSE]
    ELSE IF "depth" \notin r /\ "depth" \in h.required THEN [s EXCEPT !.state = "missing", !.exact = FALSE]
    ELSE IF s.incidents = 0 THEN [s EXCEPT !.state = "clean", !.exact = TRUE]
    ELSE [s EXCEPT !.state = "degraded", !.exact = FALSE]

ChannelStates(s, h, r) ==
    [c \in Streams |-> IF c = "depth" THEN DepthState(s[c], h, r) ELSE SimpleState(c, s[c], h, r)]

\* refreshHealthSummary_
Refreshed(s, h, r) ==
    LET t == ChannelStates(s, h, r)
    IN /\ sum' = t
       /\ exact' = (h.enabled # {} /\ h.exact /\ \A c \in h.enabled : t[c].exact)
       /\ health' = IF \E c \in Streams : t[c].state = "corrupt" THEN "corrupt"
                    ELSE IF ~h.exact \/ \E c \in Streams : t[c].state \in {"degraded", "missing"} THEN "degraded"
                    ELSE "clean"

\* The channels that are not corrupt become degraded.
Degraded(s) == [c \in Streams |-> IF s[c].state = "corrupt" THEN s[c] ELSE [s[c] EXCEPT !.state = "degraded"]]

\* validateSequenceMetadata_: trades and book ticker only, and the first fault of a channel
\* ends it.  When neither has one, a number they share is noted as an incident of trades.
Validated(s, m, u, d) ==
    LET t == Noted(Broken(s, m), u \ m)
    IN IF m = {} /\ d THEN Noted(Degraded(t), {"trades"}) ELSE t

\* markStaleLiveChannels_
Stale(s, h, r) == Noted(s, h.stale \cap h.enabled \cap r)

\* restorePartialDepthIncident_
PartialRestored(s, p) == IF p THEN Broken(s, {"depth"}) ELSE s

\* finalize: a corrupt session is still shown when its only fault is a partial depth package
Finalized(h, r, m, u, d, p) ==
    /\ Refreshed(Stale(Validated(PartialRestored(ResetIntegrity(h), p), m, u, d), h, r), h, r)
    /\ accepted' = (m = {} /\ (health' = "corrupt" => p))

(***************************************************************************)
(* Operations.                                                             *)

VerdictReset ==
    /\ hints' = NoHints /\ rowKinds' = {} /\ mixed' = {} /\ unproved' = {} /\ repeated' = FALSE /\ partial' = FALSE
    /\ sum' = [c \in Streams |-> Fresh] /\ exact' = FALSE /\ health' = "clean" /\ accepted' = TRUE /\ lastCall' = "reset"

\* open, when the corpus loads: manifest, rows, finalize and the report.  It begins with a
\* reset, so it is enough to let it follow one (in Next).
OpenLoads(h, r, m, u, d) ==
    /\ hints' = h /\ rowKinds' = r /\ mixed' = m /\ unproved' = u /\ repeated' = d /\ partial' = FALSE
    /\ lastCall' = "open"
    /\ Finalized(h, r, m, u, d, FALSE)

\* open, when the loader reports an issue (with the channel it names, if any)
OpenFails(h, faulty) ==
    /\ hints' = h /\ rowKinds' = {} /\ mixed' = {} /\ unproved' = {} /\ repeated' = FALSE /\ partial' = FALSE
    /\ lastCall' = "open"
    /\ Refreshed(Broken(ResetIntegrity(h), faulty), h, {})
    /\ accepted' = FALSE

\* A number can be repeated only between rows of both channels.
Repeats(r) == IF {"trades", "ticker"} \subseteq r THEN BOOLEAN ELSE {FALSE}

\* Rows of c are added, with the sequence numbers they happen to have.
Grows(c) ==
    /\ rowKinds' = rowKinds \cup {c}
    /\ \E bad, one \in SUBSET {c} : mixed' = mixed \cup bad /\ unproved' = unproved \cup one
    /\ \E d \in Repeats(rowKinds') : repeated' = (repeated \/ d)

\* addTradesFile, addBookTickerFile: a file that does not parse leaves its first rows
AddLoads(c) ==
    /\ c # "depth" /\ lastCall' = "add"
    /\ Grows(c)
    /\ UNCHANGED <<hints, partial, sum, exact, health, accepted>>

AddFails(c) ==
    /\ c # "depth" /\ lastCall' = "add"
    /\ sum[c].incidents < 2
    /\ Grows(c) \/ UNCHANGED <<rowKinds, mixed, unproved, repeated>>
    /\ sum' = Broken(sum, {c})
    /\ UNCHANGED <<hints, partial, exact, health, accepted>>

AddDepthLoads == "depth" \in Streams /\ rowKinds' = rowKinds \cup {"depth"} /\ lastCall' = "add"
                 /\ UNCHANGED <<hints, mixed, unproved, repeated, partial, sum, exact, health, accepted>>

\* addDepthFile_ that fails refreshes the verdict at once
AddDepthFails(allow) ==
    /\ "depth" \in Streams /\ lastCall' = "add"
    /\ \A c \in Streams : sum[c].incidents < 2
    /\ rowKinds' \in {rowKinds} \cup (IF allow THEN {rowKinds \cup {"depth"}} ELSE {})
    /\ partial' = (partial \/ (allow /\ "depth" \in rowKinds'))
    /\ Refreshed(Broken(sum, {"depth"}), hints, rowKinds')
    /\ UNCHANGED <<hints, mixed, unproved, repeated, accepted>>

VerdictFinalize ==
    /\ lastCall' = "finalize"
    /\ Finalized(hints, rowKinds, mixed, unproved, repeated, partial)
    /\ UNCHANGED <<hints, rowKinds, mixed, unproved, repeated, partial>>

\* refreshLiveTimeline restores no partial depth
RefreshLive ==
    /\ lastCall' = "refresh"
    /\ Refreshed(Stale(Validated(ResetIntegrity(hints), mixed, unproved, repeated), hints, rowKinds), hints, rowKinds)
    /\ accepted' = (mixed = {} /\ health' # "corrupt")
    /\ UNCHANGED <<hints, rowKinds, mixed, unproved, repeated, partial>>

VerdictNext ==
    \/ VerdictReset \/ VerdictFinalize \/ RefreshLive \/ AddDepthLoads
    \/ \E allow \in BOOLEAN : AddDepthFails(allow)
    \/ \E c \in Streams : AddLoads(c) \/ AddFails(c)
    \/ lastCall = "reset" /\ \E h \in Hints :
          \/ \E r \in SUBSET Streams : \E m, u \in SUBSET (r \ {"depth"}), d \in Repeats(r) :
                OpenLoads(h, r, m, u, d)
          \/ \E faulty \in {{}} \cup {{c} : c \in Streams} : OpenFails(h, faulty)

VerdictSpec == VerdictInit /\ [][VerdictNext]_verdictVars

(***************************************************************************)
(* Properties.                                                             *)
(***************************************************************************)

\* "Reopening and integrity-report generation retain finalized negative exactness and
\* capture incidents": whatever is added, finalized or refreshed after open, a session
\* captured with an incident on an enabled channel, or not exactly, is never exact.
NegativeRetained == exact => hints.exact /\ hints.captured \cap hints.enabled = {}

\* A second finalize with nothing added in between changes no verdict and counts no
\* incident twice.
FinalizeStable ==
    VerdictFinalize /\ accepted /\ lastCall \in {"finalize", "open"} => (UNCHANGED <<sum, exact, health, accepted>>)

\* An exact session, once its verdict is drawn, has rows on every required channel, and
\* on none of its enabled channels sequence numbers that leave the order unproved; when
\* both are enabled, no trade shares its number with a book ticker.
ExactMeansProved ==
    exact /\ lastCall # "add" =>
        /\ hints.required \subseteq rowKinds
        /\ (mixed \cup unproved) \cap hints.enabled = {}
        /\ repeated => ~({"trades", "ticker"} \subseteq hints.enabled)
        /\ hints.stale \cap rowKinds \cap hints.enabled = {}

\* A session that may be shown although corrupt is corrupt in its depth only, and the
\* rows of that incomplete depth package never make it exact.
PartialOnly ==
    lastCall \in {"open", "finalize"} /\ accepted =>
        /\ \A c \in Streams \ {"depth"} : sum[c].state # "corrupt"
        /\ partial /\ "depth" \in hints.enabled => ~exact /\ sum["depth"].state = "corrupt"

=============================================================================
