---- MODULE ChartView ----
(***************************************************************************)
(* Two machines: the window of the chart (Init, Next), and the picture of  *)
(* it (SnapshotInit, SnapshotNext).                                        *)
(*                                                                         *)
(* The window of the chart over a loaded session: where a load, a fit or a *)
(* change of the render window puts it, and how it is moved and zoomed.    *)
(* Rows are [ts, p] pairs, in time order per channel.  A depth row's price *)
(* counts only once the replay's book was moved past it by a picture.      *)
(***************************************************************************)
EXTENDS Integers, FiniteSetsExt, Sequences, SequencesExt

CONSTANTS Stamps, Prices,
          MinimumWindow,    \* kMinimumRecordedWindowNs, even
          Limit,            \* renderWindowSeconds_ when it is positive
          MaxSessionRows,   \* bound: rows of a session
          MaxActs

Rows == [ts : Stamps, p : Prices]
AtMost(n) == UNION {kSubset(k, Rows) : k \in 0..n}
Sorted(sessionRows) == \A a, b \in sessionRows : a.ts = b.ts => a = b

VARIABLES sessionRows, window, mode, book, acts, lastMove
vars == <<sessionRows, window, mode, book, acts, lastMove>>

Channels == {"ticker", "trades", "depth", "candles"}
All == UNION {sessionRows[c] : c \in Channels}

Init ==
    /\ \E k \in AtMost(2), t, d, c \in AtMost(1) :
          /\ Sorted(k)
          /\ Cardinality(k) + Cardinality(t) + Cardinality(d) + Cardinality(c) \in 1..MaxSessionRows
          /\ sessionRows = [ticker |-> k, trades |-> t, depth |-> d, candles |-> c]
    /\ window = [tMin |-> 0, tMax |-> 0, pMin |-> 0, pMax |-> 0] /\ book = {}
    /\ mode \in {"all", "latest", "limited"} /\ acts = 0 /\ lastMove = "start"

First(s) == Min({r.ts : r \in s})
End(s) == Max({r.ts : r \in s})
Least(s) == Min({r.p : r \in s})
Most(s) == Max({r.p : r \in s})

\* integer division and conversion of the code round towards zero
Half(n) == IF n >= 0 THEN n \div 2 ELSE -((-n) \div 2)

(***************************************************************************)
(* computeInitialViewport_                                                 *)
(***************************************************************************)
Anchored(s) == IF sessionRows.ticker = {} THEN s ELSE {r \in s : r.ts >= First(sessionRows.ticker)}
Market == sessionRows.ticker \cup Anchored(sessionRows.trades) \cup Anchored(sessionRows.depth)
Timed == IF Market # {} THEN Market ELSE sessionRows.candles

\* the time span of the rows, at least MinimumWindow: from the first quote on, or about the middle
FitTime ==
    LET a == First(Timed)
        b == IF End(Timed) = a THEN a + 1 ELSE End(Timed)
        centre == a + (b - a) \div 2
    IN IF b - a >= MinimumWindow THEN [from |-> a, to |-> b]
       ELSE IF sessionRows.ticker # {} THEN [from |-> First(sessionRows.ticker), to |-> Max({b, First(sessionRows.ticker) + MinimumWindow})]
       ELSE [from |-> Max({0, centre - MinimumWindow \div 2}), to |-> centre + MinimumWindow \div 2]

\* trades and quotes, else the levels of the book, else candles
Priced ==
    LET quoted == Anchored(sessionRows.trades) \cup sessionRows.ticker
        bookOrQuoted == IF quoted # {} THEN quoted ELSE book
    IN IF bookOrQuoted # {} THEN bookOrQuoted ELSE sessionRows.candles

FitPrice ==
    LET a == IF Priced = {} THEN 0 ELSE Least(Priced)
        b == IF Priced = {} THEN 1 ELSE IF Most(Priced) = a THEN a + 1 ELSE Most(Priced)
        pad == (b - a) \div 10 + 1
    IN [low |-> Max({0, a - pad}), high |-> b + pad]

Fitted == [tMin |-> FitTime.from, tMax |-> FitTime.to, pMin |-> FitPrice.low, pMax |-> FitPrice.high]

(***************************************************************************)
(* applyRecordedRenderWindowViewport_                                      *)
(***************************************************************************)
\* firstTsNs, lastTsNs of the replay's timeline
Timeline == IF sessionRows.ticker \cup sessionRows.trades \cup sessionRows.depth # {} THEN sessionRows.ticker \cup sessionRows.trades \cup sessionRows.depth
            ELSE sessionRows.candles
Anchor == IF sessionRows.ticker # {} THEN First(sessionRows.ticker) ELSE First(Timeline)

Applied(v, m) ==
    LET latest == End(All)
        least == IF latest > MinimumWindow THEN latest - MinimumWindow ELSE 0
        limited == IF latest <= Limit THEN 0 ELSE latest - Limit
        a == IF m = "latest" THEN Max({Anchor, least}) ELSE Max({Anchor, Min({limited, least})})
        from == IF m = "latest" /\ latest <= a THEN Max({0, latest - 1}) ELSE a
    IN IF m = "all" THEN v
       ELSE [v EXCEPT !.tMin = from, !.tMax = IF latest <= from THEN from + 1 ELSE latest]

(***************************************************************************)
(* Operations.                                                             *)
(***************************************************************************)
Act(name) == acts < MaxActs /\ acts' = acts + 1 /\ lastMove' = name /\ UNCHANGED sessionRows

\* the end of a load of the first rows
Load == Act("load") /\ lastMove = "start" /\ window' = Applied(Fitted, mode) /\ UNCHANGED <<mode, book>>

Loaded == lastMove # "start"

AutoFit == Act("fit") /\ Loaded /\ window' = Fitted /\ UNCHANGED <<mode, book>>

SetRenderWindowSeconds(m) ==
    /\ Act("mode") /\ Loaded /\ mode' = m /\ m # mode
    /\ window' = Applied(window, m)
    /\ UNCHANGED book

\* setViewport: a window without a width or a height is refused
SetViewport(t, p) ==
    /\ Act("set") /\ Loaded /\ t[1] < t[2] /\ p[1] < p[2]
    /\ window' = [tMin |-> t[1], tMax |-> t[2], pMin |-> p[1], pMax |-> p[2]]
    /\ UNCHANGED <<mode, book>>

\* panTime, panPrice: by a fraction of the window
PanTime(n) == /\ Act("pan") /\ Loaded
              /\ LET dt == n * Half(window.tMax - window.tMin) IN window' = [window EXCEPT !.tMin = @ + dt, !.tMax = @ + dt]
              /\ UNCHANGED <<mode, book>>
PanPrice(n) == /\ Act("pan") /\ Loaded
               /\ LET dp == n * Half(window.pMax - window.pMin) IN window' = [window EXCEPT !.pMin = @ + dp, !.pMax = @ + dp]
               /\ UNCHANGED <<mode, book>>

\* zoomTime, zoomPrice: about the centre, out by two or in by two, never to nothing
Zoomed(a, b, double) ==
    LET centre == Half(a + b)
        half == IF double THEN b - a ELSE Half(Half(b - a))
    IN [low |-> centre - half, high |-> Max({centre - half + 1, centre + half})]

ZoomTime(double) ==
    /\ Act(IF double THEN "out" ELSE "in") /\ Loaded
    /\ LET z == Zoomed(window.tMin, window.tMax, double) IN window' = [window EXCEPT !.tMin = z.low, !.tMax = z.high]
    /\ UNCHANGED <<mode, book>>
ZoomPrice(double) ==
    /\ Act(IF double THEN "out" ELSE "in") /\ Loaded
    /\ LET z == Zoomed(window.pMin, window.pMax, double) IN window' = [window EXCEPT !.pMin = z.low, !.pMax = z.high]
    /\ UNCHANGED <<mode, book>>

JumpToStart == /\ Act("jump") /\ Loaded
               /\ window' = [window EXCEPT !.tMin = First(Timeline), !.tMax = First(Timeline) + (window.tMax - window.tMin)]
               /\ UNCHANGED <<mode, book>>
JumpToEnd == /\ Act("jump") /\ Loaded
             /\ window' = [window EXCEPT !.tMax = End(Timeline), !.tMin = End(Timeline) - (window.tMax - window.tMin)]
             /\ UNCHANGED <<mode, book>>

\* a picture moves the replay's book to the end of the window
Paint == /\ Act("paint") /\ Loaded /\ book' = {d \in sessionRows.depth : d.ts <= window.tMax} /\ UNCHANGED <<window, mode>>

Next ==
    \/ Load \/ AutoFit \/ JumpToStart \/ JumpToEnd \/ Paint
    \/ \E m \in {"all", "latest", "limited"} : SetRenderWindowSeconds(m)
    \/ \E t \in {<<3, 3>>, <<3, 4>>, <<0, 9>>}, p \in {<<2, 2>>, <<1, 6>>} : SetViewport(t, p)
    \/ \E n \in {-1, 1} : PanTime(n) \/ PanPrice(n)
    \/ \E double \in BOOLEAN : ZoomTime(double) \/ ZoomPrice(double)

Spec == Init /\ [][Next]_vars

(***************************************************************************)
(* Properties.                                                             *)
(***************************************************************************)
\* Whatever is loaded and however the window is moved, it keeps a width and a height: the
\* pictures and the conversions of coordinates divide by both.
WindowHasExtent == Loaded => window.tMin < window.tMax /\ window.pMin < window.pMax

\* A fit shows every trade, quote and depth row from the first quote on (every candle where
\* there is nothing else), and every price of the trades and quotes among them, or where there
\* are none the levels of the book as far as the replay has moved it.
FitShowsRows ==
    lastMove = "fit" \/ (lastMove = "load" /\ mode = "all") =>
        /\ \A r \in Timed : window.tMin <= r.ts /\ r.ts <= window.tMax
        /\ \A r \in sessionRows.ticker \cup Anchored(sessionRows.trades) : window.pMin <= r.p /\ r.p <= window.pMax
        /\ sessionRows.ticker \cup Anchored(sessionRows.trades) = {} => \A r \in book : window.pMin <= r.p /\ r.p <= window.pMax

\* With a limited render window, a load or a change of the limit puts the latest row into the
\* window: it is the one that is certain to be drawn.
LatestInWindow ==
    lastMove \in {"load", "mode"} /\ mode # "all" => window.tMin <= End(All) /\ End(All) <= window.tMax

\* Zooming works about the centre: what is shown after zooming in was shown before, what was
\* shown before zooming out is still shown, for any number of zooms in a row (of times, which
\* are never negative: rounding towards zero would move a window of negative values).
ZoomNests ==
    /\ acts' > acts /\ lastMove' = "in" /\ window.tMin >= 0 => window.tMin <= window'.tMin /\ window'.tMax <= window.tMax
    /\ acts' > acts /\ lastMove' = "out" /\ window.tMin >= 0 => window'.tMin <= window.tMin /\ window.tMax <= window'.tMax

-----------------------------------------------------------------------------
(***************************************************************************)
(* What the chart prepares for one picture of a recorded session: the order *)
(* book as segments of time, the best quote as a stepped line with samples, *)
(* the trades as grouped dots.  Rows arrive in time order; the window and  *)
(* the render window (everything, the latest row only, the last Limit of   *)
(* time) move at will.  A row's price is abstracted to 1 or 2 inside the   *)
(* window, 0 outside it or not quoted; one side of the quote stands for    *)
(* both.                                                                   *)
(***************************************************************************)

CONSTANTS MaxT, Width, MinSegmentPx, SampleStepPx, SnapshotLimit, Windows, MaxRows

VARIABLES tickers, snapshotTrades, depths,   \* rows of the replay
          vp,                        \* [tMin, tMax]
          snapshotMode                       \* "all", "latest" or "limited"

snapshotVars == <<tickers, snapshotTrades, depths, vp, snapshotMode>>

Times(rows) == {rows[i].ts : i \in DOMAIN rows}
Events == Times(tickers) \cup Times(snapshotTrades) \cup depths

SnapshotInit == /\ tickers = <<>> /\ snapshotTrades = <<>> /\ depths = {}
                /\ vp \in {[tMin |-> w[1], tMax |-> w[2]] : w \in Windows} /\ snapshotMode = "all"

(***************************************************************************)
(* Coordinates.                                                            *)
(***************************************************************************)
Span == vp.tMax - vp.tMin
Clamp(x, lo, hi) == Max({lo, Min({x, hi})})

\* bookTickerTraceRoundedX: round(clamp(toX(t), 0, w))
X(t) == (2 * Clamp((t - vp.tMin) * Width, 0, Span * Width) + Span) \div (2 * Span)
FloorX(t) == Clamp((t - vp.tMin) * Width, 0, Span * Width) \div Span
CeilX(t) == (Clamp((t - vp.tMin) * Width, 0, Span * Width) + Span - 1) \div Span

\* bookTickerTraceTimestampAtX, times 2 * Width so that it stays exact
TimeAtX2(x) == 2 * Width * vp.tMin + 2 * Span * x

\* minPixelTimeSpanNs
PixelTime == Max({1, (Span + Width - 1) \div Width})

(***************************************************************************)
(* The part of the rows that is drawn.                                     *)
(***************************************************************************)
\* latestRenderableTsNs_, latestOrderbookTsNs_
Latest == IF Events = {} THEN 0 ELSE Max(Events)
LatestDepth == IF depths = {} THEN Latest ELSE Max(depths)

\* effectiveRenderMinTs_
EffectiveMin(t) == IF t <= SnapshotLimit THEN 0 ELSE t - SnapshotLimit

RenderMin == CASE snapshotMode = "latest" -> Latest [] snapshotMode = "limited" -> EffectiveMin(Latest) [] OTHER -> vp.tMin
RenderMax == IF snapshotMode # "all" /\ Latest > 0 THEN Min({vp.tMax, Latest}) ELSE vp.tMax

\* the early returns of buildSnapshot
Drawable == Events # {} /\ (snapshotMode # "all" => Latest > 0 /\ RenderMax >= RenderMin)

(***************************************************************************)
(* The order book.                                                         *)
(***************************************************************************)
CoverageStart ==
    IF snapshotMode = "latest" THEN Max({Min(Events), vp.tMin, LatestDepth - PixelTime})
    ELSE Max({Min(Events), IF snapshotMode = "limited" THEN EffectiveMin(Latest) ELSE vp.tMin})
CoverageEnd ==
    IF snapshotMode = "latest" THEN Min({vp.tMax, Max({Min({vp.tMax, LatestDepth + 1}), LatestDepth + PixelTime})})
    ELSE Min({vp.tMax, Max(Events)})

\* the book after every row up to a time: the depth row it was last changed by, 0 for no book
BookAt(t) == Max({0} \cup {d \in depths : d <= t})

\* emitSegment: nothing for an empty stretch, less than a pixel, or a book without levels
Emitted(segs, a, b, at) ==
    IF b <= a \/ CeilX(b) - FloorX(a) < 1 \/ BookAt(at) = 0 THEN segs
    ELSE Append(segs, [start |-> a, end |-> b, at |-> at])

Wide(a, b) == (b - a) * Width >= MinSegmentPx * Span

\* one turn of the loop over the buckets: a segment ends at a bucket once it is wide enough, and
\* the replay's book moves past the bucket either way
Stepped(s, t) ==
    IF Wide(s.start, t) THEN [start |-> t, at |-> t, segs |-> Emitted(s.segs, s.start, t, s.at)]
    ELSE [s EXCEPT !.at = t]

Buckets(a, b) == SetToSortSeq({t \in Events : a < t /\ t <= b}, LAMBDA p, q : p < q)

BookSegments ==
    IF ~Drawable \/ CoverageEnd <= CoverageStart THEN <<>>
    ELSE LET walk == FoldLeft(Stepped, [start |-> CoverageStart, at |-> CoverageStart, segs |-> <<>>],
                              Buckets(CoverageStart, CoverageEnd))
         IN Emitted(walk.segs, walk.start, CoverageEnd, walk.at)

(***************************************************************************)
(* The quote line.                                                         *)
(***************************************************************************)
NoTrace == [active |-> FALSE, x |-> 0, y |-> 0, lines |-> <<>>, samples |-> <<>>]

\* appendBookTickerTraceLine, its horizontal pieces
AppendLine(s, a, b, y) ==
    LET x0 == IF s.active /\ a < s.x THEN s.x ELSE a
        x1 == IF b <= x0 THEN x0 + 1 ELSE b
        gap == IF s.active /\ s.x < x0 THEN <<[from |-> s.x, to |-> x0, y |-> s.y]>> ELSE <<>>
    IN [s EXCEPT !.active = TRUE, !.x = x1, !.y = y,
                 !.lines = @ \o gap \o <<[from |-> x0, to |-> x1, y |-> y]>>]

\* appendBookTickerTraceSamples: every few pixels, and the last one
SamplePixels(a, b, last) ==
    LET to == Min({Width, b}) - (IF last THEN 0 ELSE 1)
    IN IF to < a THEN {} ELSE {to} \cup {x \in a..to : (x - a) % SampleStepPx = 0}

AppendSamples(s, i, a, b, last) ==
    [s EXCEPT !.samples = @ \o SetToSortSeq({[x |-> x, row |-> i] : x \in SamplePixels(a, b, last)},
                                           LAMBDA p, q : p.x < q.x)]

\* appendBookTickerTraceSegment
AppendSegment(s, i, from, to, last) ==
    LET a == X(from)
        b == IF X(to) <= a /\ a < Width THEN a + 1 ELSE X(to)
    IN IF to < from THEN s
       ELSE IF tickers[i].bid = 0 THEN [s EXCEPT !.active = FALSE]
       ELSE AppendSamples(AppendLine(s, a, b, tickers[i].bid), i, a, b, last)

EndOf(i, max) == IF i < Len(tickers) THEN Min({tickers[i + 1].ts, max}) ELSE max

\* buildBookTickerTrace: the quote in force at the left edge is carried in
BuildTrace(min, max) ==
    LET before == {i \in DOMAIN tickers : tickers[i].ts < min}
        carry == IF before = {} THEN 0 ELSE Max(before)
        shown == SelectSeq([i \in DOMAIN tickers |-> i], LAMBDA i : tickers[i].ts >= min /\ tickers[i].ts <= max)
        first == IF carry > 0 /\ tickers[carry].bid > 0
                 THEN AppendSegment(NoTrace, carry, min, EndOf(carry, max), FALSE) ELSE NoTrace
    IN FoldLeft(LAMBDA s, i : AppendSegment(s, i, tickers[i].ts, EndOf(i, max),
                                            ~(i < Len(tickers) /\ tickers[i + 1].ts <= max)), first, shown)

\* buildLatestBookTickerTrace
LatestTrace ==
    LET i == Len(tickers) IN
    IF tickers[i].ts < vp.tMin \/ tickers[i].ts > vp.tMax THEN NoTrace
    ELSE AppendSegment(NoTrace, i, tickers[i].ts, tickers[i].ts, TRUE)

Trace ==
    IF ~Drawable \/ tickers = <<>> THEN NoTrace
    ELSE IF snapshotMode = "latest" THEN LatestTrace
    ELSE LET min == Max({RenderMin, vp.tMin})
             max == Min({RenderMax, Last(tickers).ts, vp.tMax})
         IN IF max < min THEN NoTrace ELSE BuildTrace(min, max)

(***************************************************************************)
(* The trades.                                                             *)
(***************************************************************************)
\* the range of the trades, and what of it falls into the window
VisibleTrades ==
    IF ~Drawable THEN <<>>
    ELSE SelectSeq(snapshotTrades, LAMBDA t : /\ t.price > 0 /\ vp.tMin <= t.ts /\ t.ts <= vp.tMax
                                              /\ IF snapshotMode = "latest" THEN t = Last(snapshotTrades)
                                                 ELSE RenderMin <= t.ts /\ t.ts <= RenderMax)

\* appendGroupedTradeDot
AppendGrouped(dots, t) ==
    IF dots # <<>> /\ Last(dots).ts = t.ts /\ Last(dots).price = t.price /\ Last(dots).buy = t.buy
    THEN [dots EXCEPT ![Len(dots)] = [@ EXCEPT !.total = @ + t.qty, !.count = @ + 1]]
    ELSE Append(dots, [ts |-> t.ts, price |-> t.price, buy |-> t.buy, total |-> t.qty, count |-> 1])

TradeDots == FoldLeft(AppendGrouped, <<>>, VisibleTrades)

(***************************************************************************)
(* Rows arrive in time order, the operator moves the window.               *)
(***************************************************************************)
Room == Len(tickers) + Len(snapshotTrades) + Cardinality(depths) < MaxRows

AddTicker(t, p) == /\ Room /\ \A s \in Times(tickers) : s <= t
                   /\ tickers' = Append(tickers, [ts |-> t, bid |-> p]) /\ UNCHANGED <<snapshotTrades, depths, vp, snapshotMode>>

AddTrade(t, p, b) == /\ Room /\ \A s \in Times(snapshotTrades) : s <= t
                     /\ snapshotTrades' = Append(snapshotTrades, [ts |-> t, price |-> p, buy |-> b, qty |-> Len(snapshotTrades) + 1])
                     /\ UNCHANGED <<tickers, depths, vp, snapshotMode>>

AddDepth(t) == /\ Room /\ \A d \in depths : d < t
               /\ depths' = depths \cup {t} /\ UNCHANGED <<tickers, snapshotTrades, vp, snapshotMode>>

\* setRenderWindowSeconds, as far as what is drawn
SetMode(m) == m # snapshotMode /\ snapshotMode' = m /\ UNCHANGED <<tickers, snapshotTrades, depths, vp>>

SnapshotNext == \/ \E t \in 1..MaxT, p \in 0..2 : AddTicker(t, p)
                \/ \E t \in 1..MaxT, p \in {1}, b \in BOOLEAN : AddTrade(t, p, b)
                \/ \E t \in 1..MaxT : AddDepth(t)
                \/ \E m \in {"latest", "limited"} : snapshotMode = "all" /\ SetMode(m)

SnapshotSpec == SnapshotInit /\ [][SnapshotNext]_snapshotVars

(***************************************************************************)
(* Properties.                                                             *)
(***************************************************************************)
\* A segment shows the newest book before its end, and a book newer than its start by less
\* than the width below which segments are merged: merging never draws an old book over a
\* stretch where it no longer held, and never a book from further ahead than it merges.
SegmentBookIsCurrent ==
    LET segs == BookSegments IN
    \A k \in DOMAIN segs :
        LET s == segs[k]
        IN /\ \A d \in depths : ~(s.at < d /\ d < s.end)
           /\ s.at < s.end \/ s.end = CoverageEnd
           /\ s.at > s.start => ~Wide(s.start, s.at)

\* Segments do not overlap, and leave no hole: once there is a book, every instant of the drawn
\* range inside the window is in a segment.
SegmentsCover ==
    LET segs == BookSegments IN
    /\ \A j, k \in DOMAIN segs : j < k => segs[j].end <= segs[k].start
    /\ Drawable => \A t \in CoverageStart..(CoverageEnd - 1) :
            t >= vp.tMin /\ BookAt(t) > 0 => \E k \in DOMAIN segs : segs[k].start <= t /\ t < segs[k].end

\* the quotes in force between two times (times 2 * Width)
InForce(a2, b2) ==
    {i \in DOMAIN tickers : 2 * Width * tickers[i].ts <= b2
                            /\ \A j \in DOMAIN tickers : j > i => 2 * Width * tickers[j].ts >= a2}

\* A sample that the cursor reads shows a quote in force within half a pixel of the sample's time.
SamplesAreQuotes ==
    LET samples == Trace.samples IN
    \A k \in DOMAIN samples :
        LET s == samples[k]
        IN s.row \in InForce(TimeAtX2(s.x) - Span, TimeAtX2(s.x) + Span)

OneQuotePerPixel == \A i, j \in DOMAIN tickers : i < j => X(tickers[i].ts) < X(tickers[j].ts)

\* While no two quotes share a pixel, the stepped line is at a price in force within half a
\* pixel of where it is drawn.  (Every further quote in a pixel pushes the line one pixel to the right.)
LineInPlace ==
    LET lines == Trace.lines IN
    OneQuotePerPixel => \A k \in DOMAIN lines :
        LET l == lines[k]
        IN \A x \in l.from..(l.to - 1) :
            \E i \in InForce(TimeAtX2(x) - Span, TimeAtX2(x + 1) + Span) : tickers[i].bid = l.y

\* Grouping trades into dots loses and invents none, and a dot stands for trades of one side at
\* one price and time.
GroupsConserve ==
    LET dots == TradeDots
        seen == VisibleTrades
        OfDot(d) == SelectSeq(seen, LAMBDA t : t.ts = d.ts /\ t.price = d.price /\ t.buy = d.buy)
    IN /\ FoldLeft(LAMBDA n, d : n + d.total, 0, dots) = FoldLeft(LAMBDA n, t : n + t.qty, 0, seen)
       /\ \A k \in DOMAIN dots : dots[k].count <= Len(OfDot(dots[k]))

=============================================================================
