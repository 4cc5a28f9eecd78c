---- MODULE ComparePage ----
(***************************************************************************)
(* Two machines: the controller of the comparison (Init, Next), and what   *)
(* it computes and draws (SpreadInit, SpreadNext).                         *)
(*                                                                         *)
(* The controller of the comparison chart: two chosen sessions, a chosen   *)
(* backtest result, the lower pane picked from what there is to show, and  *)
(* the time and value windows.  Rows, overlays and usages are the sets of  *)
(* their times.  A live source cannot be opened: nothing registers sources *)
(* with the live registry, so its provider is always missing.              *)
(***************************************************************************)
EXTENDS Integers, FiniteSetsExt, Sequences, SequencesExt

CONSTANTS Sessions,       \* recorded sessions
          Quoted,         \* Quoted[s]: the times of the book ticker rows of a session
          Bars,           \* Bars[s]: the times of its candles
          OneSided,       \* sessions none of whose rows is a valid quote
          Results,        \* backtest results
          Overlay, Indicator, Usage,   \* what a result holds, by their times
          MinSpan,        \* 1 ms in the code
          MaxZoom,        \* the largest zoom is two to this power
          MaxActs

VARIABLES c,      \* the controller
          scale,  \* zoom and pan of the price and of the spread axis
          acts

vars == <<c, scale, acts>>

Sides == {"A", "B"}
NoSource == [id |-> "", rows |-> {}, candles |-> {}]
NoPane == [kind |-> "default", hasData |-> FALSE]

Init ==
    /\ c = [src |-> [s \in Sides |-> NoSource],        \* primary_, secondary_
            named |-> [s \in Sides |-> ""],            \* primarySourceId_, secondarySourceId_
            shown |-> [s \in Sides |-> NoSource],      \* the rows and candles drawn
            result |-> "", overlay |-> {}, indicator |-> {}, usage |-> {}, visible |-> FALSE,
            pane |-> NoPane, full |-> <<0, 1>>, view |-> <<0, 1>>, placed |-> FALSE, user |-> FALSE,
            unpaned |-> FALSE,                         \* ghost: a failed result has left the pane as it was
            refused |-> [s \in Sides |-> FALSE]]       \* ghost: src is a source that was not opened
    /\ scale = [p \in {"price", "spread"} |-> [zoom |-> 0, pan |-> 0]]
    /\ acts = 0

-----------------------------------------------------------------------------
\* What is shown.

\* both sides have a valid quote, and candles of two common times
HasSpread(d) == \A s \in Sides : d.shown[s].rows # {} /\ d.shown[s].id \notin OneSided
HasCandleSpread(d) == Cardinality(d.shown["A"].candles \cap d.shown["B"].candles) >= 2

Pane(kind) == [kind |-> kind, hasData |-> TRUE]
selectCompareLowerPane(d) ==
    IF d.visible /\ d.usage # {} THEN Pane("usage")
    ELSE IF d.overlay # {} THEN Pane("strategy")
    ELSE IF d.indicator # {} THEN Pane("indicator")
    ELSE IF HasSpread(d) /\ HasCandleSpread(d) THEN Pane("both")
    ELSE IF HasCandleSpread(d) THEN Pane("candles")
    ELSE [kind |-> "default", hasData |-> HasSpread(d)]
updateLowerPane_(d) == [d EXCEPT !.pane = selectCompareLowerPane(d), !.unpaned = FALSE]

\* without rows there are no spreads and no candles either: what is left is the result
updateFullRange_(d) ==
    LET rows == d.shown["A"].rows \cup d.shown["B"].rows
        times == IF rows # {} THEN rows ELSE d.overlay \cup d.indicator \cup d.usage
        full == IF times = {} THEN <<0, 1>>
                ELSE IF Cardinality(times) = 1 THEN <<Min(times), Min(times) + MinSpan>>
                ELSE <<Min(times), Max(times)>>
    IN [d EXCEPT !.full = full, !.view = IF @[2] <= @[1] THEN full ELSE @]

initializeViewportIfNeeded_(d) ==
    IF ~d.pane.hasData \/ d.placed THEN d ELSE [d EXCEPT !.view = d.full, !.placed = TRUE]

Refreshed(d) == initializeViewportIfNeeded_(updateFullRange_(updateLowerPane_(d)))
rebuild_(d) == Refreshed([d EXCEPT !.shown = d.src])

-----------------------------------------------------------------------------
\* Choosing the sessions.

Act == acts < MaxActs /\ acts' = acts + 1
Reset == [p \in DOMAIN scale |-> [zoom |-> 0, pan |-> 0]]

SetNone(s) ==
    /\ Act
    /\ c' = rebuild_([c EXCEPT !.src[s] = NoSource, !.named[s] = "", !.refused[s] = FALSE])
    /\ UNCHANGED scale

\* setSource_ forgets the source it replaces before it knows whether the new one opens
Opened(d, s, id, rows) ==
    [d EXCEPT !.src[s] = [id |-> id, rows |-> rows, candles |-> IF rows = {} THEN {} ELSE Bars[id]],
              !.placed = FALSE, !.user = FALSE, !.refused[s] = FALSE]

SetRecorded(s, id) ==
    /\ Act /\ c.src[s].id # id
    /\ \E rows \in {Quoted[id], {}} : c' = rebuild_([Opened(c, s, id, rows) EXCEPT !.named[s] = id])
    /\ scale' = Reset

SetLive(s) ==
    /\ Act /\ c.src[s].id # "live"
    /\ c' = [c EXCEPT !.src[s] = [NoSource EXCEPT !.id = "live"],
                      !.placed = FALSE, !.user = FALSE, !.refused[s] = TRUE]
    /\ scale' = Reset

\* a fee or the width of the mean has changed
Recompute == Act /\ c' = rebuild_(c) /\ UNCHANGED scale

clear ==
    /\ Act
    /\ c' = updateLowerPane_([c EXCEPT
               !.src = [s \in Sides |-> NoSource], !.named = [s \in Sides |-> ""],
               !.shown = [s \in Sides |-> NoSource], !.result = "", !.overlay = {}, !.indicator = {}, !.usage = {},
               !.full = <<0, 1>>, !.view = <<0, 1>>, !.placed = FALSE, !.user = FALSE,
               !.refused = [s \in Sides |-> FALSE]])
    /\ scale' = Reset

-----------------------------------------------------------------------------
\* Choosing a result: its overlay, its indicator when the overlay has no spread, its usage.

Emptied(d, r) == [d EXCEPT !.result = r, !.overlay = {}, !.indicator = {}, !.usage = {}]
Loaded(d, r, upTo) ==
    [Emptied(d, r) EXCEPT !.overlay = IF upTo >= 1 THEN Overlay[r] ELSE {},
                          !.indicator = IF upTo >= 2 /\ Overlay[r] = {} THEN Indicator[r] ELSE {},
                          !.usage = IF upTo >= 3 THEN Usage[r] ELSE {}]

NoResult == Act /\ c.result # "" /\ c' = updateLowerPane_(Emptied(c, "")) /\ UNCHANGED scale

\* the load that fails leaves the parts before it, the result chosen and the pane as it was
setBacktestResult(r) ==
    /\ Act /\ c.result # r
    /\ \E upTo \in 0..3 :
        c' = IF upTo = 3 THEN Refreshed(Loaded(c, r, 3)) ELSE [Loaded(c, r, upTo) EXCEPT !.unpaned = TRUE]
    /\ UNCHANGED scale

setRateLimitVisible == Act /\ c' = updateLowerPane_([c EXCEPT !.visible = ~@]) /\ UNCHANGED scale

-----------------------------------------------------------------------------
\* The windows.

autoFit ==
    /\ Act
    /\ LET d == updateFullRange_(c) IN c' = [d EXCEPT !.view = d.full, !.placed = TRUE, !.user = FALSE]
    /\ scale' = Reset

Moved(lo, hi) ==
    /\ Act /\ hi > lo
    /\ c' = [c EXCEPT !.view = <<lo, hi>>, !.placed = TRUE, !.user = TRUE]
    /\ UNCHANGED scale

panTime == \E delta \in {(c.view[2] - c.view[1]) \div 2, -((c.view[2] - c.view[1]) \div 2)} :
              Moved(c.view[1] + delta, c.view[2] + delta)

zoomTimeAt ==
    LET span == c.view[2] - c.view[1]
    IN \E next \in {Max({span \div 2, MinSpan}), Max({span * 2, MinSpan})}, anchor \in 0..2 :
         LET lo == c.view[1] + (span * anchor) \div 2 - (next * anchor) \div 2 IN Moved(lo, lo + next)

\* The value axes, in units of which the full height has Height: a zoom of 2^z shows Height \div 2^z
Height == 2 ^ (MaxZoom + 1)
Seen(z) == Height \div 2 ^ z
clampPan(pan, z) == LET limit == (Height - Seen(z)) \div 2 IN Max({-limit, Min({limit, pan})})
Scaled(p, z, pan) == Act /\ scale' = [scale EXCEPT ![p] = [zoom |-> z, pan |-> pan]] /\ UNCHANGED c

panValue(p) ==
    \E sign \in {-1, 1} : LET z == scale[p].zoom IN Scaled(p, z, clampPan(scale[p].pan + sign * (Seen(z) \div 2), z))
zoomValue(p) ==
    \E dz \in {-1, 1} :
        LET z == Max({0, Min({MaxZoom, scale[p].zoom + dz})}) IN Scaled(p, z, clampPan(scale[p].pan, z))
zoomAt(p) ==
    \E dz \in {-1, 1}, anchor \in {-1, 1} :
        LET z == Max({0, Min({MaxZoom, scale[p].zoom + dz})})
        IN Scaled(p, z, clampPan(scale[p].pan + anchor * ((Seen(scale[p].zoom) - Seen(z)) \div 2), z))
resetValueScale == Act /\ scale' = Reset /\ UNCHANGED c

Next ==
    \/ \E s \in Sides : SetNone(s) \/ SetLive(s) \/ (\E id \in Sessions : SetRecorded(s, id))
    \/ Recompute \/ clear \/ NoResult \/ (\E r \in Results : setBacktestResult(r)) \/ setRateLimitVisible
    \/ autoFit \/ panTime \/ zoomTimeAt
    \/ (\E p \in DOMAIN scale : panValue(p) \/ zoomValue(p) \/ zoomAt(p)) \/ resetValueScale

Spec == Init /\ [][Next]_vars

-----------------------------------------------------------------------------
(***************************************************************************)
(* Properties.                                                             *)
(***************************************************************************)

\* The rows and candles drawn for a side are those of the session named for it, or none: through
\* refused choices, files that do not load and choices made in between, never another session's.
RowsOfNamed ==
    \A s \in Sides : c.shown[s].rows # {} =>
        /\ c.named[s] \in Sessions /\ c.shown[s].rows = Quoted[c.named[s]]
        /\ c.shown[s].candles = Bars[c.named[s]]

\* The pane is the one the data at hand calls for, with one exception: a result that fails to load
\* leaves the pane of what was shown before it until anything refreshes the pane.
PaneFollowsData == ~c.unpaned => c.pane = selectCompareLowerPane(c)

\* Nothing of an earlier result is left beside the chosen one, complete or not.
ResultOfChosen ==
    IF c.result = "" THEN c.overlay = {} /\ c.indicator = {} /\ c.usage = {}
    ELSE /\ c.overlay \in {{}, Overlay[c.result]} /\ c.indicator \in {{}, Indicator[c.result]}
         /\ c.usage \in {{}, Usage[c.result]}

\* Two sessions shown together are shown whole once the window has been placed and until the user
\* moves it, except while a side's rows still drawn belong to a source given up for a refused one.
FittedUntilMoved ==
    (/\ \A s \in Sides : c.shown[s].rows # {} /\ ~c.refused[s]
     /\ ~c.user /\ c.placed) => c.view = c.full

\* The time window always has a width, also over a single row, after any zoom and without any data.
WindowHasWidth == c.view[1] < c.view[2] /\ c.full[1] < c.full[2]

\* A window the user has set moves only with the user: no load, clearing, result or recomputation
\* that leaves it the user's moves it.
UserWindowKept ==
    (c.user /\ c'.user /\ c'.view # c.view)
       => (c'.shown = c.shown /\ c'.result = c.result /\ c'.pane = c.pane)

\* Whatever is zoomed and panned, the part of the value axis shown lies inside the full range.
ZoomStaysInside ==
    \A p \in DOMAIN scale :
        LET z == scale[p].zoom IN 2 * scale[p].pan + Height >= Seen(z) /\ 2 * scale[p].pan + Seen(z) <= Height

-----------------------------------------------------------------------------
(***************************************************************************)
(* What the comparison chart computes from the quotes and the candles of   *)
(* two recorded sessions: the best-side spread, its rolling mean, the      *)
(* candle spread, the value ranges of the two panes, the step lines drawn  *)
(* and the point under the cursor.  The rows of both sessions grow in time *)
(* order; everything else is a function of the rows.                       *)
(*                                                                         *)
(* Prices divide Scale, so that a spread, the double                       *)
(* (sell - buy) / buy * 10000 in the code, is an exact integer here.  One  *)
(* and Quarter stand for 1.0 and 0.25 bps.                                 *)
(***************************************************************************)

CONSTANTS Quotes,   \* pairs <<bid, ask>>, some of them no valid quote
          Shapes,   \* candles without their time: close, high, low, whether it is a detailed one, tier
          MaxRows, MaxTs, MaxWindow

VARIABLES a, b,    \* quote rows of the two sessions
          ca, cb   \* their candle rows

spreadVars == <<a, b, ca, cb>>

Scale == 12
One == 4
Quarter == 1

LastTs(rows) == IF rows = <<>> THEN 1 ELSE Last(rows).ts
Candle == {[ts |-> t, close |-> s.close, high |-> s.high, low |-> s.low, ohlc |-> s.ohlc, tier |-> s.tier] : t \in 0..2, s \in Shapes}

SpreadInit == a = <<>> /\ b = <<>> /\ ca = <<>> /\ cb = <<>>

Grown(rows) == {Append(rows, [ts |-> t, bid |-> q[1], ask |-> q[2]]) : t \in LastTs(rows)..MaxTs, q \in Quotes}

AddQuote ==
    /\ ca = <<>> /\ cb = <<>>
    /\ \/ Len(a) < MaxRows /\ a' \in Grown(a) /\ UNCHANGED b
       \/ Len(b) < MaxRows /\ b' \in Grown(b) /\ UNCHANGED a
    /\ UNCHANGED <<ca, cb>>

\* the candle file is not ordered
AddCandle ==
    /\ a = <<>> /\ b = <<>>
    /\ \E row \in Candle :
        \/ Len(ca) < MaxRows /\ ca' = Append(ca, row) /\ UNCHANGED cb
        \/ Len(cb) < MaxRows /\ ca # <<>> /\ cb' = Append(cb, row) /\ UNCHANGED ca
    /\ UNCHANGED <<a, b>>

SpreadNext == AddQuote \/ AddCandle
SpreadSpec == SpreadInit /\ [][SpreadNext]_spreadVars

-----------------------------------------------------------------------------
\* The best-side spread.

Bps(gain, paid) == gain * (Scale \div paid)

validQuote(row) == row.bid > 0 /\ row.ask > 0 /\ row.ask >= row.bid

\* the better of buying A and selling B, and of buying B and selling A
makePoint(ts, qa, qb) ==
    LET aToB == Bps(qb.bid - qa.ask, qa.ask)
        bToA == Bps(qa.bid - qb.ask, qb.ask)
        closing == (qa.ask - qa.bid) + (qb.ask - qb.bid)
    IN IF aToB >= bToA
       THEN [ts |-> ts, spread |-> aToB, penalty |-> Bps(closing, qa.ask), buy |-> qa.ask, sell |-> qb.bid]
       ELSE [ts |-> ts, spread |-> bToA, penalty |-> Bps(closing, qb.ask), buy |-> qb.ask, sell |-> qa.bid]

\* the rows of both sessions in the order the merge takes them: A first at equal times
Merged(ra, rb) ==
    LET tagged == [i \in 1..Len(ra) |-> [of |-> "A", row |-> ra[i]]] \o [i \in 1..Len(rb) |-> [of |-> "B", row |-> rb[i]]]
        before == [i \in DOMAIN tagged |-> {j \in DOMAIN tagged :
                      \/ tagged[j].row.ts < tagged[i].row.ts
                      \/ tagged[j].row.ts = tagged[i].row.ts /\ j < i}]
    IN [k \in DOMAIN tagged |-> tagged[CHOOSE i \in DOMAIN tagged : Cardinality(before[i]) = k - 1]]

\* one point for each row once both sessions have shown a valid quote
buildBestSideBookTickerSpread(ra, rb) ==
    LET step(s, m) ==
            LET qa == IF m.of = "A" /\ validQuote(m.row) THEN <<m.row>> ELSE s.qa
                qb == IF m.of = "B" /\ validQuote(m.row) THEN <<m.row>> ELSE s.qb
            IN [qa |-> qa, qb |-> qb,
                out |-> IF qa = <<>> \/ qb = <<>> THEN s.out ELSE Append(s.out, makePoint(m.row.ts, qa[1], qb[1]))]
    IN FoldLeft(step, [qa |-> <<>>, qb |-> <<>>, out |-> <<>>], Merged(ra, rb)).out

buildRollingBookTickerSpreadMean(points, window) ==
    LET step(s, i) ==
            LET cutoff == points[i].ts - (IF window <= 0 THEN 1 ELSE window)
                \* the loop stops at the first point that is not older than the window
                kept == {j \in s.first..i : j = i \/ points[j].ts >= cutoff}
                first == Min(kept)
                dropped == FoldLeft(LAMBDA t, j : t + points[j].spread, 0, [k \in 1..(first - s.first) |-> s.first + k - 1])
                sum == s.sum + points[i].spread - dropped
            IN [first |-> first, sum |-> sum,
                out |-> Append(s.out, [ts |-> points[i].ts, sum |-> sum, count |-> i - first + 1])]
    IN FoldLeft(step, [first |-> 1, sum |-> 0, out |-> <<>>], [i \in 1..Len(points) |-> i]).out

-----------------------------------------------------------------------------
\* The candle spread.

closePriceE8(row) ==
    IF row.close > 0 THEN row.close
    ELSE IF row.high <= 0 \/ row.low <= 0 \/ row.high < row.low THEN 0
    ELSE row.low + (row.high - row.low) \div 2

validCandlePrice(row) == row.ts > 0 /\ closePriceE8(row) > 0

\* detailed candles alone when there are any, else those of the first tier; in order of time, then of price
selectCompareCandles(rows) ==
    LET valid == SelectSeq(rows, validCandlePrice)
        detailed == SelectSeq(valid, LAMBDA r : r.ohlc)
        chosen == IF detailed # <<>> THEN detailed ELSE SelectSeq(valid, LAMBDA r : ~r.ohlc /\ r.tier = 1)
        before == [i \in DOMAIN chosen |-> {j \in DOMAIN chosen :
                      \/ chosen[j].ts < chosen[i].ts
                      \/ chosen[j].ts = chosen[i].ts /\ closePriceE8(chosen[j]) < closePriceE8(chosen[i])
                      \/ chosen[j].ts = chosen[i].ts /\ closePriceE8(chosen[j]) = closePriceE8(chosen[i]) /\ j < i}]
    IN [k \in DOMAIN chosen |-> chosen[CHOOSE i \in DOMAIN chosen : Cardinality(before[i]) = k - 1]]

CandlePoint(x, y) ==
    [ts |-> x.ts, a |-> closePriceE8(x), b |-> closePriceE8(y),
     spread |-> IF closePriceE8(y) > closePriceE8(x) THEN Bps(closePriceE8(y) - closePriceE8(x), closePriceE8(x))
                ELSE IF closePriceE8(x) > closePriceE8(y) THEN Bps(closePriceE8(x) - closePriceE8(y), closePriceE8(y))
                ELSE 0]

\* the walk over both rows: the older one is passed over, two of the same time are paired
buildBestSideCandleSpread(ra, rb) ==
    LET step(s, k) ==
            IF s.i > Len(ra) \/ s.j > Len(rb) THEN s
            ELSE IF ra[s.i].ts < rb[s.j].ts THEN [s EXCEPT !.i = @ + 1]
            ELSE IF rb[s.j].ts < ra[s.i].ts THEN [s EXCEPT !.j = @ + 1]
            ELSE [i |-> s.i + 1, j |-> s.j + 1,
                  out |-> IF validCandlePrice(ra[s.i]) /\ validCandlePrice(rb[s.j])
                          THEN Append(s.out, CandlePoint(ra[s.i], rb[s.j])) ELSE s.out]
    IN FoldLeft(step, [i |-> 1, j |-> 1, out |-> <<>>], [k \in 1..(Len(ra) + Len(rb)) |-> k]).out

-----------------------------------------------------------------------------
\* The ranges of the panes for the window from lo to hi.

InWindow(points, lo, hi) == {points[i] : i \in {k \in DOMAIN points : points[k].ts \in lo..hi}}

\* the last point at or before the window's start, which is drawn from its left edge
Carry(points, lo) ==
    LET at == {k \in DOMAIN points : points[k].ts <= lo} IN IF at = {} THEN {} ELSE {points[Max(at)]}

Priced(rows) == SelectSeq(rows, LAMBDA r : r.bid > 0 /\ r.ask > 0)

Absorbed(lo, hi) ==
    UNION {{r.bid, r.ask} : r \in UNION {Carry(Priced(rows), lo) \cup InWindow(Priced(rows), lo, hi) : rows \in {a, b}}}

priceRange(lo, hi) ==
    LET seen == Absorbed(lo, hi)
        all == UNION {{r.bid, r.ask} : r \in InWindow(Priced(a), 0, MaxTs) \cup InWindow(Priced(b), 0, MaxTs)}
        used == IF seen # {} THEN seen ELSE all
        least == IF used = {} THEN 0 ELSE Min(used)
        most == IF used = {} \/ Max(used) <= least THEN least + 1 ELSE Max(used)
        pad == Max({1, (most - least) \div 20})
    IN <<least - pad, most + pad>>

\* the default pane: carried and visible spreads and the zero and one lines, widened by a tenth
spreadRange(points, lo, hi) ==
    LET values == {p.spread : p \in Carry(points, lo) \cup InWindow(points, lo, hi)}
        least == Min(values \cup {0})
        most == Max(values \cup {One})
        pad == Max({Quarter, (most - least) \div 10})
    IN <<Min({least - pad, 0}), Max({most + pad, One})>>

-----------------------------------------------------------------------------
\* The drawing.

Side(row, bid) == IF bid THEN row.bid ELSE row.ask

\* the corners of the step line of one side; a time stands for its x
appendTickerStepPoints(rows, bid, lo, hi, current) ==
    LET priced == SelectSeq(rows, LAMBDA r : Side(r, bid) > 0)
        seen == SelectSeq(priced, LAMBDA r : r.ts \in lo..hi)
        start == IF Carry(priced, lo) = {} THEN <<>>
                 ELSE <<<<lo, Side(CHOOSE r \in Carry(priced, lo) : TRUE, bid)>>>>
        step(line, row) ==
            (IF line # <<>> /\ row.ts > Last(line)[1] THEN Append(line, <<row.ts, Last(line)[2]>>) ELSE line)
                \o <<<<row.ts, Side(row, bid)>>>>
        line == FoldLeft(step, start, seen)
        hold == Min({hi, current})
    IN IF line # <<>> /\ hold > lo /\ hold > Last(line)[1] THEN Append(line, <<hold, Last(line)[2]>>) ELSE line

\* the point shown under the cursor
nearestSpreadPoint(points, ts) ==
    LET right == {k \in DOMAIN points : points[k].ts >= ts}
    IN IF right = {} THEN Len(points)
       ELSE LET r == Min(right)
            IN IF r = 1 THEN 1 ELSE IF ts - points[r - 1].ts <= points[r].ts - ts THEN r - 1 ELSE r

-----------------------------------------------------------------------------
(***************************************************************************)
(* Properties.                                                             *)
(***************************************************************************)
Points == buildBestSideBookTickerSpread(a, b)
SpreadQuoted(rows, t) == {k \in DOMAIN rows : rows[k].ts <= t /\ validQuote(rows[k])}

\* The spread shown at a time is that of the newest valid quote of each session at that time: the
\* last point of each time pairs exactly those two, a quote that is no quote changes nothing, and
\* there is a point exactly for the times at which both sessions have been quoted.
SpreadOfLatest ==
    LET points == Points
    IN \A t \in {a[k].ts : k \in DOMAIN a} \cup {b[k].ts : k \in DOMAIN b} :
           LET at == {k \in DOMAIN points : points[k].ts = t}
           IN IF SpreadQuoted(a, t) = {} \/ SpreadQuoted(b, t) = {} THEN at = {}
              ELSE at # {} /\ points[Max(at)] = makePoint(t, a[Max(SpreadQuoted(a, t))], b[Max(SpreadQuoted(b, t))])

\* A spread above zero is a trade both sessions quote: the price sold at is above the price bought
\* at, one is an ask of one session and the other a bid of the other, and the opposite trade of the
\* same two quotes does not pay.  Crossed rows would make both directions pay.
GainIsQuoted ==
    LET points == Points
    IN \A k \in DOMAIN points : points[k].spread > 0 =>
           \E i \in DOMAIN a, j \in DOMAIN b :
               \/ /\ points[k].buy = a[i].ask /\ points[k].sell = b[j].bid
                  /\ b[j].bid > a[i].ask /\ a[i].bid <= b[j].ask
               \/ /\ points[k].buy = b[j].ask /\ points[k].sell = a[i].bid
                  /\ a[i].bid > b[j].ask /\ b[j].bid <= a[i].ask

\* The mean reported for a point is the mean of exactly the points of its window up to it: nothing
\* older stays in the running sum and nothing is taken out twice, whatever gaps the times have.
MeanIsOfWindow ==
    LET points == Points
    IN \A w \in 0..MaxWindow :
           LET means == buildRollingBookTickerSpreadMean(points, w)
               width == IF w = 0 THEN 1 ELSE w
           IN \A i \in DOMAIN points :
               LET inside == {j \in 1..i : points[j].ts >= points[i].ts - width}
               IN /\ means[i].count = Cardinality(inside)
                  /\ means[i].sum = FoldSet(LAMBDA j, t : t + points[j].spread, 0, inside)

\* Candles of two sessions are compared only with a candle of the same time, each at most once, and
\* none that has a partner of its kind is passed over, in whatever order the files hold them.
CandlesPaired ==
    LET x == selectCompareCandles(ca)
        y == selectCompareCandles(cb)
        points == buildBestSideCandleSpread(x, y)
        at(s, t) == Cardinality({k \in DOMAIN s : s[k].ts = t})
    IN \A t \in 0..MaxTs : at(points, t) = Min({at(x, t), at(y, t)})

\* Everything the panes draw for a window lies strictly inside their ranges: the quotes with both
\* sides and the spreads of the window, and those carried in from before it.
DrawnInsideRange ==
    LET points == Points
    IN \A lo \in 0..MaxTs, hi \in 1..MaxTs : lo < hi =>
           LET price == priceRange(lo, hi)
               spread == spreadRange(points, lo, hi)
           IN /\ \A rows \in {a, b} : \A r \in Carry(Priced(rows), lo) \cup InWindow(Priced(rows), lo, hi) :
                   r.bid \in (price[1] + 1)..(price[2] - 1) /\ r.ask \in (price[1] + 1)..(price[2] - 1)
              /\ \A p \in Carry(points, lo) \cup InWindow(points, lo, hi) : p.spread > spread[1] /\ p.spread < spread[2]
              /\ {0, One} \subseteq spread[1]..spread[2]

\* The step line shows at every time of the window the price that was current then, and turns only
\* at right angles: no slope suggests a price nobody quoted.
LineIsCurrentPrice ==
    \A rows \in {a, b}, bid \in BOOLEAN, lo \in 0..MaxTs, hi \in 1..MaxTs : lo < hi =>
        LET current == Max({LastTs(a), LastTs(b)})
            line == appendTickerStepPoints(rows, bid, lo, hi, current)
        IN /\ \A k \in 2..Len(line) : line[k][1] = line[k - 1][1] \/ line[k][2] = line[k - 1][2]
           /\ \A t \in lo..Min({hi, current}) :
                LET known == {k \in DOMAIN rows : rows[k].ts <= t /\ Side(rows[k], bid) > 0}
                    drawn == {k \in DOMAIN line : line[k][1] <= t}
                IN IF known = {} THEN drawn = {}
                   ELSE drawn # {} /\ line[Max(drawn)][2] = Side(rows[Max(known)], bid)
                        /\ (t > lo => line[Len(line)][1] >= t)

\* The point read out under the cursor is one of those nearest to it in time.
CursorReadsNearest ==
    LET points == Points
    IN points # <<>> => \A t \in 0..(MaxTs + 1) :
           LET n == nearestSpreadPoint(points, t)
               away(k) == IF points[k].ts > t THEN points[k].ts - t ELSE t - points[k].ts
           IN \A k \in DOMAIN points : away(n) <= away(k)

=============================================================================
