---- MODULE MoexBasis ----
(***************************************************************************)
(* The basis page: a recording group with a spot leg and futures, drawn    *)
(* from the group's series file or from the sessions' own candles, the     *)
(* spread of each future over the spot, and the result of a strategy run   *)
(* over the legs that are shown.  A candle is [ts, kind]; prices are left  *)
(* out but for the filter on valid ones, which kind "bad" stands for.      *)
(***************************************************************************)
EXTENDS Integers, Sequences, SequencesExt, FiniteSetsExt

CONSTANTS Groups, Other,    \* Other: the group whose files are fixed
          OwnRows,          \* what a session's candle file may hold
          SeriesRows,       \* what the series file may hold of a leg
          Expiries,         \* expiry of a future's metadata, 0: none
          SeriesExpiry,     \* expiry the rows of a series file name
          MaxActs

Futures == {"f1", "f2"}
Legs == {"spot"} \cup Futures
\* a result is of the spot and one future of one group; the second of a pair has no spread rows
Results == Groups \X Futures \X {"good", "noSpread"}

VARIABLES files, disk, v, acts, last
vars == <<files, disk, v, acts, last>>

NoLeg == [sym |-> "", candles |-> <<>>, expiry |-> 0, ready |-> FALSE, on |-> TRUE]
Cleared == [path |-> "", spot |-> NoLeg, futures |-> <<>>, list |-> {}, selected |-> {},
            from |-> 0, to |-> 1, tMin |-> 0, tMax |-> 1]

Plain == <<[ts |-> 1, kind |-> "ohlc"]>>
Init ==
    /\ \E own \in [Legs -> OwnRows], ex \in [Futures -> Expiries], n \in {"none", "bad", "rows"},
          rows \in [Legs -> SeriesRows] :
          /\ n # "rows" => rows = [x \in Legs |-> <<>>]
          /\ files = [h \in Groups |->
                IF h = Other
                THEN [own |-> [x \in Legs |-> Plain], expiry |-> [f1 |-> 1, f2 |-> 2], series |-> "none",
                      rows |-> [x \in Legs |-> <<>>], seriesExpiry |-> 0]
                ELSE [own |-> own, expiry |-> ex, series |-> n, rows |-> rows, seriesExpiry |-> SeriesExpiry]]
    /\ disk = Results /\ v = Cleared /\ acts = 0 /\ last = "start"

Times(s) == {s[i].ts : i \in 1..Len(s)}
At(s, t) == Cardinality({i \in 1..Len(s) : s[i].ts = t})
ByTime(s) == SortSeq(s, LAMBDA a, b : a.ts < b.ts)

(***************************************************************************)
(* Loading the legs.                                                       *)
(***************************************************************************)
\* selectMoexBasisCandles: whole candles, or those of the finest tier where there are none
SelectCandles(rows) ==
    LET detailed == SelectSeq(rows, LAMBDA r : r.kind = "ohlc")
    IN ByTime(IF detailed # <<>> THEN detailed ELSE SelectSeq(rows, LAMBDA r : r.kind = "tier1"))

LoadLeg(h, x, candles) ==
    [sym |-> x, candles |-> candles, on |-> TRUE,
     expiry |-> IF x = "spot" THEN 0 ELSE files[h].expiry[x],
     ready |-> x = "spot" \/ files[h].expiry[x] > 0]

\* by expiry, then symbol
ByExpiry(fs) == SortSeq(fs, LAMBDA a, b : a.expiry < b.expiry \/ (a.expiry = b.expiry /\ a.sym = "f1" /\ b.sym = "f2"))
LoadFutures(h, candles) ==
    ByExpiry(<<LoadLeg(h, "f1", candles["f1"]), LoadLeg(h, "f2", candles["f2"])>>)

FromSessions(h) ==
    [spot |-> LoadLeg(h, "spot", SelectCandles(files[h].own["spot"])),
     futures |-> LoadFutures(h, [x \in Futures |-> SelectCandles(files[h].own[x])])]

\* applyBasisChainSeriesRows, over legs of which only the metadata was read
SeriesCandles(h, x) == ByTime(SelectSeq(files[h].rows[x], LAMBDA r : r.kind = "ohlc"))
FromSeries(h) ==
    LET applied(f) ==
            LET c == SeriesCandles(h, f.sym)
                expiry == IF f.expiry > 0 THEN f.expiry ELSE files[h].seriesExpiry
            IN IF c = <<>> THEN f ELSE [f EXCEPT !.candles = c, !.expiry = expiry, !.ready = expiry > 0]
        bare == LoadFutures(h, [x \in Futures |-> <<>>])
    IN [spot |-> LoadLeg(h, "spot", SeriesCandles(h, "spot")),
        futures |-> [i \in DOMAIN bare |-> applied(bare[i])]]

Applies(legs) == legs.spot.candles # <<>> /\ \E i \in DOMAIN legs.futures : legs.futures[i].ready /\ legs.futures[i].candles # <<>>
UseSeries(h) == files[h].series = "rows" /\ \E x \in Legs : files[h].rows[x] # <<>>

\* the series file where it gives a spread at all, else the candles of the sessions
LegsOf(h) == IF UseSeries(h) /\ Applies(FromSeries(h)) THEN FromSeries(h) ELSE FromSessions(h)

(***************************************************************************)
(* What is derived from the legs.                                          *)
(***************************************************************************)
StepsBoth(s, f, acc) ==
    IF acc.si > Len(s) \/ acc.fi > Len(f) THEN acc
    ELSE [si |-> acc.si + 1, fi |-> acc.fi + 1,
          out |-> IF s[acc.si].ts = f[acc.fi].ts THEN Append(acc.out, s[acc.si].ts) ELSE acc.out]

\* buildMoexBasisPoints: the merge of two candle series.  Prices are left out: every future has a
\* price basis and every close is positive here.
MergeStep(s, f, acc) ==
    IF acc.si > Len(s) \/ acc.fi > Len(f) THEN acc
    ELSE IF s[acc.si].ts < f[acc.fi].ts THEN [acc EXCEPT !.si = @ + 1]
    ELSE IF f[acc.fi].ts < s[acc.si].ts THEN [acc EXCEPT !.fi = @ + 1]
    ELSE [si |-> acc.si + 1, fi |-> acc.fi + 1, out |-> Append(acc.out, s[acc.si].ts)]

BasisPoints(spot, f) ==
    IF f.expiry = 0 THEN <<>>
    ELSE FoldLeft(LAMBDA acc, n : MergeStep(spot.candles, f.candles, acc), [si |-> 1, fi |-> 1, out |-> <<>>],
                  [n \in 1..Len(spot.candles) + Len(f.candles) |-> n]).out

Valid(f) == f.on /\ f.ready /\ f.candles # <<>>
ValidOf(fs) == {i \in DOMAIN fs : Valid(fs[i])}
\* findMoexBasisFutureConflicts
Conflict(fs) == \E i, j \in ValidOf(fs) : i # j /\ fs[i].expiry = fs[j].expiry

\* updateFullRange_ over the futures that are shown
FullRange(spot, fs) ==
    LET ts == Times(spot.candles) \cup UNION {Times(fs[i].candles) : i \in {k \in DOMAIN fs : fs[k].on /\ fs[k].ready}}
    IN IF ts = {} THEN [a |-> 0, b |-> 1]
       ELSE [a |-> Min(ts), b |-> IF Max(ts) = Min(ts) THEN Min(ts) + 1 ELSE Max(ts)]

Ranged(w) ==
    LET r == FullRange(w.spot, w.futures)
    IN [w EXCEPT !.from = r.a, !.to = r.b, !.tMin = r.a, !.tMax = r.b]

\* results that name the spot and an enabled future of the group; none while expiries conflict
Listed(w) ==
    IF w.path = "" \/ Conflict(w.futures) THEN {}
    ELSE {r \in disk : r[1] = w.path /\ \E i \in ValidOf(w.futures) : w.futures[i].sym = r[2]}

KeepsSelection(w) == [w EXCEPT !.list = Listed(w)]

\* reloadStrategyResults_: a selected result that is no longer listed is cleared
ResultsReloaded(w) == [w EXCEPT !.list = Listed(w), !.selected = @ \cap Listed(w)]

(***************************************************************************)
(* Operations of the page.                                                 *)
(***************************************************************************)
Act(name) == acts < MaxActs /\ acts' = acts + 1 /\ last' = name /\ UNCHANGED files

LoadGroup(h) ==
    /\ Act("load") /\ UNCHANGED disk
    /\ LET legs == LegsOf(h)
       IN v' = ResultsReloaded(Ranged([v EXCEPT !.path = h, !.spot = legs.spot, !.futures = legs.futures]))

Clear == Act("clear") /\ v' = Cleared /\ UNCHANGED disk

SetFutureEnabled(i, on) ==
    /\ Act("toggle") /\ UNCHANGED disk /\ i \in DOMAIN v.futures /\ v.futures[i].on # on
    /\ v' = ResultsReloaded(Ranged([v EXCEPT !.futures[i].on = on]))

\* a result that is not listed is looked for once more; one without spread rows clears the choice
SetStrategyResult(r) ==
    /\ Act("choose") /\ UNCHANGED disk
    /\ LET w == IF r \in v.list THEN v ELSE ResultsReloaded(v)
       IN v' = [w EXCEPT !.selected = IF r \in w.list /\ r \in disk /\ r[3] = "good" THEN {r} ELSE {}]

ClearStrategyResult == Act("choose") /\ v' = [v EXCEPT !.selected = {}] /\ UNCHANGED disk

AutoFit == Act("fit") /\ v' = [v EXCEPT !.tMin = v.from, !.tMax = v.to] /\ UNCHANGED disk

\* zoomTimeAt, about the left or the right end, never below a least span
ZoomedAt(in, right) ==
    LET span == v.tMax - v.tMin
        next == IF in THEN Max({span \div 2, 1}) ELSE 2 * span
        a == IF right THEN v.tMin + span - next ELSE v.tMin
    IN [a |-> a, b |-> a + next]
ZoomTimeAt(in, right) ==
    /\ Act("zoom") /\ UNCHANGED disk
    /\ LET z == ZoomedAt(in, right) IN v' = [v EXCEPT !.tMin = z.a, !.tMax = z.b]

\* a backtest writes its results, or they are deleted (external)
WriteResults == Act("disk") /\ disk' \in {{}, Results} /\ disk' # disk /\ UNCHANGED v

Next ==
    \/ Clear \/ ClearStrategyResult \/ AutoFit \/ WriteResults
    \/ \E h \in Groups : LoadGroup(h)
    \/ \E i \in 1..2, on \in BOOLEAN : SetFutureEnabled(i, on)
    \/ \E r \in Results : SetStrategyResult(r)
    \/ \E in, right \in BOOLEAN : ZoomTimeAt(in, right)

Spec == Init /\ [][Next]_vars

(***************************************************************************)
(* Properties.                                                             *)
(***************************************************************************)
\* The result that is drawn over the basis is one of the shown group's spot and of a future that
\* is enabled and has candles, and no two enabled futures expire together: whatever groups and
\* futures were switched since it was chosen, and whatever happened to the files.
OverlayOfShownLegs ==
    \A r \in v.selected :
        /\ r[1] = v.path /\ ~Conflict(v.futures)
        /\ \E i \in DOMAIN v.futures : v.futures[i].sym = r[2] /\ Valid(v.futures[i])

\* A series file that is broken, empty or partial hides nothing: where the sessions' own candles
\* give a spot and a future to compare, the page shows a spot and a future to compare.
CandlesShown ==
    last = "load" /\ Applies(FromSessions(v.path)) =>
        Applies([spot |-> v.spot, futures |-> v.futures])

\* A future's spread has a point exactly where both legs have a candle, as many as the leg with
\* fewer candles of that time, in the order of time.
PointsWherePaired ==
    \A i \in DOMAIN v.futures : v.futures[i].expiry > 0 =>
        LET p == BasisPoints(v.spot, v.futures[i])
        IN /\ \A k \in 1..Len(p) - 1 : p[k] <= p[k + 1]
           /\ \A t \in Times(v.spot.candles) \cup Times(v.futures[i].candles) :
                Cardinality({k \in 1..Len(p) : p[k] = t})
                    = Min({At(v.spot.candles, t), At(v.futures[i].candles, t)})

\* The window is never empty, and after a load, a switch or a fit every candle of the spot and of
\* the enabled futures with metadata lies in it.
WindowHoldsCandles ==
    /\ v.tMin < v.tMax
    /\ last \in {"load", "toggle", "fit"} =>
        \A t \in Times(v.spot.candles)
                 \cup UNION {Times(v.futures[i].candles) : i \in {k \in DOMAIN v.futures : v.futures[k].on /\ v.futures[k].ready}} :
            v.tMin <= t /\ t <= v.tMax
====
