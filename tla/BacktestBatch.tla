---- MODULE BacktestBatch ----
(***************************************************************************)
(* Two machines: the pairs of a batch (Init, Next), and the analysis of    *)
(* its rows (AnalysisInit, AnalysisNext).                                  *)
(*                                                                         *)
(* Which recordings a batch of backtests pairs: the sweep over one symbol  *)
(* recorded on several exchanges, and the spot leg of a basis group with   *)
(* each of its futures.  A symbol is a sequence of words and separators.   *)
(***************************************************************************)
EXTENDS Integers, Sequences, FiniteSets, SequencesExt, FiniteSetsExt

CONSTANTS Spellings, Exchanges, Markets, Expiries, MaxSessions, Budgets, Words, MaxTokens

VARIABLES sessions, mode, budget, onlyFutures, pairs, skipped

vars == <<sessions, mode, budget, onlyFutures, pairs, skipped>>

Separators == {":", "-"}
WordsOf(s) == SelectSeq(s, LAMBDA t : t \notin Separators)

\* the parts between the dashes, cleaned, without empty ones and without the contract words
DashParts(s) ==
    LET part(acc, t) == IF t = "-" THEN Append(acc, <<>>)
                        ELSE Append(Front(acc), Append(Last(acc), t))
        cut == FoldLeft(part, <<<<>>>>, s)
    IN SelectSeq([i \in DOMAIN cut |-> WordsOf(cut[i])], LAMBDA p : p \notin {<<>>, <<"SWAP">>})

ColonAt(s) == IF \E i \in DOMAIN s : s[i] = ":" THEN SelectInSeq(s, LAMBDA t : t = ":") ELSE 0

\* batchCanonicalSymbol
CanonicalSymbol(s) ==
    LET c == ColonAt(s)
        base == WordsOf(SubSeq(s, 1, c - 1))
        quote == WordsOf(SubSeq(s, c + 1, Len(s)))
        parts == DashParts(s)
    IN IF c > 1 /\ base # <<>> /\ quote # <<>> THEN base \o <<":">> \o quote
       ELSE IF Len(parts) >= 2 THEN parts[1] \o <<":">> \o parts[2]
       ELSE WordsOf(s)

\* sessionInfoForPath: a recording the batch may not use carries an error and nothing else
Broken == [error |-> TRUE, exchange |-> 0, market |-> "none", symbol |-> <<>>,
           candles |-> FALSE, expiry |-> 0, basisQty |-> FALSE, enabled |-> TRUE]
Recording(e, m, s) == [Broken EXCEPT !.error = FALSE, !.exchange = e, !.market = m, !.symbol = CanonicalSymbol(s)]
Leg(e, m, s, c, x, q, on) == [Recording(e, m, s) EXCEPT !.candles = c, !.expiry = x, !.basisQty = q, !.enabled = on]
SweepSessions == {Broken} \cup {Recording(e, m, s) : e \in Exchanges, m \in Markets, s \in Spellings}
\* in a basis group everything is one symbol and the market says what the leg is
BasisSessions == {Broken} \cup UNION {{Leg(e, "spot", <<"BTC">>, c, 0, FALSE, TRUE), Leg(e, "other", <<"BTC">>, c, 0, FALSE, TRUE)} :
                                      e \in Exchanges, c \in BOOLEAN}
                     \cup {Leg(1, "futures", <<"BTC">>, c, x, q, on) : c \in BOOLEAN, x \in {0} \cup Expiries, q \in BOOLEAN, on \in BOOLEAN}

IsFutures(m) == m = "futures"     \* isBatchFuturesMarket
IsSpot(m) == m = "spot"           \* basisSpotMarket
VenueKnown(e, m) == e # 0         \* isVenueSectionKnown: an exchange the table names

Init == /\ sessions = <<>> /\ mode \in {"sweep", "basis"}
        /\ budget \in Budgets /\ onlyFutures \in BOOLEAN
        /\ (mode = "basis" => budget = 0 /\ ~onlyFutures)
        /\ pairs = <<>> /\ skipped = {}

\* the recordings of the universe or the group, in the order the catalogue lists them
Lists == /\ mode \in {"sweep", "basis"} /\ Len(sessions) < MaxSessions
         /\ \E s \in (IF mode = "sweep" THEN SweepSessions ELSE BasisSessions) : sessions' = Append(sessions, s)
         /\ UNCHANGED <<mode, budget, onlyFutures, pairs, skipped>>

\* the reasons for which a recording takes no part in the sweep
SweepSkips(i) == LET s == sessions[i] IN s.error \/ s.symbol = <<>> \/ (onlyFutures /\ ~IsFutures(s.market))

MarketOrder == [futures |-> 1, other |-> 2, spot |-> 3, none |-> 4]
Before(i, j) == LET a == sessions[i]
                    b == sessions[j]
                IN IF a.exchange # b.exchange THEN a.exchange < b.exchange
                   ELSE IF a.market # b.market THEN MarketOrder[a.market] < MarketOrder[b.market]
                   ELSE i < j

\* the two loops over the sorted recordings of one symbol
PairsOfSymbol(rows) ==
    LET ij == SetToSortSeq({p \in (DOMAIN rows) \X (DOMAIN rows) :
                               p[1] < p[2] /\ sessions[rows[p[1]]].exchange # sessions[rows[p[2]]].exchange},
                           LAMBDA p, q : p[1] < q[1] \/ (p[1] = q[1] /\ p[2] < q[2]))
    IN [k \in DOMAIN ij |-> <<rows[ij[k][1]], rows[ij[k][2]]>>]

\* buildBatchSweepPairs; the symbols are taken in some fixed order
BuildSweep ==
    /\ mode = "sweep"
    /\ LET used == {i \in DOMAIN sessions : ~SweepSkips(i)}
           symbols == SetToSeq({sessions[i].symbol : i \in used})
           rowsOf(y) == SetToSortSeq({i \in used : sessions[i].symbol = y}, Before)
           all == FlattenSeq([k \in DOMAIN symbols |-> PairsOfSymbol(rowsOf(symbols[k]))])
       IN /\ pairs' = SubSeq(all, 1, IF budget > 0 /\ budget < Len(all) THEN budget ELSE Len(all))
          /\ skipped' = DOMAIN sessions \ used
    /\ mode' = "swept" /\ UNCHANGED <<sessions, budget, onlyFutures>>

\* basisChainSpotSkipReason
SpotSkips(s) == ~s.candles
\* the enabled-futures filter and basisChainFutureSkipReason
FutureSkips(s) == ~s.enabled \/ ~s.candles \/ s.expiry = 0 \/ ~s.basisQty

\* a future whose expiry another future of the group has as well
Clashes(i, futures) == \E j \in futures : j # i /\ sessions[j].expiry = sessions[i].expiry

\* the recordings listed as skipped: an error, a leg that cannot be used, a second spot leg
BasisSkips(spots, futures) ==
    {i \in DOMAIN sessions : \/ sessions[i].error
                             \/ IsSpot(sessions[i].market) /\ (i \notin spots \/ \E j \in spots : j < i)
                             \/ IsFutures(sessions[i].market) /\ i \notin futures}

\* buildBasisChainPairs: the first usable spot leg with each usable future, by expiry
BuildBasis ==
    /\ mode = "basis"
    /\ LET of(p(_), q(_)) == {i \in DOMAIN sessions : ~sessions[i].error /\ p(sessions[i].market) /\ ~q(sessions[i])}
           spots == of(IsSpot, SpotSkips)
           spot == CHOOSE i \in spots : \A j \in spots : i <= j
           futures == of(IsFutures, FutureSkips)
           runs(i) == /\ ~Clashes(i, futures)
                      /\ VenueKnown(sessions[spot].exchange, sessions[spot].market)
                      /\ VenueKnown(sessions[i].exchange, sessions[i].market)
           chain == SetToSortSeq({i \in futures : runs(i)},
                                 LAMBDA i, j : sessions[i].expiry < sessions[j].expiry \/ (sessions[i].expiry = sessions[j].expiry /\ i < j))
       IN /\ pairs' = IF spots = {} THEN <<>> ELSE [k \in DOMAIN chain |-> <<spot, chain[k]>>]
          /\ skipped' = BasisSkips(spots, futures) \cup
                        (IF spots = {} \/ sessions = <<>> THEN {0}
                         ELSE {i \in futures : ~runs(i)} \cup (IF chain = <<>> THEN {0} ELSE {}))
    /\ mode' = "chained" /\ UNCHANGED <<sessions, budget, onlyFutures>>

Next == Lists \/ BuildSweep \/ BuildBasis

Spec == Init /\ [][Next]_vars

-----------------------------------------------------------------------------
(* Properties                                                              *)

\* The sweep backtests every two usable recordings of one symbol made on different exchanges, each once and
\* in no other combination, and no more of them than the pair budget.
PairsExactly ==
    mode = "swept" =>
        LET usable == {i \in DOMAIN sessions : ~sessions[i].error /\ sessions[i].symbol # <<>>
                                               /\ (onlyFutures => sessions[i].market = "futures")}
            wanted == {{i, j} : <<i, j>> \in {p \in usable \X usable : sessions[p[1]].symbol = sessions[p[2]].symbol
                                                  /\ sessions[p[1]].exchange # sessions[p[2]].exchange}}
            got == {{pairs[k][1], pairs[k][2]} : k \in DOMAIN pairs}
        IN /\ got \subseteq wanted /\ Cardinality(got) = Len(pairs)
           /\ Len(pairs) = IF budget > 0 /\ budget < Cardinality(wanted) THEN budget ELSE Cardinality(wanted)

\* A basis chain runs one spot leg against futures whose expiries are known, different and ascending, so that
\* the rows of the chain are told apart by expiry.
ChainAscends ==
    mode = "chained" =>
        /\ \A k \in DOMAIN pairs : pairs[k][1] = pairs[1][1] /\ IsSpot(sessions[pairs[k][1]].market)
        /\ \A k \in DOMAIN pairs : sessions[pairs[k][2]].expiry > 0 /\ sessions[pairs[k][2]].enabled
        /\ \A k, l \in DOMAIN pairs : k < l => sessions[pairs[k][2]].expiry < sessions[pairs[l][2]].expiry

\* Once the pairs are built a spot or future leg of the group is either in a pair or listed as skipped, never
\* both; only a group that yields no pair at all may leave usable legs unlisted, and then says so.
EveryLegAccounted ==
    mode = "chained" =>
        LET paired == {pairs[k][1] : k \in DOMAIN pairs} \cup {pairs[k][2] : k \in DOMAIN pairs}
            legs == {i \in DOMAIN sessions : sessions[i].market \in {"spot", "futures", "none"}}
        IN /\ paired \cap skipped = {}
           /\ (pairs = <<>>) = (0 \in skipped)
           /\ (pairs # <<>> => legs \subseteq paired \cup skipped)

Tokens == Words \cup Separators
\* A recording's symbol is made canonical when it is catalogued and again when the pairs are built: the second
\* time changes nothing, and the word that marks a perpetual contract never keeps two spellings apart.
CanonicalIsStable ==
    \A s \in (IF sessions = <<>> /\ mode = "sweep" THEN BoundedSeq(Tokens, MaxTokens) ELSE {}) :
        /\ CanonicalSymbol(CanonicalSymbol(s)) = CanonicalSymbol(s)
        /\ ColonAt(s) = 0 /\ Len(DashParts(s)) >= 2 => CanonicalSymbol(s \o <<"-", "SWAP">>) = CanonicalSymbol(s)

-----------------------------------------------------------------------------
(***************************************************************************)
(* What the batch page derives from the rows of a batch: the totals, the   *)
(* ranking, the matrix of exchange pairs, the stability of a PnL curve over *)
(* its quarters, and the plateau of good neighbouring parameters.          *)
(***************************************************************************)

CONSTANTS ParamValues, ModeValues, Outcomes, MaxRows, MaxCurve, Steps, Sentinel, Bonus

VARIABLES analysisRows, curve

analysisVars == <<analysisRows, curve>>

\* the clean outcomes, as [pnl, drawdown, clean]: rowOk is fills and no stop, liquidation or error
Row == {[first |-> a, second |-> b, x |-> x, y |-> y, pnl |-> o.pnl, drawdown |-> o.drawdown, clean |-> o.clean] :
           a \in Exchanges, b \in Exchanges, x \in ParamValues, y \in ModeValues, o \in Outcomes}

AnalysisInit == analysisRows = <<>> /\ curve = <<>>

\* a row of a finished backtest arrives
AddRow == /\ curve = <<>> /\ Len(analysisRows) < MaxRows
          /\ \E r \in Row : analysisRows' = Append(analysisRows, r)
          /\ UNCHANGED curve

\* a sampled PnL curve, one sample longer
AddSample == /\ analysisRows = <<>> /\ Len(curve) < MaxCurve
             /\ \E s \in Steps : curve' = Append(curve, s)
             /\ UNCHANGED analysisRows

AnalysisNext == AddRow \/ AddSample
AnalysisSpec == AnalysisInit /\ [][AnalysisNext]_analysisVars

Abs(n) == IF n < 0 THEN -n ELSE n

StableScore(r) == IF ~r.clean THEN Sentinel ELSE (IF r.pnl > 0 THEN Bonus ELSE 0) + r.pnl - Abs(r.drawdown)

\* batchStableRowsFromRows: by score, then by PnL
RanksBefore(r, s) == IF StableScore(r) # StableScore(s) THEN StableScore(r) > StableScore(s) ELSE r.pnl > s.pnl

\* addAggregate over a set of rows
Aggregate(is) ==
    [rows |-> Cardinality(is), clean |-> Cardinality({i \in is : analysisRows[i].clean}),
     positive |-> Cardinality({i \in is : analysisRows[i].pnl > 0}), pnl |-> MapThenSumSet(LAMBDA i : analysisRows[i].pnl, is),
     best |-> IF is = {} THEN 0 ELSE Max({analysisRows[i].pnl : i \in is}),
     worst |-> IF is = {} THEN 0 ELSE Max({Abs(analysisRows[i].drawdown) : i \in is})]

\* batchExchangePairLabel: the pair as the row names it
OneWay(i) == <<analysisRows[i].first, analysisRows[i].second>>
\* the key of a row's cell: its two exchanges in ascending order
PairKey(i) == IF analysisRows[i].second < analysisRows[i].first THEN <<analysisRows[i].second, analysisRows[i].first>> ELSE <<analysisRows[i].first, analysisRows[i].second>>

Paired == {i \in DOMAIN analysisRows : analysisRows[i].first # analysisRows[i].second}

\* batchPairMatrixCellsFromRows: each aggregate stands in two cells, mirrored
Cells ==
    LET keys == {PairKey(i) : i \in Paired}
        of(k) == Aggregate({i \in Paired : PairKey(i) = k})
    IN {[row |-> k[1], column |-> k[2], agg |-> of(k)] : k \in keys} \cup
       {[row |-> k[2], column |-> k[1], agg |-> of(k)] : k \in keys}

\* batchPairMatrixColumnsFromRows
Columns == {analysisRows[i].first : i \in DOMAIN analysisRows} \cup {analysisRows[i].second : i \in DOMAIN analysisRows}

\* the quarter of a curve of n samples that the step into sample i + 1 falls in
Chunk(i, n) == LET c == ((i - 1) * 4) \div (IF n - 1 > 1 THEN n - 1 ELSE 1) IN IF c > 3 THEN 3 ELSE c

\* batchTimeRowsFromCurves: the PnL gained in each quarter
Chunks(c) ==
    [k \in 0..3 |-> IF Len(c) = 1 THEN (IF k = 0 THEN c[1] ELSE 0)
                    ELSE MapThenSumSet(LAMBDA i : c[i + 1] - c[i], {i \in 1..(Len(c) - 1) : Chunk(i, Len(c)) = k})]

\* groupKey: the rows of one exchange pair (and one symbol) are compared with one another
Group(i) == {j \in DOMAIN analysisRows : OneWay(j) = OneWay(i)}

\* the place of row i's value among the sorted values its group tried
Rank(i, f) == Cardinality({w \in {analysisRows[j][f] : j \in Group(i)} : w < analysisRows[i][f]})

\* adjacentParamRows: every differing parameter differs by one place
Adjacent(i, j) ==
    /\ \A f \in {"x", "y"} : analysisRows[i][f] = analysisRows[j][f] \/ Abs(Rank(i, f) - Rank(j, f)) = 1
    /\ \E f \in {"x", "y"} : analysisRows[i][f] # analysisRows[j][f]

\* batchPlateauRowsFromRows
Neighbours(i) == {j \in Group(i) : j # i /\ Adjacent(i, j)}

-----------------------------------------------------------------------------
(* Properties                                                              *)

\* The stable table never shows a backtest that was stopped, liquidated, failed or did not trade above one that
\* ran clean, however large its profit.
CleanRowsFirst == \A i, j \in DOMAIN analysisRows : analysisRows[i].clean /\ ~analysisRows[j].clean => RanksBefore(analysisRows[i], analysisRows[j])

\* The matrix is symmetric, has one cell per ordered pair of exchanges, and its upper half counts every row that
\* names two exchanges exactly once, whichever of them the row names first.
MatrixCountsRows ==
    /\ \A c \in Cells : [c EXCEPT !.row = c.column, !.column = c.row] \in Cells /\ {c.row, c.column} \subseteq Columns
    /\ \A c, d \in Cells : c.row = d.row /\ c.column = d.column => c = d
    /\ MapThenSumSet(LAMBDA c : c.agg.rows, {c \in Cells : c.row < c.column}) = Cardinality(Paired)

\* The four quarters of a curve add up to what it gained, follow one another, and take up the same number of
\* samples give or take one, so that a curve of five samples or more is judged on all four.
QuartersEven ==
    LET n == Len(curve)
        size(k) == Cardinality({i \in 1..(n - 1) : Chunk(i, n) = k})
    IN n >= 2 => /\ Chunks(curve)[0] + Chunks(curve)[1] + Chunks(curve)[2] + Chunks(curve)[3] = curve[n] - curve[1]
                 /\ \A i \in 1..(n - 2) : Chunk(i, n) <= Chunk(i + 1, n)
                 /\ \A k, l \in 0..3 : size(k) <= size(l) + 1

\* The neighbours of a parameter point are the points next to it among the values the sweep tried: the relation
\* is mutual, and two values with none between them are neighbours however far apart the sweep's step puts them.
PlateauByRank ==
    \A i \in DOMAIN analysisRows : \A j \in Group(i) :
        /\ j \in Neighbours(i) => i \in Neighbours(j)
        /\ (analysisRows[i].y = analysisRows[j].y /\ analysisRows[i].x < analysisRows[j].x) =>
               (j \in Neighbours(i)) = (\A k \in Group(i) : ~(analysisRows[i].x < analysisRows[k].x /\ analysisRows[k].x < analysisRows[j].x))

=============================================================================
