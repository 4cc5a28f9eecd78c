---- MODULE RecordedData ----
(***************************************************************************)
(* The parts whose difficulty is in the data or in the order one caller    *)
(* uses them: the stored formats and their readers, the replay, and the    *)
(* pages of the viewer.  As in RecorderProcesses a behaviour is one of ONE *)
(* part, named by "part" and chosen at the start; its variables are the    *)
(* places s1, s2, ... in the order of its module, and the rest stay 0.     *)
(*                                                                         *)
(* The source state keeps its own variables, so that what is checked of it *)
(* is what CorpusStoreProofs proves.                                       *)
(***************************************************************************)
EXTENDS SourceState, FiniteSets, SequencesExt

VARIABLES
    part,       \* the machine this behaviour is of
    s1, s2, s3, s4, s5, s6, s7, s8, s9, s10, s11  \* its state; 0 where it has none

\* the places from the n-th on: unused by a machine of fewer variables
From11 == <<s11>>
From10 == <<s10, From11>>
From9 == <<s9, From10>>
From8 == <<s8, From9>>
From7 == <<s7, From8>>
From6 == <<s6, From7>>
From5 == <<s5, From6>>
From4 == <<s4, From5>>
From3 == <<s3, From4>>
From2 == <<s2, From3>>
From1 == <<s1, From2>>

Idle11 == s11 = 0
Idle10 == s10 = 0 /\ Idle11
Idle9 == s9 = 0 /\ Idle10
Idle8 == s8 = 0 /\ Idle9
Idle7 == s7 = 0 /\ Idle8
Idle6 == s6 = 0 /\ Idle7
Idle5 == s5 = 0 /\ Idle6
Idle4 == s4 = 0 /\ Idle5
Idle3 == s3 = 0 /\ Idle4
Idle2 == s2 = 0 /\ Idle3
Idle1 == s1 = 0 /\ Idle2

\* A trade row of a file and a depth delta: files with and without sequence numbers, out of order,
\* deltas that overwrite, delete, and arrive with a smaller timestamp.
Row(ts, cap, seq) == [ts |-> ts, cap |-> cap, seq |-> seq]
Delta(ts, price, qty) == [ts |-> ts, price |-> price, qty |-> qty]

\* Two shards and two sources: the first shard holds up to two rows of source one, the second one
\* market or lifecycle row of either source.
ShardRows(sources, kinds, clock) ==
    {r \in [mono : 1..2, real : clock, src : sources, kind : kinds, gen : {1, 3}, prev : {1}] :
        /\ r.kind # "row" => r.real = 2
        /\ r.kind \in {"part", "gap", "recorded", "torn"} => r.gen = 1}
Loss(src, lo, hi, channel) == [src |-> src, lo |-> lo, hi |-> hi, channel |-> channel]
Requests == {r \in [included : {{1}, {1, 2}}, channels : {{"depth"}, {"depth", "trade"}},
                    required : BOOLEAN, exact : BOOLEAN] :
                r.required # r.exact /\ (r.included = {1} <=> r.channels = {"depth"})}

\* Three outcomes of a backtest: a clean loss with a deep drawdown, a clean gain, a stopped run with a large gain.
Outcome(pnl, drawdown, clean) == [pnl |-> pnl, drawdown |-> drawdown, clean |-> clean]

\* Candles of the basis page, and the shapes of compared candles: detailed, without any price, and of
\* a tier that is not compared.
Candle(ts, kind) == [ts |-> ts, kind |-> kind]
Shape(close, high, ohlc, tier) == [close |-> close, high |-> high, low |-> 2, ohlc |-> ohlc, tier |-> tier]

\* the source state while another part runs
NoSource == log = <<>> /\ \E rules \in Rules : source = Initial(FALSE, 1, {}, {}, rules)

\* Frames of up to two parts and two chunks; the largest value is one the scale 10^3 overflows.
Stored == INSTANCE CorpusRecords WITH
    LevelsPerRecord <- 2, MaxLevels <- 5, MarketChannels <- {"bbo", "trade", "depth"},
    Depth <- "depth", MaxGeneration <- 2, MaxValue <- 1279, MaxPower <- 3, Frames <- {1},
    Owners <- {1, 2}, Events <- {1, 2}, TxnMaxLevels <- 3, MaxNatives <- 2,
    CoveragePerRecord <- 2, MaxCoverage <- 3, input <- s1, verdict <- s2, st <- s1, taken <- s2

Sealed == INSTANCE SealedReader WITH
    Shards <- {1, 2}, Sources <- {1, 2},
    Candidates <- <<ShardRows({1}, {"row", "part", "change", "gap", "recorded", "torn"}, 2..3), ShardRows({1, 2}, {"row", "change"}, {2})>>,
    Capacity <- <<2, 1>>,
    Ledgers <- {{}, {Loss(1, 0, 0, "trade"), Loss(2, 3, 3, "depth")}, {Loss(2, 1, 1, "lifecycle")}},
    Requests <- Requests,
    Begin <- 2, End <- 3, tables <- s1, corpus <- s2, phase <- s3, request <- s4, ledger <- s5,
    pos <- s6, open <- s7, gen <- s8, atBegin <- s9, present <- s10, emitted <- s11

\* One channel of each kind; two edits of a manifest.
Directory == INSTANCE StoredSession WITH
    Order <- <<"trades", "mark_price", "depth">>,
    Kind <- [trades |-> "parsed", mark_price |-> "framed", depth |-> "paired"], MaxRows <- 1,
    DocumentChannels <- {"trades", "depth"}, RuntimeChannels <- {"trades"},
    IntegrityChannels <- {"depth"}, MaxEdits <- 2, dir <- s1, at <- s2, report <- s3,
    rows <- s4, fields <- s1, doc <- s2, outcome <- s3, out <- s4, edits <- s5

Replay == INSTANCE SessionReplay WITH
    TradeFiles <- {<<Row(1, 1, 3), Row(1, 2, 0)>>, <<Row(1, 2, 2)>>},
    TickerFiles <- {<<Row(1, 1, 1), Row(2, 2, 4)>>},
    DepthFiles <- {<<Delta(1, 1, 1), Delta(2, 1, 0), Delta(2, 2, 1)>>, <<Delta(3, 2, 2), Delta(1, 2, 1)>>},
    Times <- {1, 2, 3}, MaxRows <- 2, Prices <- {1, 2}, Quantities <- {0, 1, 2},
    MaxDepthRows <- 3, Streams <- {"ticker", "depth"}, Hinted <- {"ticker", "depth"}, trades <- s1, tickers <- s2,
    depths <- s3, buckets <- s4, cursor <- s5, book <- s6, status <- s7, target <- s8,
    rewound <- s9, depthRows <- s1, normalised <- s2, levelBook <- s3, hints <- s1,
    rowKinds <- s2, mixed <- s3, unproved <- s4, repeated <- s5, partial <- s6, sum <- s7,
    exact <- s8, health <- s9, accepted <- s10, lastCall <- s11

\* The verdict on the two channels that share their ingest numbers.
Merged == INSTANCE SessionReplay WITH
    TradeFiles <- {}, TickerFiles <- {}, DepthFiles <- {}, Times <- {}, MaxRows <- 0,
    Prices <- {}, Quantities <- {}, MaxDepthRows <- 0, Streams <- {"trades", "ticker"}, Hinted <- {"trades"},
    trades <- s1, tickers <- s2, depths <- s3, buckets <- s4, cursor <- s5, book <- s6,
    status <- s7, target <- s8, rewound <- s9, depthRows <- s1, normalised <- s2,
    levelBook <- s3, hints <- s1, rowKinds <- s2, mixed <- s3, unproved <- s4, repeated <- s5,
    partial <- s6, sum <- s7, exact <- s8, health <- s9, accepted <- s10, lastCall <- s11

\* The first window fits in a page of the listing, the last does not.
Archive == INSTANCE HistoryCli WITH
    N <- 1, MaxRuns <- 0, Today <- 4, Lookbacks <- <<3, 5>>, Page <- 7, MaxDays <- 3, pc <- s1,
    file <- s2, tmp <- s3, final <- s4, count <- s5, archive <- s6, runs <- s7, ok <- s8,
    killed <- s9, tradeKeys <- s1, bookKeys <- s2, days <- s3, next <- s4, result <- s5,
    window <- s6

\* Presets of four jobs on two exchanges.
Plan == INSTANCE RecorderRuns WITH
    N <- 1, MaxActive <- 1, Wave <- 1, Exclusive <- {}, Tui <- FALSE,
    Exchanges <- {"binance", "finam"}, Channels <- {"trades"}, MaxJobs <- 4, Waves <- {1, 2},
    Staggers <- {0, 2, 3}, Cooldowns <- {0, 1, 5}, Sessions <- {}, Named <- {}, Ttl <- 0,
    MaxFails <- 0, jobOf <- s1, worker <- s2, capture <- s3, loopAt <- s4, visited <- s5,
    launched <- s6, quit <- s7, preset <- s1, setting <- s2, runnable <- s3, plan <- s4,
    dir <- s1, group <- s2, sweep <- s3, fails <- s4, lateRows <- s5

\* Days around a weekend.
Detailed == INSTANCE DetailedCandles WITH
    Days <- {9, 13, 14}, RetryDays <- 3, Expiries <- {1, 2}, MaxRows <- 3, pc <- s1, req <- s2,
    ends <- s3, probes <- s4, legs <- s5, group <- s6

\* Two strategies; two sessions, their group and a typed path.
Setup == INSTANCE BacktestSetup WITH
    Values <- {2, 3}, Default <- 1, Strategies <- {1, 2}, MaxActs <- 3, N <- 2, Futures <- {2},
    Binary <- {3}, Manual <- {3}, LegMaxActs <- 5, members <- s1, store <- s2, profile <- s3,
    dirty <- s4, acts <- s5, v <- s1, legStore <- s2, legActs <- s3

\* Three spellings of one symbol and a recording without one.
Batch == INSTANCE BacktestBatch WITH
    Spellings <- {<<"BTC", "-", "USDT", "-", "SWAP">>, <<"BTC", ":", "USDT">>, <<"BTC", "USDT">>, <<>>},
    Exchanges <- {1, 2}, Markets <- {"futures", "spot"}, Expiries <- {1, 2}, MaxSessions <- 3,
    Budgets <- {0, 1, 2}, Words <- {"BTC", "USDT", "SWAP"}, MaxTokens <- 5,
    ParamValues <- {1, 2, 5}, ModeValues <- {1, 2},
    Outcomes <- {Outcome(-2, 3, TRUE), Outcome(1, 0, TRUE), Outcome(9, 1, FALSE)}, MaxRows <- 2,
    MaxCurve <- 7, Steps <- {-1, 2}, Sentinel <- -100, Bonus <- 10, sessions <- s1, mode <- s2,
    budget <- s3, onlyFutures <- s4, pairs <- s5, skipped <- s6, analysisRows <- s1, curve <- s2

Settings == INSTANCE CapturePage WITH
    Venues <- {}, Routed <- {}, WithSnapshot <- {}, Masks <- {}, MaxActs <- 0,
    PageVenues <- {"binance_futures", "bybit_futures", "finam_spot", "finam_futures"},
    Finam <- {"finam_spot", "finam_futures"}, Symbols <- {"BTC_USDT", "ETH_USDT", "SBER@MISX"},
    Crypto <- {"BTC_USDT", "ETH_USDT"}, Listed <- {"SBER@MISX"}, MaxLimit <- 3,
    PageMaxActs <- 4, ui <- s1, ses <- s2, shown <- s3, coords <- s4, acts <- s5, page <- s1,
    file <- s2, rows <- s3, pageActs <- s4

\* A session with candles, one with a single row, one without a valid quote; two quotes apart, a crossed one and one without a bid.
Compare == INSTANCE ComparePage WITH
    Sessions <- {"s1", "s2", "s3"}, Quoted <- [s1 |-> {2, 6}, s2 |-> {4}, s3 |-> {1, 3}],
    Bars <- [s1 |-> {2, 4}, s2 |-> {2, 4}, s3 |-> {4}], OneSided <- {"s3"},
    Results <- {"r1", "r2"}, Overlay <- [r1 |-> {3, 8}, r2 |-> {}],
    Indicator <- [r1 |-> {}, r2 |-> {5}], Usage <- [r1 |-> {}, r2 |-> {7, 9}], MinSpan <- 2,
    MaxZoom <- 2, MaxActs <- 4, Quotes <- {<<1, 2>>, <<3, 4>>, <<3, 2>>, <<0, 3>>},
    Shapes <- {Shape(2, 4, TRUE, 2), Shape(0, 0, FALSE, 1), Shape(2, 4, FALSE, 2)},
    MaxRows <- 2, MaxTs <- 3, MaxWindow <- 2, c <- s1, scale <- s2, acts <- s3, a <- s1,
    b <- s2, ca <- s3, cb <- s4

\* Two sessions whose files may be whole, torn, bad or missing; three rows of orders.
Layers == INSTANCE ChartLayers WITH
    Sessions <- {"s1", "s2"}, Results <- {}, Owners <- {},
    Varied <- {"trades", "candles", "ticker", "depth"}, MaxActs <- 3,
    MaxWrites <- 0, Ids <- {1, 2}, MaxT <- 3, RunEnd <- 3, MaxOrders <- 3, MaxFills <- 2,
    MaxRows <- 3, files <- s1, results <- s2, shown <- s3, asked <- s4, failed <- s5,
    list <- s6, cache <- s7, acts <- s8, writes <- s9, last <- s10, orders <- s1, fills <- s2,
    overlayFiles <- s3, out <- s4, phase <- s5

\* The same with a result of each session.
Overlays == INSTANCE ChartLayers WITH
    Sessions <- {"s1", "s2"}, Results <- {"r1", "r2"},
    Owners <- {<<"r1", "s1">>, <<"r2", "s2">>}, Varied <- {}, MaxActs <- 3,
    MaxWrites <- 2, Ids <- {}, MaxT <- 0, RunEnd <- 0, MaxOrders <- 0, MaxFills <- 0,
    MaxRows <- 0, files <- s1, results <- s2, shown <- s3, asked <- s4, failed <- s5,
    list <- s6, cache <- s7, acts <- s8, writes <- s9, last <- s10, orders <- s1, fills <- s2,
    overlayFiles <- s3, out <- s4, phase <- s5

\* Rows closer than a pixel, than a segment, and further apart.
View == INSTANCE ChartView WITH
    Stamps <- {1, 4, 9}, Prices <- {1, 5}, MinimumWindow <- 4, Limit <- 6, MaxSessionRows <- 3, MaxActs <- 2,
    MaxT <- 4, Width <- 4, MinSegmentPx <- 2, SampleStepPx <- 2, SnapshotLimit <- 4,
    Windows <- {<<2, 6>>, <<0, 8>>}, MaxRows <- 3, sessionRows <- s1, window <- s2, mode <- s3,
    book <- s4, acts <- s5, lastMove <- s6, tickers <- s1, snapshotTrades <- s2, depths <- s3,
    vp <- s4, snapshotMode <- s5

Basis == INSTANCE MoexBasis WITH
    Groups <- {"a", "b"}, Other <- "b",
    OwnRows <- {<<Candle(2, "ohlc"), Candle(1, "ohlc"), Candle(2, "ohlc")>>, <<Candle(3, "tier1"), Candle(1, "bad"), Candle(2, "tier1")>>},
    SeriesRows <- {<<>>, <<Candle(3, "ohlc"), Candle(1, "bad"), Candle(2, "ohlc")>>},
    Expiries <- {0, 1}, SeriesExpiry <- 2, MaxActs <- 3, files <- s1, disk <- s2, v <- s3,
    acts <- s4, last <- s5

dataVars == <<part, From1, sourceVars>>

DataInit ==
    \/ part = "conversion" /\ Stored!Init /\ Idle3 /\ NoSource
    \/ part = "framing" /\ Stored!TxnInit /\ Idle3 /\ NoSource
    \/ part = "sealed" /\ Sealed!Init /\ NoSource
    \/ part = "load" /\ Directory!Init /\ Idle5 /\ NoSource
    \/ part = "document" /\ Directory!ManifestInit /\ Idle6 /\ NoSource
    \/ part = "timeline" /\ Replay!Init /\ Idle10 /\ NoSource
    \/ part = "levels" /\ Replay!LevelInit /\ Idle4 /\ NoSource
    \/ part = "integrity" /\ Replay!VerdictInit /\ NoSource
    \/ part = "merged" /\ Merged!VerdictInit /\ NoSource
    \/ part = "dates" /\ Archive!ArchiveInit /\ Idle7 /\ NoSource
    \/ part = "plan" /\ Plan!PlanInit /\ Idle5 /\ NoSource
    \/ part = "detailed" /\ Detailed!Init /\ Idle7 /\ NoSource
    \/ part = "settings" /\ Setup!Init /\ Idle6 /\ NoSource
    \/ part = "legs" /\ Setup!LegInit /\ Idle4 /\ NoSource
    \/ part = "pairs" /\ Batch!Init /\ Idle7 /\ NoSource
    \/ part = "analysis" /\ Batch!AnalysisInit /\ Idle3 /\ NoSource
    \/ part = "page" /\ Settings!PageInit /\ Idle5 /\ NoSource
    \/ part = "compare" /\ Compare!Init /\ Idle4 /\ NoSource
    \/ part = "spread" /\ Compare!SpreadInit /\ Idle5 /\ NoSource
    \/ part = "layers" /\ Layers!Init /\ Idle11 /\ NoSource
    \/ part = "orders" /\ Layers!OverlayInit /\ Idle6 /\ NoSource
    \/ part = "overlays" /\ Overlays!Init /\ Idle11 /\ NoSource
    \/ part = "window" /\ View!Init /\ Idle7 /\ NoSource
    \/ part = "snapshot" /\ View!SnapshotInit /\ Idle6 /\ NoSource
    \/ part = "basis" /\ Basis!Init /\ Idle6 /\ NoSource
    \/ part = "source" /\ SourceInit /\ Idle1

DataNext ==
    \/ part = "conversion" /\ Stored!Next /\ UNCHANGED <<part, From3, sourceVars>>
    \/ part = "framing" /\ Stored!TxnNext /\ UNCHANGED <<part, From3, sourceVars>>
    \/ part = "sealed" /\ Sealed!Next /\ UNCHANGED <<part, sourceVars>>
    \/ part = "load" /\ Directory!Next /\ UNCHANGED <<part, From5, sourceVars>>
    \/ part = "document" /\ Directory!ManifestNext /\ UNCHANGED <<part, From6, sourceVars>>
    \/ part = "timeline" /\ Replay!Next /\ UNCHANGED <<part, From10, sourceVars>>
    \/ part = "levels" /\ Replay!LevelNext /\ UNCHANGED <<part, From4, sourceVars>>
    \/ part = "integrity" /\ Replay!VerdictNext /\ UNCHANGED <<part, sourceVars>>
    \/ part = "merged" /\ Merged!VerdictNext /\ UNCHANGED <<part, sourceVars>>
    \/ part = "dates" /\ Archive!ArchiveNext /\ UNCHANGED <<part, From7, sourceVars>>
    \/ part = "plan" /\ Plan!PlanNext /\ UNCHANGED <<part, From5, sourceVars>>
    \/ part = "detailed" /\ Detailed!Next /\ UNCHANGED <<part, From7, sourceVars>>
    \/ part = "settings" /\ Setup!Next /\ UNCHANGED <<part, From6, sourceVars>>
    \/ part = "legs" /\ Setup!LegNext /\ UNCHANGED <<part, From4, sourceVars>>
    \/ part = "pairs" /\ Batch!Next /\ UNCHANGED <<part, From7, sourceVars>>
    \/ part = "analysis" /\ Batch!AnalysisNext /\ UNCHANGED <<part, From3, sourceVars>>
    \/ part = "page" /\ Settings!PageNext /\ UNCHANGED <<part, From5, sourceVars>>
    \/ part = "compare" /\ Compare!Next /\ UNCHANGED <<part, From4, sourceVars>>
    \/ part = "spread" /\ Compare!SpreadNext /\ UNCHANGED <<part, From5, sourceVars>>
    \/ part = "layers" /\ Layers!Next /\ UNCHANGED <<part, From11, sourceVars>>
    \/ part = "orders" /\ Layers!OverlayNext /\ UNCHANGED <<part, From6, sourceVars>>
    \/ part = "overlays" /\ Overlays!Next /\ UNCHANGED <<part, From11, sourceVars>>
    \/ part = "window" /\ View!Next /\ UNCHANGED <<part, From7, sourceVars>>
    \/ part = "snapshot" /\ View!SnapshotNext /\ UNCHANGED <<part, From6, sourceVars>>
    \/ part = "basis" /\ Basis!Next /\ UNCHANGED <<part, From6, sourceVars>>
    \/ part = "source" /\ SourceNext /\ UNCHANGED <<part, From1>>

DataSpec == DataInit /\ [][DataNext]_dataVars

\* Writers, converters and readers of stored data agree.  A source's health is what the records before say,
\* and its rows are of the subscription in force (BinaryMarketSourceState); the depth transaction takes
\* exactly the records of a whole frame, and the converter lets through exactly what it takes, with
\* quantities exact or refused; a sealed corpus opens exactly when it is sound, and its cursor then never
\* fails and gives every selected row once in the order of arrival; a session the loader accepts is whole,
\* and neither a lagging manifest nor a stale index costs it; a manifest is read as it was written, and
\* nothing lost from it is read as better than it was.
StoredIsSound ==
    /\ part = "source" => UnhealthyByHistory /\ RowsUnderSubscription
    /\ part = "conversion" => Stored!ChunkRulesAgree /\ Stored!PartRulesAgree
           /\ Stored!ChangesAccepted /\ Stored!ScalesExactly
    /\ part = "framing" => Stored!AcceptsExactly /\ Stored!IdleMeansWhole /\ Stored!StartsExactly
    /\ part = "sealed" => Sealed!OpensExactlySound /\ Sealed!CursorNeverFails
           /\ Sealed!EmitsArrivals /\ Sealed!BeginFitsRows
    /\ part = "load" => Directory!AcceptedIsWhole /\ Directory!LagIsNotCorruption
           /\ Directory!IndexIsAdvisory
    /\ part = "document" => Directory!WrittenIsRead /\ Directory!AcceptedKeepsRequired
           /\ Directory!NoMoreThanVouchedFor /\ Directory!LoadableNamesPaths
           /\ Directory!RefusedLeavesNothing

\* A replay shows the session that was recorded.  After any seeks the book is the one of the last target, and
\* an accepted session has an order at all (SessionReplayTimeline); full-depth rows become deltas and books
\* that reproduce them level by level (BookState); whatever is added, finalized or refreshed, a session
\* captured with an incident is never called exact, and an exact one has its order proved (SessionReplay).
ReplayFaithful ==
    /\ part = "timeline" => Replay!BookFollowsSeek /\ Replay!AcceptedOrder
    /\ part = "levels" => Replay!OneLevelPerPrice /\ Replay!SnapshotsReproduced
           /\ Replay!WindowIsPrefix
    /\ part = "integrity" => Replay!NegativeRetained /\ Replay!ExactMeansProved
           /\ Replay!PartialOnly
    /\ part = "merged" => Merged!NegativeRetained /\ Merged!ExactMeansProved /\ Merged!PartialOnly

\* SessionReplay::book(): "Current book reflecting all events with ts <= cursor tsNs."
BookOfCursor == part = "timeline" => Replay!BookOfCursor

\* What a page shows or uses belongs to what is chosen on it.  Rows, overlays and results of the charts, of
\* the comparison and of the basis page are of the sessions, legs and result they name, however choices were
\* refused, half loaded or changed since (ChartControllerSession, BookTickerCompareController,
\* MoexBasisController); the legs and the primary leg of a backtest are the saved ones of its session; strict
\* limits never stand alone; a restarted capture page asks for what it asked for before
\* (BacktestViewModelLegSelection, BacktestViewModelConfig, CaptureViewModelState).
ShownIsChosen ==
    /\ part = "layers" => Layers!RowsOfNamed /\ Layers!AnsweredIsWhole
    /\ part = "overlays" => Overlays!OverlayIsSelected
    /\ part = "compare" => Compare!RowsOfNamed /\ Compare!PaneFollowsData
           /\ Compare!ResultOfChosen /\ Compare!FittedUntilMoved /\ Compare!WindowHasWidth
           /\ Compare!ZoomStaysInside
    /\ part = "basis" => Basis!OverlayOfShownLegs /\ Basis!CandlesShown
           /\ Basis!WindowHoldsCandles
    /\ part = "window" => View!WindowHasExtent /\ View!FitShowsRows /\ View!LatestInWindow
    /\ part = "legs" => Setup!LegsFollowSettings /\ Setup!SettingsInStep /\ Setup!PrimaryIsShown
    /\ part = "settings" => Setup!StrictNeedsLimits
    /\ part = "page" => Settings!RestartKeepsConfigs /\ Settings!RestartRestoresLegs
           /\ Settings!ChainRowsFit

\* What is computed from rows, dates or settings is what a direct reading of them gives: the order of a launch
\* plan, the dates and candle windows of a download, the pairs and rankings of a batch, the spread, mean,
\* lines and segments of the charts, the basis points, and the lifetimes of the orders drawn over them
\* (RecorderTuiLaunch, HistoryCli, CaptureViewModelBatch, BacktestBatchSweepHelpers,
\* BacktestBatchAnalysisHelpers, BookTickerSpread, ChartController, MoexBasisController, StrategyOverlay).
DerivedExactly ==
    /\ part = "plan" => Plan!StartsAscend /\ Plan!CooldownKept /\ Plan!WavesBounded
           /\ Plan!NeverIdles
    /\ part = "dates" => Archive!DatesImportable /\ Archive!LatestWithinPage
    /\ part = "detailed" => Detailed!SmartEndsAreLatest /\ Detailed!WindowIsLatestAnswered
           /\ Detailed!ChainOkMeansPublished /\ Detailed!EveryLegReported
           /\ Detailed!TradedBeforeArchived
    /\ part = "pairs" => Batch!PairsExactly /\ Batch!ChainAscends /\ Batch!EveryLegAccounted
           /\ Batch!CanonicalIsStable
    /\ part = "analysis" => Batch!CleanRowsFirst /\ Batch!MatrixCountsRows /\ Batch!QuartersEven
           /\ Batch!PlateauByRank
    /\ part = "spread" => Compare!SpreadOfLatest /\ Compare!GainIsQuoted /\ Compare!MeanIsOfWindow
           /\ Compare!CandlesPaired /\ Compare!DrawnInsideRange /\ Compare!LineIsCurrentPrice
           /\ Compare!CursorReadsNearest
    /\ part = "snapshot" => View!SegmentBookIsCurrent /\ View!SegmentsCover
           /\ View!SamplesAreQuotes /\ View!LineInPlace /\ View!GroupsConserve
    /\ part = "basis" => Basis!PointsWherePaired
    /\ part = "orders" => Layers!SegmentIsLifetime /\ Layers!LivedIsDrawn /\ Layers!WholeOrNothing

\* What no handler may do.  Finalizing twice changes no verdict; loading one more layer or result leaves the
\* user's window, and a refreshed list is current; zooming keeps what it zooms into; the leg dialog writes
\* the session it shows and a change of legs leaves a strategy that fits; a restart, a profile just saved and
\* a strategy chosen again give back the settings as they were.
HandlersKeepStep ==
    /\ part = "integrity" => Replay!FinalizeStable
    /\ part = "merged" => Merged!FinalizeStable
    /\ part = "compare" => Compare!UserWindowKept
    /\ part = "layers" => Layers!UserWindowKept
    /\ part = "overlays" => Overlays!ListIsCurrent
    /\ part = "window" => View!ZoomNests
    /\ part = "legs" => Setup!SavesShownSession /\ Setup!StrategyFits
    /\ part = "settings" => Setup!RestartRestores /\ Setup!ProfileRoundTrip
           /\ Setup!StrategyKeepsParams

HandlersKeep == [][HandlersKeepStep]_dataVars

=============================================================================
