---- MODULE RecorderProcesses ----
(***************************************************************************)
(* The parts of the recorder and its viewer that run beside one another or *)
(* beside a failing world: threads, processes, sockets, queued callbacks,  *)
(* and files that others write.  They meet only at the interfaces their    *)
(* modules model, so a behaviour here is one of ONE part: it is chosen at  *)
(* the start and named by "part", and the run checks them all without      *)
(* multiplying their states.  A part's variables are the places s1, s2,    *)
(* ... in the order of its module; the places it does not need stay 0.     *)
(*                                                                         *)
(* The replacement of a session's manifest keeps its own variables, so     *)
(* that what is checked of it is what CorpusStoreProofs proves.            *)
(***************************************************************************)
EXTENDS ManifestReplacement

VARIABLES
    part,       \* the machine this behaviour is of
    s1, s2, s3, s4, s5, s6, s7, s8, s9, s10, s11, s12, s13, s14, s15, s16  \* its state; 0 where it has none

\* the places from the n-th on: unused by a machine of fewer variables
From16 == <<s16>>
From15 == <<s15, From16>>
From14 == <<s14, From15>>
From13 == <<s13, From14>>
From12 == <<s12, From13>>
From11 == <<s11, From12>>
From10 == <<s10, From11>>
From9 == <<s9, From10>>
From8 == <<s8, From9>>
From7 == <<s7, From8>>
From6 == <<s6, From7>>
From5 == <<s5, From6>>
From4 == <<s4, From5>>
From3 == <<s3, From4>>
From2 == <<s2, From3>>
From1 == <<s1, From2>>

Idle16 == s16 = 0
Idle15 == s15 = 0 /\ Idle16
Idle14 == s14 = 0 /\ Idle15
Idle13 == s13 = 0 /\ Idle14
Idle12 == s12 = 0 /\ Idle13
Idle11 == s11 = 0 /\ Idle12
Idle10 == s10 = 0 /\ Idle11
Idle9 == s9 = 0 /\ Idle10
Idle8 == s8 = 0 /\ Idle9
Idle7 == s7 = 0 /\ Idle8
Idle6 == s6 = 0 /\ Idle7
Idle5 == s5 = 0 /\ Idle6
Idle4 == s4 = 0 /\ Idle5
Idle3 == s3 = 0 /\ Idle4
Idle2 == s2 = 0 /\ Idle3
Idle1 == s1 = 0 /\ Idle2

\* Two shards with room for one row each, so that rows wait, are refused and are dropped.
Client == INSTANCE ParserMarketCaptureClient WITH
    ShardCount <- 2, RingCapacity <- 1, DirectoryCapacity <- 1, MaxRows <- 2, MaxClock <- 2,
    arena <- s1, clock <- s2, client <- s3, sink <- s4

\* The same with room for a source that is announced while the client drains.
Announced == INSTANCE ParserMarketCaptureClient WITH
    ShardCount <- 2, RingCapacity <- 1, DirectoryCapacity <- 2, MaxRows <- 2, MaxClock <- 1,
    arena <- s1, clock <- s2, client <- s3, sink <- s4

\* Two revisions, so that one is requested while another is pending.
Session == INSTANCE RecorderCaptureSession WITH
    Feeds <- {"a", "b"}, Selections <- {{"a"}, {"b"}, {"a", "b"}}, MaxRevisions <- 2,
    MaxRows <- 0, RingRows <- 1, MaxSessions <- 1, worker <- s1, shared <- s2, parser <- s3,
    corpus <- s4, caller <- s5

\* A ring one row short, a change of selection, and a Parser that stops or is lost with rows in flight.
Captured == INSTANCE RecorderCaptureSession WITH
    Feeds <- {"a", "b"}, Selections <- {{"a"}, {"a", "b"}}, MaxRevisions <- 1,
    MaxRows <- 2, RingRows <- 1, MaxSessions <- 1, worker <- s1, shared <- s2, parser <- s3,
    corpus <- s4, caller <- s5

\* Five snapshots are one more than two keys of two versions need: the reserve is met.
Reference == INSTANCE RecorderReferenceCapture WITH
    Keys <- {"k1", "k2"}, MaxSnapshots <- 5, MaxVersions <- 2, MaxCuts <- 3, MaxReads <- 4,
    current <- s1, worker <- s2, slot <- s3, writer <- s4, cut <- s5

\* Two clients that control the service.
Control == INSTANCE RecorderService WITH
    Clients <- {"c1", "c2"}, Operations <- {"configure", "start", "stop"},
    Configs <- {"g1", "g2"}, NoConfig <- "none", MaxCalls <- 2, MaxCuts <- 0,
    MaxSessions <- 2, client <- s1, wire <- s2, server <- s3, capture <- s4, archive <- s5,
    log <- s6

\* One client that reads blocks and archived catalogues.
Reads == INSTANCE RecorderService WITH
    Clients <- {"c1"}, Operations <- {"configure", "start", "stop", "block", "sources"},
    Configs <- {"g1"}, NoConfig <- "none", MaxCalls <- 5, MaxCuts <- 2,
    MaxSessions <- 2, client <- s1, wire <- s2, server <- s3, capture <- s4, archive <- s5,
    log <- s6

\* One channel of one file and one of two; two recordings of one coordinator.
Coordinator == INSTANCE CaptureCoordinator WITH
    Channels <- {"trades", "depth"}, Paired <- {"depth"}, MaxRows <- 1, Streams <- {1, 2},
    MaxSessions <- 2, manifest <- s1, health <- s2, arrival <- s3, count <- s4, store <- s5,
    history <- s6, disk <- s7, truth <- s8, desired <- s1, running <- s2, stop <- s3,
    alive <- s4, joinable <- s5, loop <- s6, seen <- s7, active <- s8, caller <- s9,
    failed <- s10, session <- s11

\* run-preset with two jobs on one exclusive session; sweeps of two sessions, one of them named in a manifest.
Presets == INSTANCE RecorderRuns WITH
    N <- 2, MaxActive <- 2, Wave <- 1, Exclusive <- {1, 2}, Tui <- FALSE, Exchanges <- {},
    Channels <- {}, MaxJobs <- 0, Waves <- {}, Staggers <- {}, Cooldowns <- {},
    Sessions <- {"a", "b"}, Named <- {"a"}, Ttl <- 1, MaxFails <- 1, jobOf <- s1, worker <- s2,
    capture <- s3, loopAt <- s4, visited <- s5, launched <- s6, quit <- s7, preset <- s1,
    setting <- s2, runnable <- s3, plan <- s4, dir <- s1, group <- s2, sweep <- s3, fails <- s4,
    lateRows <- s5

\* The TUI loop with two jobs for one slot.
Tui == INSTANCE RecorderRuns WITH
    N <- 2, MaxActive <- 1, Wave <- 1, Exclusive <- {}, Tui <- TRUE, Exchanges <- {},
    Channels <- {}, MaxJobs <- 0, Waves <- {}, Staggers <- {}, Cooldowns <- {}, Sessions <- {},
    Named <- {}, Ttl <- 0, MaxFails <- 0, jobOf <- s1, worker <- s2, capture <- s3,
    loopAt <- s4, visited <- s5, launched <- s6, quit <- s7, preset <- s1, setting <- s2,
    runnable <- s3, plan <- s4, dir <- s1, group <- s2, sweep <- s3, fails <- s4, lateRows <- s5

\* Two shards on one exclusive session, under a memory limit.
Shards == INSTANCE ShardSupervisor WITH
    N <- 2, MaxActive <- 2, Limit <- 2, Gradual <- FALSE, Keyed <- {1, 2}, shard <- s1,
    disk <- s2, child <- s3, wrote <- s4, killed <- s5, at <- s6, i <- s7

\* ... and two that share one slot.
Single == INSTANCE ShardSupervisor WITH
    N <- 2, MaxActive <- 1, Limit <- 2, Gradual <- FALSE, Keyed <- {}, shard <- s1,
    disk <- s2, child <- s3, wrote <- s4, killed <- s5, at <- s6, i <- s7

\* Two runs over two dates.
History == INSTANCE HistoryCli WITH
    N <- 2, MaxRuns <- 2, Today <- 0, Lookbacks <- <<>>, Page <- 1, MaxDays <- 0, pc <- s1,
    file <- s2, tmp <- s3, final <- s4, count <- s5, archive <- s6, runs <- s7, ok <- s8,
    killed <- s9, tradeKeys <- s1, bookKeys <- s2, days <- s3, next <- s4, result <- s5,
    window <- s6

\* Two requests of two pages.
Candles == INSTANCE CandleHistory WITH
    Timeframes <- {"15m", "5m"}, Tiered <- {"15m"}, Limit <- 2, MaxRows <- 2, MaxPages <- 2,
    MaxRequests <- 2, files <- s1, count <- s2, manifest <- s3, call <- s4, state <- s5,
    calls <- s6, faulty <- s7

\* Three calls of the page's handlers; one venue has a snapshot binding.
Page == INSTANCE CapturePage WITH
    Venues <- {"v1", "v2"}, Routed <- {"v1", "v2"}, WithSnapshot <- {"v1"},
    Masks <- {{"bookticker", "trade"}, {"depth"}, {"trade", "mark"}}, MaxActs <- 3,
    PageVenues <- {}, Finam <- {}, Symbols <- {}, Crypto <- {}, Listed <- {}, MaxLimit <- 0,
    PageMaxActs <- 0, ui <- s1, ses <- s2, shown <- s3, coords <- s4, acts <- s5, page <- s1,
    file <- s2, rows <- s3, pageActs <- s4

\* Two publishers of one group of two sessions: three changes of files, ...
Library == INSTANCE RecordingLibrary WITH
    Sessions <- {"a", "b"}, MaxChanges <- 2, MaxRefreshes <- 2, MaxStarts <- 2, Binary <- {"b"},
    Publishers <- {"p", "q"}, MaxStamp <- 3, MaxRows <- 1, Kinds <- {"path", "given"}, None <- "none", root <- s1,
    changes <- s2, refreshes <- s3, starts <- s4, cache <- s5, up <- s6, snapshot <- s7,
    loading <- s8, pending <- s9, worker <- s10, result <- s11, posted <- s12, owed <- s13,
    removed <- s14, faulted <- s15, sess <- s1, live <- s2, next <- s3, file <- s4, lock <- s5,
    pc <- s6, me <- s7, quiet <- s8

\* ... and two that may rewrite a manifest with more rows.
Rewritten == INSTANCE RecordingLibrary WITH
    Sessions <- {"a", "b"}, MaxChanges <- 2, MaxRefreshes <- 2, MaxStarts <- 2, Binary <- {"b"},
    Publishers <- {"p", "q"}, MaxStamp <- 2, MaxRows <- 2, Kinds <- {"path", "rebuild"}, None <- "none", root <- s1,
    changes <- s2, refreshes <- s3, starts <- s4, cache <- s5, up <- s6, snapshot <- s7,
    loading <- s8, pending <- s9, worker <- s10, result <- s11, posted <- s12, owed <- s13,
    removed <- s14, faulted <- s15, sess <- s1, live <- s2, next <- s3, file <- s4, lock <- s5,
    pc <- s6, me <- s7, quiet <- s8

\* Three runs with four reloads; a run and a sweep in the list of results.
Backtests == INSTANCE BacktestRuns WITH
    Kinds <- {"run"}, MaxJobs <- 3, MaxPairs <- 1, MaxLoads <- 4, Runs <- {"a", "s"},
    Others <- {"a"}, Sweeps <- {"s"}, NoRun <- "none", MaxWrites <- 1, MaxActs <- 2, ui <- s1,
    kind <- s2, running <- s3, active <- s4, cancel <- s5, worker <- s6, inbox <- s7,
    jobs <- s8, written <- s9, loads <- s10, reading <- s11, reported <- s12, early <- s13,
    dropped <- s14, asked <- s15, cancelled <- s16, disk <- s1, writes <- s2, acts <- s3,
    v <- s4, records <- s5, shownKey <- s6, threads <- s7, resultsInbox <- s8, mixed <- s9,
    finished <- s10, gone <- s11

\* Two jobs of any kind.
Jobs == INSTANCE BacktestRuns WITH
    Kinds <- {"run", "sweep", "batch", "basis"}, MaxJobs <- 2, MaxPairs <- 2, MaxLoads <- 1,
    Runs <- {}, Others <- {}, Sweeps <- {}, NoRun <- "none", MaxWrites <- 0, MaxActs <- 0,
    ui <- s1, kind <- s2, running <- s3, active <- s4, cancel <- s5, worker <- s6, inbox <- s7,
    jobs <- s8, written <- s9, loads <- s10, reading <- s11, reported <- s12, early <- s13,
    dropped <- s14, asked <- s15, cancelled <- s16, disk <- s1, writes <- s2, acts <- s3,
    v <- s4, records <- s5, shownKey <- s6, threads <- s7, resultsInbox <- s8, mixed <- s9,
    finished <- s10, gone <- s11

\* Two sessions, one without trades.
Lab == INSTANCE CompressionLab WITH
    Sessions <- {"a", "b"}, DepthOnly <- {"b"}, Python <- {"py"}, TradesPipes <- {"tr"},
    AllPipes <- {}, MaxActs <- 4, listed <- s1, session <- s2, channel <- s3, pipeline <- s4,
    runRows <- s5, verifyRows <- s6, running <- s7, verifying <- s8, jobs <- s9, metrics <- s10,
    verdicts <- s11, late <- s12, mixed <- s13, acts <- s14

\* A tail read in pieces of less than two rows.
Rows == INSTANCE LiveTail WITH
    TradeRows <- 2, TickerRows <- 1, DepthRows <- 0, MaxRead <- 4, HistoryCap <- 4,
    MaxFaults <- 1, MaxChoices <- 2, size <- s1, tail <- s2, started <- s3, replay <- s4,
    history <- s5, overlay <- s6, stable <- s7, window <- s8, current <- s9, pc <- s10,
    batch <- s11, missed <- s12, again <- s13, faults <- s14, choices <- s15

\* Depth rows of two files.
Books == INSTANCE LiveTail WITH
    TradeRows <- 0, TickerRows <- 0, DepthRows <- 2, MaxRead <- 4, HistoryCap <- 3,
    MaxFaults <- 1, MaxChoices <- 1, size <- s1, tail <- s2, started <- s3, replay <- s4,
    history <- s5, overlay <- s6, stable <- s7, window <- s8, current <- s9, pc <- s10,
    batch <- s11, missed <- s12, again <- s13, faults <- s14, choices <- s15

\* Windows that hold some of the rows.
Windows == INSTANCE LiveTail WITH
    TradeRows <- 2, TickerRows <- 0, DepthRows <- 0, MaxRead <- 6, HistoryCap <- 3,
    MaxFaults <- 1, MaxChoices <- 1, size <- s1, tail <- s2, started <- s3, replay <- s4,
    history <- s5, overlay <- s6, stable <- s7, window <- s8, current <- s9, pc <- s10,
    batch <- s11, missed <- s12, again <- s13, faults <- s14, choices <- s15

captureVars == <<part, From1, manifestVars>>

CaptureInit ==
    \/ part = "client" /\ Client!Init /\ Idle5 /\ ManifestInit
    \/ part = "announced" /\ Announced!Init /\ Idle5 /\ ManifestInit
    \/ part = "session" /\ Session!Init /\ Idle6 /\ ManifestInit
    \/ part = "captured" /\ Captured!Init /\ Idle6 /\ ManifestInit
    \/ part = "reference" /\ Reference!Init /\ Idle6 /\ ManifestInit
    \/ part = "control" /\ Control!Init /\ Idle7 /\ ManifestInit
    \/ part = "reads" /\ Reads!Init /\ Idle7 /\ ManifestInit
    \/ part = "recording" /\ Coordinator!Init /\ Idle9 /\ ManifestInit
    \/ part = "manager" /\ Coordinator!ManagerInit /\ Idle12 /\ ManifestInit
    \/ part = "preset" /\ Presets!Init /\ Idle8 /\ ManifestInit
    \/ part = "tui" /\ Tui!Init /\ Idle8 /\ ManifestInit
    \/ part = "sweep" /\ Presets!SweepInit /\ Idle6 /\ ManifestInit
    \/ part = "shards" /\ Shards!Init /\ Idle8 /\ ManifestInit
    \/ part = "single" /\ Single!Init /\ Idle8 /\ ManifestInit
    \/ part = "import" /\ History!Init /\ Idle10 /\ ManifestInit
    \/ part = "candles" /\ Candles!Init /\ Idle8 /\ ManifestInit
    \/ part = "page" /\ Page!Init /\ Idle6 /\ ManifestInit
    \/ part = "catalog" /\ Library!Init /\ Idle16 /\ ManifestInit
    \/ part = "group" /\ Library!GroupInit /\ Idle9 /\ ManifestInit
    \/ part = "rewritten" /\ Rewritten!GroupInit /\ Idle9 /\ ManifestInit
    \/ part = "backtests" /\ Backtests!Init /\ ManifestInit
    \/ part = "results" /\ Backtests!ResultsInit /\ Idle12 /\ ManifestInit
    \/ part = "jobs" /\ Jobs!Init /\ ManifestInit
    \/ part = "lab" /\ Lab!Init /\ Idle15 /\ ManifestInit
    \/ part = "rows" /\ Rows!Init /\ Idle16 /\ ManifestInit
    \/ part = "books" /\ Books!Init /\ Idle16 /\ ManifestInit
    \/ part = "windows" /\ Windows!Init /\ Idle16 /\ ManifestInit
    \/ part = "manifest" /\ ManifestInit /\ Idle1

CaptureNext ==
    \/ part = "client" /\ Client!Next /\ UNCHANGED <<part, From5, manifestVars>>
    \/ part = "announced" /\ Announced!Next /\ UNCHANGED <<part, From5, manifestVars>>
    \/ part = "session" /\ Session!Next /\ UNCHANGED <<part, From6, manifestVars>>
    \/ part = "captured" /\ Captured!Next /\ UNCHANGED <<part, From6, manifestVars>>
    \/ part = "reference" /\ Reference!Next /\ UNCHANGED <<part, From6, manifestVars>>
    \/ part = "control" /\ Control!Next /\ UNCHANGED <<part, From7, manifestVars>>
    \/ part = "reads" /\ Reads!Next /\ UNCHANGED <<part, From7, manifestVars>>
    \/ part = "recording" /\ Coordinator!Next /\ UNCHANGED <<part, From9, manifestVars>>
    \/ part = "manager" /\ Coordinator!ManagerNext /\ UNCHANGED <<part, From12, manifestVars>>
    \/ part = "preset" /\ Presets!Next /\ UNCHANGED <<part, From8, manifestVars>>
    \/ part = "tui" /\ Tui!Next /\ UNCHANGED <<part, From8, manifestVars>>
    \/ part = "sweep" /\ Presets!SweepNext /\ UNCHANGED <<part, From6, manifestVars>>
    \/ part = "shards" /\ Shards!Next /\ UNCHANGED <<part, From8, manifestVars>>
    \/ part = "single" /\ Single!Next /\ UNCHANGED <<part, From8, manifestVars>>
    \/ part = "import" /\ History!Next /\ UNCHANGED <<part, From10, manifestVars>>
    \/ part = "candles" /\ Candles!Next /\ UNCHANGED <<part, From8, manifestVars>>
    \/ part = "page" /\ Page!Next /\ UNCHANGED <<part, From6, manifestVars>>
    \/ part = "catalog" /\ Library!Next /\ UNCHANGED <<part, From16, manifestVars>>
    \/ part = "group" /\ Library!GroupNext /\ UNCHANGED <<part, From9, manifestVars>>
    \/ part = "rewritten" /\ Rewritten!GroupNext /\ UNCHANGED <<part, From9, manifestVars>>
    \/ part = "backtests" /\ Backtests!Next /\ UNCHANGED <<part, manifestVars>>
    \/ part = "results" /\ Backtests!ResultsNext /\ UNCHANGED <<part, From12, manifestVars>>
    \/ part = "jobs" /\ Jobs!Next /\ UNCHANGED <<part, manifestVars>>
    \/ part = "lab" /\ Lab!Next /\ UNCHANGED <<part, From15, manifestVars>>
    \/ part = "rows" /\ Rows!Next /\ UNCHANGED <<part, From16, manifestVars>>
    \/ part = "books" /\ Books!Next /\ UNCHANGED <<part, From16, manifestVars>>
    \/ part = "windows" /\ Windows!Next /\ UNCHANGED <<part, From16, manifestVars>>
    \/ part = "manifest" /\ ManifestNext /\ UNCHANGED <<part, From1>>

CaptureSpec == CaptureInit /\ [][CaptureNext]_captureVars

\* Rows on their way are handed over once, in order, and accounted for.  The capture client gives its
\* sink every committed row of every shard once and merged by arrival, none before its source, and a
\* stopped capture has each row in the sink or in its gaps (drainTo, publishProgressTo, appendFrozenLosses);
\* a corpus the session calls complete has every row the Parser published (runSession); the reference
\* history is never refused by a cut (buildBinaryReferencePayload); the candle files are never behind their
\* progress file or their arrival summary; the live tail passes over no line, pairs no depth row with
\* another's event and draws nothing twice (LiveDataProvider).
RowsAccounted ==
    /\ part = "client" => Client!RowsExactlyOnce /\ Client!MergedByArrival
           /\ Client!StopAccountsForAll /\ Client!SnapshotsConsistent
    /\ part = "announced" => Announced!RegisteredBeforeRows /\ Announced!SnapshotsConsistent
    /\ part = "captured" => Captured!CompleteMeansAll
    /\ part = "reference" => Reference!BinderNeverRefuses /\ Reference!ReserveSuffices
    /\ part = "candles" => Candles!StateNeverAhead /\ Candles!ArrivalAccountsForAll
           /\ Candles!LoneRequestLoads
    /\ part = "rows" => Rows!EveryLineAccounted /\ Rows!ShownOnce
    /\ part = "books" => Books!NeverMispaired /\ Books!EveryPairAccounted
    /\ part = "windows" => Windows!WindowDrawn

\* What is reported as good was good.  A recording whose manifest says complete had no loss, error or
\* reconnect and matching files (finalizeSession); a job called done was closed with rows, a run called done
\* left nothing failed behind (runPreset); a child that crashed or was killed is no clean exit and its errors
\* stay (ShardRunCli); an import is published whole (HistoryCli); a backtest that is offered again has ended,
\* a report is dropped only when its end was known, a job is cancelled only by its own cancel
\* (BacktestViewModel); the tables of the compression page are what is on disk for the session they name.
VerdictsTrue ==
    /\ part = "recording" => Coordinator!CompleteMeansClean /\ Coordinator!NoPhantomUnavailable
           /\ Coordinator!CompleteHasCapturedRows
    /\ part = "preset" => Presets!DoneMeansRecorded /\ Presets!DoneReport
    /\ part = "shards" => Shards!CrashIsNotClean /\ Shards!ErrorsKept
    /\ part = "import" => History!PublishedWhole /\ History!NoDebris
    /\ part = "backtests" => Backtests!IdleMeansFinished /\ Backtests!DroppedWasKnown
    /\ part = "jobs" => Jobs!CancelNotInherited
    /\ part = "lab" => Lab!TableMatchesDisk /\ Lab!VerdictsOfSelected

\* An answer belongs to its question.  A control call gets its own reply, is run at most once and in order,
\* and a stop ends the session it was for (RecorderServiceClient, RecorderServiceServer); catalogues and
\* blocks are of one generation; an applied selection is the last one requested (RecorderCaptureSession)
\* and an accepted one is the one the page shows (CaptureViewModel); no refresh of the catalogue or of the
\* results is lost, and results loaded late never replace newer ones (RecordingCatalog, BacktestViewModel).
CallsMatched ==
    /\ part = "control" => Control!ReplyOfItsCall /\ Control!AtMostOnce /\ Control!CallsInOrder
           /\ Control!StopHitsItsSession /\ Control!ConfigIsSelection
    /\ part = "reads" => Reads!SourcesOfGeneration /\ Reads!BlockOfGeneration
    /\ part = "session" => Session!AppliedMeansSubscribed
    /\ part = "page" => Page!AcceptedIsRequested
    /\ part = "catalog" => Library!NoRefreshLost /\ Library!CacheFollows
    /\ part = "results" => Backtests!QuietMeansLoaded /\ Backtests!CurveNotOlder
           /\ Backtests!QuietDetails

\* Exclusive things are held once, and what is over left nothing running.  No Parser outlives a stop
\* (requestStop), no manager thread is replaced while it runs (CaptureCoordinatorRuntime), jobs and shards
\* that need one exclusive session never have it together and never outnumber their slots, every session is
\* finalized and every child killed or reaped at the end (PresetRunnerCli, RecorderTuiJobs, ShardRunCli),
\* a finalized capture page has nothing open, and one thread of the compression page works at a time.
NoneLeftRunning ==
    /\ part = "session" => Session!StopLeavesNoParser
    /\ part = "captured" => Captured!StopLeavesNoParser
    /\ part = "manager" => Coordinator!OneManager /\ Coordinator!ClosedMeansQuiet
    /\ part = "preset" => Presets!ExclusiveHeld /\ Presets!AllClosed
    /\ part = "tui" => Tui!AllClosed /\ Tui!CapturesWithinSlots
    /\ part = "shards" => Shards!ExclusiveProcesses /\ Shards!NoOrphan
    /\ part = "single" => Single!ProcessesBounded /\ Single!NoOrphan
    /\ part = "page" => Page!FinalizedIsClosed
    /\ part = "lab" => Lab!PendingIsRunning /\ Lab!OneJobAtATime

\* What no step may do.  A cut never changes what an earlier one has shown; a terminal end never leaves a
\* recording's verdict; a stopped job never runs again; a sweep removes no young session and no rows a
\* manifest has counted; a group file is replaced only by one true at one instant, by a publisher that
\* inspected it, and forgets no member; a catalogue read from its cache shows nothing deleted; an unfinished
\* worker is never replaced and details go only to the run they were asked for.
NeverTakenBackStep ==
    /\ part = "reference" => Reference!VisibilityImmutable
    /\ part = "recording" => Coordinator!IncompleteSticks
    /\ part = "preset" => Presets!StopSticks
    /\ part = "sweep" => Presets!CountedRowsKept /\ Presets!YoungKept
    /\ part = "catalog" => Library!CacheShownExists
    /\ part = "group" => Library!PublishedIsSnapshot /\ Library!ReplacesInspected
           /\ Library!MembersKept /\ Library!QuietDiscoverySucceeds
    /\ part = "rewritten" => Rewritten!PublishedIsSnapshot /\ Rewritten!ReplacesInspected
    /\ part = "jobs" => Jobs!WorkerNeverLost
    /\ part = "results" => Backtests!DetailsOfSelected

NeverTakenBack == [][NeverTakenBackStep]_captureVars

=============================================================================
