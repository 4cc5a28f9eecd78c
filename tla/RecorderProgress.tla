---- MODULE RecorderProgress ----
(***************************************************************************)
(* The parts that promise progress, with the fairness of the threads,      *)
(* loops, timers and deadlines that give it.  As in RecorderProcesses a    *)
(* behaviour is one of ONE part, named by "part"; its variables are the    *)
(* places s1, s2, ... in the order of its module, and the rest stay 0.     *)
(* Fairness is stated once for all parts: as a behaviour is of one part,   *)
(* the fairness of a disjunction over the parts is that of each part.      *)
(***************************************************************************)
EXTENDS Naturals

VARIABLES
    part,       \* the machine this behaviour is of
    s1, s2, s3, s4, s5, s6, s7, s8, s9, s10, s11, s12, s13, s14, s15, s16  \* its state; 0 where it has none

\* the places from the n-th on: unused by a machine of fewer variables
From16 == <<s16>>
From15 == <<s15, From16>>
From14 == <<s14, From15>>
From13 == <<s13, From14>>
From12 == <<s12, From13>>
From11 == <<s11, From12>>
From10 == <<s10, From11>>
From9 == <<s9, From10>>
From8 == <<s8, From9>>
From7 == <<s7, From8>>
From6 == <<s6, From7>>
From5 == <<s5, From6>>
From4 == <<s4, From5>>
From3 == <<s3, From4>>
From2 == <<s2, From3>>
From1 == <<s1, From2>>

Idle16 == s16 = 0
Idle15 == s15 = 0 /\ Idle16
Idle14 == s14 = 0 /\ Idle15
Idle13 == s13 = 0 /\ Idle14
Idle12 == s12 = 0 /\ Idle13
Idle11 == s11 = 0 /\ Idle12
Idle10 == s10 = 0 /\ Idle11
Idle9 == s9 = 0 /\ Idle10
Idle8 == s8 = 0 /\ Idle9
Idle7 == s7 = 0 /\ Idle8
Idle6 == s6 = 0 /\ Idle7
Idle5 == s5 = 0 /\ Idle6
Idle4 == s4 = 0 /\ Idle5
Idle3 == s3 = 0 /\ Idle4
Idle2 == s2 = 0 /\ Idle3
Idle1 == s1 = 0 /\ Idle2

\* One change of selection while the session is launched, runs or stops.
Session == INSTANCE RecorderCaptureSession WITH
    Feeds <- {"a", "b"}, Selections <- {{"a"}, {"b"}}, MaxRevisions <- 1, MaxRows <- 0,
    RingRows <- 1, MaxSessions <- 1, worker <- s1, shared <- s2, parser <- s3, corpus <- s4,
    caller <- s5

\* Four calls of one client.
Service == INSTANCE RecorderService WITH
    Clients <- {"c1"}, Operations <- {"configure", "start", "stop", "sources"},
    Configs <- {"g1"}, NoConfig <- "none", MaxCalls <- 4, MaxCuts <- 1,
    MaxSessions <- 2, client <- s1, wire <- s2, server <- s3, capture <- s4, archive <- s5,
    log <- s6

\* Two streams, two recordings.
Coordinator == INSTANCE CaptureCoordinator WITH
    Channels <- {}, Paired <- {}, MaxRows <- 0, Streams <- {1, 2}, MaxSessions <- 2,
    manifest <- s1, health <- s2, arrival <- s3, count <- s4, store <- s5, history <- s6,
    disk <- s7, truth <- s8, desired <- s1, running <- s2, stop <- s3, alive <- s4,
    joinable <- s5, loop <- s6, seen <- s7, active <- s8, caller <- s9, failed <- s10,
    session <- s11

\* Two jobs for one slot; sweeps of one session, with a removal that fails.
Tui == INSTANCE RecorderRuns WITH
    N <- 2, MaxActive <- 1, Wave <- 1, Exclusive <- {}, Tui <- TRUE, Exchanges <- {},
    Channels <- {}, MaxJobs <- 0, Waves <- {}, Staggers <- {}, Cooldowns <- {},
    Sessions <- {"a"}, Named <- {"a"}, Ttl <- 1, MaxFails <- 1, jobOf <- s1, worker <- s2,
    capture <- s3, loopAt <- s4, visited <- s5, launched <- s6, quit <- s7, preset <- s1,
    setting <- s2, runnable <- s3, plan <- s4, dir <- s1, group <- s2, sweep <- s3, fails <- s4,
    lateRows <- s5

\* Two shards for one slot, admitted one by one.
Shards == INSTANCE ShardSupervisor WITH
    N <- 2, MaxActive <- 1, Limit <- 3, Gradual <- TRUE, Keyed <- {}, shard <- s1, disk <- s2,
    child <- s3, wrote <- s4, killed <- s5, at <- s6, i <- s7

\* Two sessions, one of them changed.
Library == INSTANCE RecordingLibrary WITH
    Sessions <- {"a", "b"}, MaxChanges <- 1, MaxRefreshes <- 2, MaxStarts <- 2, Binary <- {},
    Publishers <- {}, MaxStamp <- 0, MaxRows <- 0, Kinds <- {}, None <- "none", root <- s1, changes <- s2,
    refreshes <- s3, starts <- s4, cache <- s5, up <- s6, snapshot <- s7, loading <- s8,
    pending <- s9, worker <- s10, result <- s11, posted <- s12, owed <- s13, removed <- s14,
    faulted <- s15, sess <- s1, live <- s2, next <- s3, file <- s4, lock <- s5, pc <- s6,
    me <- s7, quiet <- s8

\* A run and a batch.
Backtests == INSTANCE BacktestRuns WITH
    Kinds <- {"run", "batch"}, MaxJobs <- 2, MaxPairs <- 2, MaxLoads <- 1, Runs <- {},
    Others <- {}, Sweeps <- {}, NoRun <- "none", MaxWrites <- 0, MaxActs <- 0, ui <- s1,
    kind <- s2, running <- s3, active <- s4, cancel <- s5, worker <- s6, inbox <- s7,
    jobs <- s8, written <- s9, loads <- s10, reading <- s11, reported <- s12, early <- s13,
    dropped <- s14, asked <- s15, cancelled <- s16, disk <- s1, writes <- s2, acts <- s3,
    v <- s4, records <- s5, shownKey <- s6, threads <- s7, resultsInbox <- s8, mixed <- s9,
    finished <- s10, gone <- s11

\* Two calls of the page's handlers.
Page == INSTANCE CapturePage WITH
    Venues <- {"v1", "v2"}, Routed <- {"v1", "v2"}, WithSnapshot <- {"v1"},
    Masks <- {{"bookticker", "trade"}, {"depth"}, {"trade", "mark"}}, MaxActs <- 2,
    PageVenues <- {}, Finam <- {}, Symbols <- {}, Crypto <- {}, Listed <- {}, MaxLimit <- 0,
    PageMaxActs <- 0, ui <- s1, ses <- s2, shown <- s3, coords <- s4, acts <- s5, page <- s1,
    file <- s2, rows <- s3, pageActs <- s4

\* Three acts of the operator.
Lab == INSTANCE CompressionLab WITH
    Sessions <- {"a", "b"}, DepthOnly <- {"b"}, Python <- {"py"}, TradesPipes <- {"tr"},
    AllPipes <- {}, MaxActs <- 3, listed <- s1, session <- s2, channel <- s3, pipeline <- s4,
    runRows <- s5, verifyRows <- s6, running <- s7, verifying <- s8, jobs <- s9, metrics <- s10,
    verdicts <- s11, late <- s12, mixed <- s13, acts <- s14

\* A read shorter than a row.
Tail == INSTANCE LiveTail WITH
    TradeRows <- 1, TickerRows <- 0, DepthRows <- 1, MaxRead <- 2, HistoryCap <- 2,
    MaxFaults <- 0, MaxChoices <- 1, size <- s1, tail <- s2, started <- s3, replay <- s4,
    history <- s5, overlay <- s6, stable <- s7, window <- s8, current <- s9, pc <- s10,
    batch <- s11, missed <- s12, again <- s13, faults <- s14, choices <- s15

workVars == <<part, From1>>

WorkInit ==
    \/ part = "session" /\ Session!Init /\ Idle6
    \/ part = "service" /\ Service!Init /\ Idle7
    \/ part = "manager" /\ Coordinator!ManagerInit /\ Idle12
    \/ part = "jobs" /\ Tui!Init /\ Idle8
    \/ part = "shards" /\ Shards!Init /\ Idle8
    \/ part = "sweep" /\ Tui!SweepInit /\ Idle6
    \/ part = "catalog" /\ Library!Init /\ Idle16
    \/ part = "backtests" /\ Backtests!Init
    \/ part = "page" /\ Page!Init /\ Idle6
    \/ part = "lab" /\ Lab!Init /\ Idle15
    \/ part = "tail" /\ Tail!Init /\ Idle16

WorkNext ==
    \/ part = "session" /\ Session!Next /\ UNCHANGED <<part, From6>>
    \/ part = "service" /\ Service!Next /\ UNCHANGED <<part, From7>>
    \/ part = "manager" /\ Coordinator!ManagerNext /\ UNCHANGED <<part, From12>>
    \/ part = "jobs" /\ Tui!Next /\ UNCHANGED <<part, From8>>
    \/ part = "shards" /\ Shards!Next /\ UNCHANGED <<part, From8>>
    \/ part = "sweep" /\ Tui!SweepNext /\ UNCHANGED <<part, From6>>
    \/ part = "catalog" /\ Library!Next /\ UNCHANGED <<part, From16>>
    \/ part = "backtests" /\ Backtests!Next /\ UNCHANGED <<part>>
    \/ part = "page" /\ Page!Next /\ UNCHANGED <<part, From6>>
    \/ part = "lab" /\ Lab!Next /\ UNCHANGED <<part, From15>>
    \/ part = "tail" /\ Tail!Next /\ UNCHANGED <<part, From16>>

\* The thread, loop or timer that does the work of a part.
Main ==
    \/ part = "session" /\ Session!Worker /\ UNCHANGED <<part, From6>>
    \/ part = "service" /\ Service!StopWorker /\ UNCHANGED <<part, From7>>
    \/ part = "manager" /\ Coordinator!Thread /\ UNCHANGED <<part, From12>>
    \/ part = "jobs" /\ Tui!Loop /\ UNCHANGED <<part, From8>>
    \/ part = "shards" /\ Shards!Supervise /\ UNCHANGED <<part, From8>>
    \/ part = "sweep" /\ Tui!Sweeping /\ UNCHANGED <<part, From6>>
    \/ part = "catalog" /\ Library!Step /\ UNCHANGED <<part, From16>>
    \/ part = "backtests" /\ Backtests!Worker /\ UNCHANGED <<part>>
    \/ part = "page" /\ Page!Timer /\ UNCHANGED <<part, From6>>
    \/ part = "lab" /\ Lab!Thread /\ UNCHANGED <<part, From15>>
    \/ part = "tail" /\ (Tail!Poll \/ Tail!Reopen \/ Tail!Restart \/ Tail!Activated) /\ UNCHANGED <<part, From16>>

\* What runs beside it: the caller of a stop, the event loop, the recorder that writes the files ...
Beside ==
    \/ part = "session" /\ (Session!StopDecision \/ Session!StopOwnedProducer) /\ UNCHANGED <<part, From6>>
    \/ part = "service" /\ Service!SourcesCatalog /\ UNCHANGED <<part, From7>>
    \/ part = "manager" /\ (Coordinator!StartRefused \/ Coordinator!StartDesires) /\ UNCHANGED <<part, From12>>
    \/ part = "jobs" /\ Tui!WorkerEnds(1) /\ UNCHANGED <<part, From8>>
    \/ part = "shards" /\ Shards!Waiting /\ UNCHANGED <<part, From8>>
    \/ part = "sweep" /\ Tui!SweepBegin("group") /\ UNCHANGED <<part, From6>>
    \/ part = "catalog" /\ Library!Apply /\ UNCHANGED <<part, From16>>
    \/ part = "backtests" /\ Backtests!ReadManifests /\ UNCHANGED <<part>>
    \/ part = "tail" /\ (\E f \in Tail!Files : Tail!writeLine(f)) /\ UNCHANGED <<part, From16>>

\* ... the next step of a call, a second worker, the clock ...
Further ==
    \/ part = "service" /\ Service!SourcesEnd /\ UNCHANGED <<part, From7>>
    \/ part = "manager" /\ (Coordinator!StartMarks \/ Coordinator!StartChecks \/ Coordinator!StartSpawns) /\ UNCHANGED <<part, From12>>
    \/ part = "jobs" /\ Tui!WorkerEnds(2) /\ UNCHANGED <<part, From8>>
    \/ part = "shards" /\ Shards!RecordingEnds(1) /\ UNCHANGED <<part, From8>>
    \/ part = "sweep" /\ Tui!Tick /\ UNCHANGED <<part, From6>>
    \/ part = "backtests" /\ Backtests!Loop /\ UNCHANGED <<part>>

\* ... the server and the recordings, which have a duration ...
Handling ==
    \/ part = "service" /\ Service!Handle("c1") /\ UNCHANGED <<part, From7>>
    \/ part = "manager" /\ (Coordinator!StopStream \/ Coordinator!Join) /\ UNCHANGED <<part, From12>>
    \/ part = "jobs" /\ Tui!CaptureEnds(1) /\ UNCHANGED <<part, From8>>
    \/ part = "shards" /\ Shards!RecordingEnds(2) /\ UNCHANGED <<part, From8>>

\* ... and a client, which waits no longer than its timeout.
Answering ==
    \/ part = "service" /\ (Service!Receive("c1") \/ Service!Timeout("c1")) /\ UNCHANGED <<part, From7>>
    \/ part = "jobs" /\ Tui!CaptureEnds(2) /\ UNCHANGED <<part, From8>>

\* Deadlines come, and a job whose turn comes again and again is launched, although neither is enabled all the time.
Due ==
    \/ part = "session" /\ (Session!PollTimeout \/ Session!FreezeTimeout) /\ UNCHANGED <<part, From6>>
    \/ part = "jobs" /\ Tui!LaunchOf(1) /\ UNCHANGED <<part, From8>>
    \/ part = "shards" /\ Shards!Deadline /\ UNCHANGED <<part, From8>>

Overdue ==
    \/ part = "session" /\ Session!WaitTimeout /\ UNCHANGED <<part, From6>>
    \/ part = "jobs" /\ Tui!LaunchOf(2) /\ UNCHANGED <<part, From8>>
    \/ part = "shards" /\ Shards!Mark /\ UNCHANGED <<part, From8>>

NoKeyPressed ==
    \/ part = "shards" /\ Shards!NoKey /\ UNCHANGED <<part, From8>>

Fairness ==
    /\ WF_workVars(Main) /\ WF_workVars(Beside) /\ WF_workVars(Further) /\ WF_workVars(Handling) /\ WF_workVars(Answering)
    /\ SF_workVars(Due) /\ SF_workVars(Overdue) /\ SF_workVars(NoKeyPressed)

WorkSpec == WorkInit /\ [][WorkNext]_workVars /\ Fairness

(***************************************************************************)
(* What must happen.  The parts are apart, so a leads-to over all of them  *)
(* says of each what its own module states.                                *)
(***************************************************************************)
\* A stop was asked for, a session is dead, a spinner is shown ...
Ending ==
    \/ part = "session" /\ Session!StopAsked
    \/ part = "service" /\ Service!StopTaken
    \/ part = "manager" /\ Coordinator!InStop
    \/ part = "shards" /\ Shards!InStop
    \/ part = "sweep" /\ Tui!Dead("a")
    \/ part = "catalog" /\ Library!Loading
    \/ part = "backtests" /\ Backtests!Running
    \/ part = "page" /\ Page!Connected
    \/ part = "lab" /\ Lab!Working

\* ... and that has come to its end.
Ended ==
    \/ part = "session" /\ Session!Over
    \/ part = "service" /\ Service!NothingRuns
    \/ part = "manager" /\ Coordinator!Closed
    \/ part = "shards" /\ Shards!Returned
    \/ part = "sweep" /\ Tui!Gone("a")
    \/ part = "catalog" /\ Library!Loaded
    \/ part = "backtests" /\ Backtests!IdleAgain
    \/ part = "page" /\ Page!ListedLive
    \/ part = "lab" /\ ~Lab!Working

\* A change of selection, a call, a stream, the report of a job, the end of a capture ...
Asked(i) ==
    \/ part = "session" /\ i = 1 /\ Session!Requested(1)
    \/ part = "service" /\ i = 1 /\ Service!Calling("c1")
    \/ part = "manager" /\ Coordinator!Wanted(i)
    \/ part = "backtests" /\ Backtests!Posted(i)
    \/ part = "page" /\ i = 1 /\ Page!Inactive

\* ... and its answer.
Answered(i) ==
    \/ part = "session" /\ Session!Settled(1)
    \/ part = "service" /\ ~Service!Calling("c1")
    \/ part = "manager" /\ Coordinator!Captured(i)
    \/ part = "backtests" /\ Backtests!ReportTaken(i)
    \/ part = "page" /\ Page!ShownEnded

\* Every job is finalized, every shard is started.
Once(i) ==
    \/ part = "jobs" /\ Tui!JobOver(i)
    \/ part = "shards" /\ Shards!Started(i)
    \/ part \notin {"jobs", "shards"}

\* Work that was begun ends.  A stop of a capture, of the service's session, of the market data streams and of
\* the shards comes to its end whatever launch, command or child it meets (requestStop, handleStop,
\* stopMarketData, the supervisor's grace periods); a call returns, a requested selection is settled and a
\* stream is captured or its failure known; every job is finalized and every shard started; a dead session is
\* swept; no page keeps showing a load, a run or a capture that is over; and once the recorder has written
\* all, the live tail reaches the end of every file and stops reloading.
WorkEnds ==
    /\ Ending ~> Ended
    /\ \A i \in 1..2 : Asked(i) ~> Answered(i)
    /\ \A i \in 1..2 : <>Once(i)
    /\ <>[](part = "tail" => Tail!CaughtUp)

=============================================================================
