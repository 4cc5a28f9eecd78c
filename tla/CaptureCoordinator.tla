---- MODULE CaptureCoordinator ----
(***************************************************************************)
(* Two machines: a JSON recording session (Init, Next), and the manager of *)
(* the market data streams it starts (ManagerInit, ManagerNext).           *)
(*                                                                         *)
(* One JSON recording session of CaptureCoordinator: opening it, the rows  *)
(* appended by the capture, the health notes of its channels, historical   *)
(* rows written by a second thread, the periodic manifest refresh, and     *)
(* finalization, whose file writes may fail and be tried again.            *)
(*                                                                         *)
(* Counters the verdict only compares with zero are kept as Booleans.      *)
(***************************************************************************)
EXTENDS Naturals, FiniteSets, TLC

CONSTANTS
    Channels,       \* live channels
    Paired,         \* channels stored as two files, a tape and a sidecar
    MaxRows         \* bound: canonical rows of a session

VARIABLES
    manifest,   \* manifest_: status, exactness, counts as last refreshed
    health,     \* per channel, ChannelRuntimeHealth
    arrival,    \* manifest_.arrivalClock
    count,      \* the row counters
    store,      \* JsonSessionSink: open, and the lines of each channel's files
    history,    \* the historical writer: row written and noted, not yet counted
    disk,       \* manifest.json
    truth       \* what really happened: anything that makes a recording inexact

vars == <<manifest, health, arrival, count, store, history, disk, truth>>

NoHealth == [state |-> "not_requested", required |-> FALSE, first |-> FALSE,
             dropped |-> FALSE, unroutable |-> FALSE, reconnected |-> FALSE, error |-> FALSE]
NoManifest == [open |-> FALSE, status |-> "none", exact |-> FALSE, rows |-> 0]
NoArrival == [captured |-> 0, historical |-> 0, unavailable |-> 0]
Empty == [c \in Channels |-> 0]

Init ==
    /\ manifest = NoManifest /\ disk = NoManifest
    /\ health = [c \in Channels |-> NoHealth]
    /\ arrival = NoArrival /\ count = 0
    /\ store = [open |-> FALSE, lines |-> Empty, sidecar |-> Empty]
    /\ history = "idle" /\ truth = FALSE

(***************************************************************************)
(* ensureSession and startExternalCapture.                                 *)

\* initializeHealth
Initialized(c, requested, enabled) ==
    [NoHealth EXCEPT
        !.state = IF c \notin requested THEN "not_requested"
                  ELSE IF c \in enabled THEN "waiting_first_row" ELSE "unsupported",
        !.required = c \in requested,
        !.error = c \in requested \ enabled]

\* A failure after the directory was made leaves the session open, without
\* storage, and a failed_startup manifest.
Start(requested, enabled) ==
    /\ ~manifest.open
    /\ \E opened \in BOOLEAN :
        /\ manifest' = [NoManifest EXCEPT !.open = TRUE,
                          !.status = IF opened THEN "recording" ELSE "failed_startup"]
        /\ disk' = manifest'
        /\ store' = [open |-> opened, lines |-> Empty, sidecar |-> Empty]
        /\ health' = IF opened THEN [c \in Channels |-> Initialized(c, requested, enabled)] ELSE health
    /\ truth' = (requested \ enabled # {})
    /\ UNCHANGED <<arrival, count, history>>

(***************************************************************************)
(* Rows and notes.                                                         *)
(***************************************************************************)
\* A session opened for managed streams (startTrades and its siblings) requests no
\* channel of the external kind and takes rows of every channel.
Receives(c) == manifest.open /\ (health[c].required \/ \A d \in Channels : ~health[d].required)

RowForgivesError(h) == [h EXCEPT !.first = TRUE, !.error = FALSE,
                                 !.state = IF @ = "terminal" THEN @ ELSE "live"]

\* noteExternalRow_
RowNoted(h) == [h EXCEPT !.first = TRUE, !.state = IF @ = "terminal" THEN @ ELSE "live"]

\* A row that was stored is counted and its arrival noted.
AppendRow(c) ==
    /\ Receives(c) /\ store.open /\ count + Cardinality({history} \ {"idle"}) < MaxRows
    /\ store' = [store EXCEPT !.lines[c] = @ + 1, !.sidecar[c] = IF c \in Paired THEN @ + 1 ELSE @]
    /\ count' = count + 1
    /\ arrival' = [arrival EXCEPT !.captured = @ + 1]
    /\ health' = [health EXCEPT ![c] = RowNoted(@)]
    /\ UNCHANGED <<manifest, history, disk, truth>>

\* One that was not stored, or not wholly, or came without its receive clocks, is a
\* dropped event.
AppendFails(c) ==
    /\ Receives(c) /\ count < MaxRows
    /\ \E half \in BOOLEAN :
        /\ half => store.open /\ c \in Paired /\ store.lines[c] <= store.sidecar[c]
        /\ store' = IF half THEN [store EXCEPT !.lines[c] = @ + 1] ELSE store
    /\ health' = [health EXCEPT ![c].dropped = TRUE, ![c].state = "degraded", ![c].error = TRUE]
    /\ truth' = TRUE
    /\ UNCHANGED <<manifest, arrival, count, history, disk>>

\* noteExternalCaptureLoss, noteExternalUnroutableEvent
Loss(c) ==
    /\ Receives(c)
    /\ \E kind \in {"dropped", "unroutable"} :
        health' = [health EXCEPT ![c] = [[@ EXCEPT !.state = "degraded", !.error = TRUE]
                                            EXCEPT ![kind] = TRUE]]
    /\ truth' = TRUE
    /\ UNCHANGED <<manifest, arrival, count, store, history, disk>>

\* noteExternalChannelError.  What was lost is noted apart (Loss): the error of a
\* channel nobody requested is a note without effect on the verdict.
ChannelError(c) ==
    /\ manifest.open
    /\ health' = [health EXCEPT ![c].error = TRUE,
                                ![c].state = IF @ = "live" THEN @ ELSE "degraded"]
    /\ truth' = (truth \/ health[c].required)
    /\ UNCHANGED <<manifest, arrival, count, store, history, disk>>

\* noteExternalChannelConnection
Connection(c, connected, reconnected) ==
    /\ manifest.open /\ health[c].required /\ health[c].state # "unsupported"
    /\ health' = [health EXCEPT
            ![c].reconnected = @ \/ reconnected,
            ![c].state = IF ~connected THEN "reconnecting"
                         ELSE IF health[c].first THEN "live" ELSE "waiting_first_row"]
    /\ truth' = (truth \/ reconnected)
    /\ UNCHANGED <<manifest, arrival, count, store, history, disk>>

\* noteExternalCaptureTerminal
Terminal ==
    /\ manifest.open
    /\ manifest' = [manifest EXCEPT !.status = "incomplete", !.exact = FALSE]
    /\ health' = [c \in Channels |-> IF health[c].state = "not_requested" THEN health[c]
                                     ELSE [health[c] EXCEPT !.state = "terminal", !.error = TRUE]]
    /\ truth' = TRUE
    /\ UNCHANGED <<arrival, count, store, history, disk>>

(***************************************************************************)
(* Historical rows: written, their arrival noted, and then counted.        *)

NotesThenCounts ==
    \/ history = "idle" /\ arrival' = [arrival EXCEPT !.historical = @ + 1] /\ UNCHANGED count
    \/ history = "between" /\ count' = count + 1 /\ UNCHANGED arrival

HistoryStep ==
    /\ manifest.open /\ store.open /\ (history = "idle" => count < MaxRows)
    /\ NotesThenCounts
    /\ history' = IF history = "idle" THEN "between" ELSE "idle"
    /\ UNCHANGED <<manifest, health, store, disk, truth>>

(***************************************************************************)
(* The manifest.                                                           *)
(***************************************************************************)
Accounted(a) == a.captured + a.historical + a.unavailable

\* Rows without a noted arrival become unavailable ones.
Settled(a) ==
    IF Accounted(a) < count THEN [a EXCEPT !.unavailable = @ + (count - Accounted(a))] ELSE a

RefreshOverwrites(m) == [m EXCEPT !.status = "recording", !.rows = count]

\* refreshRecordingManifestLocked_
Refreshed(m) == [m EXCEPT !.status = IF @ = "incomplete" THEN @ ELSE "recording", !.rows = count]

Refresh ==
    /\ manifest.open
    /\ manifest' = Refreshed(manifest)
    /\ arrival' = Settled(arrival)
    /\ \E written \in BOOLEAN : disk' = IF written THEN manifest' ELSE disk
    /\ UNCHANGED <<health, count, store, history, truth>>

RuntimeDegraded ==
    \E c \in Channels : \/ health[c].required /\ (health[c].state # "live" \/ health[c].error)
                        \/ health[c].reconnected \/ health[c].dropped \/ health[c].unroutable

ArrivalDegraded ==
    count # 0 /\ (Accounted(arrival) # count \/ arrival.unavailable # 0 \/ arrival.captured = 0)

Degraded == RuntimeDegraded \/ ArrivalDegraded

\* replayed: the replay of the session's own files called it exact.
Verdict(replayed) ==
    LET terminal == manifest.status = "incomplete"
    IN IF count = 0
       THEN [status |-> IF terminal THEN "incomplete" ELSE "failed_empty", exact |-> FALSE]
       ELSE [status |-> IF terminal THEN "incomplete"
                        ELSE IF Degraded THEN "complete_degraded" ELSE "complete",
             exact |-> replayed /\ ~terminal /\ ~Degraded]

\* Finalization with every write done: the session is closed.
Finalize ==
    /\ manifest.open /\ history = "idle"
    /\ \E replayed \in BOOLEAN : disk' = Verdict(replayed) @@ [open |-> TRUE, rows |-> count]
    /\ manifest' = NoManifest
    /\ health' = [c \in Channels |-> NoHealth]
    /\ arrival' = NoArrival /\ count' = 0
    /\ store' = [store EXCEPT !.open = FALSE]
    /\ UNCHANGED <<history, truth>>

\* A write fails: the storage is closed, the session stays open with what was decided
\* so far, and finalization may be called again.
FinalizeFails ==
    /\ manifest.open /\ history = "idle"
    /\ store' = [store EXCEPT !.open = FALSE]
    /\ arrival' = Settled(arrival)
    /\ \E seeded, decided, replayed \in BOOLEAN :
        /\ decided => seeded /\ count # 0
        /\ disk' = IF seeded THEN [manifest EXCEPT !.rows = count] ELSE disk
        /\ manifest' = IF decided \/ count = 0
                       THEN Verdict(replayed) @@ [open |-> TRUE, rows |-> count]
                       ELSE [manifest EXCEPT !.rows = count]
    /\ UNCHANGED <<health, count, history, truth>>

Next ==
    \/ \E requested, enabled \in SUBSET Channels :
        enabled \subseteq requested /\ Start(requested, enabled)
    \/ \E c \in Channels :
        \/ AppendRow(c) \/ AppendFails(c) \/ Loss(c) \/ ChannelError(c)
        \/ \E connected, reconnected \in BOOLEAN : Connection(c, connected, reconnected)
    \/ Terminal \/ HistoryStep \/ Refresh \/ Finalize \/ FinalizeFails

Spec == Init /\ [][Next]_vars

(***************************************************************************)
(* Properties.                                                             *)
(***************************************************************************)

\* A closed session whose manifest says complete, or eligible for exact replay, had no
\* loss, drop, reconnect, channel error or terminal end, and its paired files match
\* line for line, whatever rows and connections came after the fault.
CompleteMeansClean ==
    (~manifest.open /\ disk.open /\ (disk.status = "complete" \/ disk.exact))
        => /\ disk.status = "complete" /\ ~truth
           /\ \A c \in Paired : store.lines[c] = store.sidecar[c]

\* No row of a session is ever reported without its arrival: a refresh between the
\* steps of the historical writer never counts a row as one of unknown arrival.
NoPhantomUnavailable == arrival.unavailable = 0

\* A terminal end stays with the session, through refreshes and failed finalizations,
\* until it is closed, and then the manifest says incomplete.
IncompleteSticks ==
    manifest.status = "incomplete" =>
     IF manifest'.open THEN manifest'.status = "incomplete" ELSE disk'.status = "incomplete"

\* A session is called complete only when the capture itself delivered rows: one
\* of historical rows alone, or of none, is not.
CompleteHasCapturedRows ==
    (~manifest.open /\ disk.open /\ disk.status = "complete")
        => \E c \in Channels : store.lines[c] > 0

-----------------------------------------------------------------------------
(***************************************************************************)
(* The manager thread of a coordinator's managed streams.  One caller      *)
(* starts streams one after another, asks them to stop, and finalizes; the *)
(* thread captures whatever the desired flags name and ends by itself when *)
(* its capture owner fails.  Every shared flag is an atomic of its own, so *)
(* each store and load is a step.                                          *)
(***************************************************************************)

CONSTANTS
    Streams,        \* managed streams, 1..n in the order a job starts them
    MaxSessions     \* bound: recordings made with one coordinator

VARIABLES
    desired, running,   \* per stream: desiredX_, xRunning_
    stop, alive,        \* marketDataStop_, marketDataRunning_
    joinable,           \* marketDataThread_ holds a thread
    loop,               \* where the thread is; "none" when there is none
    seen, active,       \* the loop's reading of the desired flags, and activeMask
    caller,             \* [at, s]: where the caller is, on which stream
    failed, session     \* the session was fenced as incomplete; recordings so far

managerVars == <<desired, running, stop, alive, joinable, loop, seen, active, caller, failed, session>>
threadVars == <<loop, seen, active, failed>>
None == [s \in Streams |-> FALSE]
First == CHOOSE s \in Streams : \A t \in Streams : s <= t
Last == CHOOSE s \in Streams : \A t \in Streams : t <= s
AnyDesired == \E s \in Streams : desired[s]

ManagerInit ==
    /\ desired = None /\ running = None /\ stop = FALSE /\ alive = FALSE
    /\ joinable = FALSE /\ loop = "none" /\ seen = [next |-> First, mask |-> {}] /\ active = {}
    /\ caller = [at |-> "closed", s |-> First] /\ failed = FALSE /\ session = 0

(***************************************************************************)
(* The caller: startX for each stream, requestStopX for each, finalize.    *)
(***************************************************************************)
\* The next stream to start; one whose files or aliases are refused is passed over.
NextStart(s) == caller' = IF s = Last THEN [at |-> "up", s |-> First] ELSE [at |-> "start", s |-> s + 1]

Open ==
    /\ caller.at = "closed" /\ session < MaxSessions
    /\ session' = session + 1 /\ failed' = FALSE
    /\ caller' = [at |-> "start", s |-> First]
    /\ UNCHANGED <<desired, running, stop, alive, joinable, loop, seen, active>>

StartRefused ==
    /\ caller.at = "start" /\ NextStart(caller.s)
    /\ UNCHANGED <<desired, running, stop, alive, joinable, threadVars, session>>

StartDesires ==
    /\ caller.at = "start"
    /\ desired' = [desired EXCEPT ![caller.s] = TRUE]
    /\ caller' = [caller EXCEPT !.at = "mark"]
    /\ UNCHANGED <<running, stop, alive, joinable, threadVars, session>>

StartMarks ==
    /\ caller.at = "mark"
    /\ running' = [running EXCEPT ![caller.s] = TRUE]
    /\ caller' = [caller EXCEPT !.at = "check"]
    /\ UNCHANGED <<desired, stop, alive, joinable, threadVars, session>>

\* A thread that has ended is joined before another is made.
StartChecks ==
    /\ caller.at = "check"
    /\ joinable' = (joinable /\ alive)
    /\ caller' = [caller EXCEPT !.at = "spawn"]
    /\ UNCHANGED <<desired, running, stop, alive, threadVars, session>>

StartSpawns ==
    /\ caller.at = "spawn" /\ NextStart(caller.s)
    /\ IF joinable THEN UNCHANGED <<stop, alive, joinable, loop, seen, active>>
       ELSE /\ stop' = FALSE /\ alive' = TRUE /\ joinable' = TRUE
            /\ loop' = "top" /\ seen' = [next |-> First, mask |-> {}] /\ active' = {}
    /\ UNCHANGED <<desired, running, failed, session>>

\* reapStoppedThreads, from the job loop
Reap ==
    /\ caller.at = "up" /\ joinable /\ ~alive
    /\ joinable' = FALSE
    /\ UNCHANGED <<desired, running, stop, alive, threadVars, caller, session>>

BeginStop ==
    /\ caller.at = "up" /\ caller' = [at |-> "stop", s |-> First]
    /\ UNCHANGED <<desired, running, stop, alive, joinable, threadVars, session>>

\* requestStopManagedMarketData_, for each stream: its two flags, and the thread's
\* stop once no stream is desired.
StopStream ==
    /\ \/ /\ caller.at = "stop" /\ caller' = [caller EXCEPT !.at = "unmark"]
          /\ desired' = [desired EXCEPT ![caller.s] = FALSE] /\ UNCHANGED <<running, stop>>
       \/ /\ caller.at = "unmark" /\ caller' = [caller EXCEPT !.at = "settle"]
          /\ running' = [running EXCEPT ![caller.s] = FALSE] /\ UNCHANGED <<desired, stop>>
       \/ /\ caller.at = "settle" /\ stop' = (stop \/ ~AnyDesired) /\ UNCHANGED <<desired, running>>
          /\ caller' = IF caller.s = Last THEN [at |-> "join", s |-> First]
                       ELSE [at |-> "stop", s |-> caller.s + 1]
    /\ UNCHANGED <<alive, joinable, threadVars, session>>

\* joinManagedMarketDataIfIdle_: waits for the thread to be over.
Join ==
    /\ caller.at = "join" /\ (AnyDesired \/ ~joinable \/ loop = "none")
    /\ joinable' = (joinable /\ AnyDesired)
    /\ caller' = [at |-> "closed", s |-> First]
    /\ UNCHANGED <<desired, running, stop, alive, threadVars, session>>

(***************************************************************************)
(* The thread: marketDataManagerLoop_.                                     *)
(***************************************************************************)
LoopVars(at) == loop' = at /\ UNCHANGED <<desired, stop, joinable, caller, session>>

LoopTop ==
    /\ loop = "top" /\ LoopVars(IF stop THEN "shutdown" ELSE "read")
    /\ seen' = [next |-> First, mask |-> {}] /\ UNCHANGED <<running, alive, active, failed>>

\* The flags are read one by one.
LoopRead ==
    /\ loop = "read" /\ LoopVars(IF seen.next = Last THEN "decide" ELSE "read")
    /\ seen' = [next |-> seen.next + 1,
                mask |-> seen.mask \cup {s \in {seen.next} : desired[s]}]
    /\ UNCHANGED <<running, alive, active, failed>>

\* A changed mask rebuilds the capture of exactly those streams.
Configure(mask) == active' = mask

LoopDecide ==
    /\ loop = "decide"
    /\ IF seen.mask = {} THEN LoopVars("shutdown") /\ UNCHANGED active
       ELSE LoopVars("iterate") /\ Configure(seen.mask)
    /\ UNCHANGED <<running, alive, seen, failed>>

LoopIterate ==
    /\ loop = "iterate" /\ LoopVars("top")
    /\ UNCHANGED <<running, alive, seen, active, failed>>

\* The owner refuses its configuration or ends; only without a stop is the session fenced.
LoopFails ==
    /\ loop = "iterate" /\ LoopVars("shutdown")
    /\ failed' = (failed \/ (~stop /\ AnyDesired))
    /\ UNCHANGED <<running, alive, seen, active>>

LoopShutdown ==
    /\ loop = "shutdown" /\ LoopVars("clear")
    /\ active' = {} /\ seen' = [next |-> First, mask |-> {}] /\ UNCHANGED <<running, alive, failed>>

\* The running flags are cleared, and after them marketDataRunning_.
LoopClear ==
    /\ loop = "clear" /\ LoopVars("last")
    /\ running' = None /\ UNCHANGED <<alive, seen, active, failed>>

LoopEnd ==
    /\ loop = "last" /\ LoopVars("none")
    /\ alive' = FALSE /\ UNCHANGED <<running, seen, active, failed>>

Caller == Open \/ StartRefused \/ StartDesires \/ StartMarks \/ StartChecks \/ StartSpawns
          \/ Reap \/ BeginStop \/ StopStream \/ Join
Thread == LoopTop \/ LoopRead \/ LoopDecide \/ LoopIterate \/ LoopFails \/ LoopShutdown \/ LoopClear \/ LoopEnd
ManagerNext == Caller \/ Thread

ManagerSpec == ManagerInit /\ [][ManagerNext]_managerVars

\* The thread runs on; a caller that has begun a call or a stop finishes it.
Fairness ==
    /\ WF_managerVars(Thread)
    /\ WF_managerVars(StartRefused \/ StartDesires) /\ WF_managerVars(StartMarks \/ StartChecks \/ StartSpawns)
    /\ WF_managerVars(StopStream \/ Join)
FairSpec == ManagerSpec /\ Fairness

(***************************************************************************)
(* Properties.                                                             *)
(***************************************************************************)

\* There is never a manager thread the coordinator does not hold: none is replaced
\* while it runs, none is left behind.
OneManager == loop # "none" => joinable

\* When finalization has joined, nothing captures and no stream claims to run.
ClosedMeansQuiet ==
    caller.at = "closed" => loop = "none" /\ ~joinable /\ active = {} /\ running = None /\ ~AnyDesired

\* A stream that was started is captured, unless the capture owner failed or the
\* streams are being stopped.
Wanted(s) == desired[s]
Captured(s) == s \in active \/ failed \/ caller.at \in {"stop", "unmark", "settle", "join"}
Served == \A s \in Streams : Wanted(s) ~> Captured(s)

\* A stop ends: the caller always gets out of finalization.
InStop == caller.at = "stop"
Closed == caller.at = "closed"
StopEnds == InStop ~> Closed

=============================================================================
