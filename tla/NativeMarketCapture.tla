------------------------ MODULE NativeMarketCapture ------------------------
(***************************************************************************)
(* The direct JSON capture of several instruments on one venue.  The       *)
(* market thread runs VenueMultiplexCapture: it polls the exchange core,   *)
(* whose hooks hand every commit over to the storage thread, and later     *)
(* finalizes.  The storage thread runs drainWorker(): it converts events   *)
(* and appends them to the JSON session (the sink) of their source.        *)
(* Between the threads lie a single-producer ring of events and an arena   *)
(* of depth rows; the event of a depth frame points into the arena.        *)
(*                                                                         *)
(* A commit is its number: committed[n] says what was committed.  A row of *)
(* the arena is the number of the commit that wrote it.                    *)
(***************************************************************************)
EXTENDS Integers, Sequences, FiniteSets

CONSTANTS
    Source,             \* configured sources, each one channel of one sink
    DepthSource,        \* those that deliver depth frames
    Foreign,            \* a source id outside the configured membership
    Sink,               \* JSON sessions
    SinkOf,             \* the session that records a source
    RingCapacity,       \* SpscRing's Capacity; one slot stays empty
    MaximumDepthLevels, \* the largest level envelope of the descriptors
    FrameLevels,        \* the level counts of depth frames
    RowLimit,           \* the last row number; UINT64_MAX in the code
    MaxCommits          \* bound: commits of the exchange core

ASSUME SourceAssumption ==
    /\ DepthSource \subseteq Source /\ Foreign \notin Source
    /\ SinkOf \in [Source -> Sink]
ASSUME RingAssumption == RingCapacity \in Nat /\ RingCapacity >= 2
ASSUME ArenaAssumption ==
    /\ MaximumDepthLevels \in Nat \ {0} /\ RowLimit \in Nat
    /\ FrameLevels \subseteq Nat
ASSUME CommitAssumption == MaxCommits \in Nat

(* An arena for exactly one frame. *)
RowCapacityOneFrame == MaximumDepthLevels

(* rowCapacity_, as configure() sizes it. *)
RowCapacity == 2 * MaximumDepthLevels

VARIABLES
    pc, reserved,              \* the market thread and onDepth()'s begin
    running, terminal,         \* VenueMultiplexCapture
    connection,                \* connectionSeen, connectionState
    slots_, head_, tail_,      \* the ring
    rows_, rowHead_, rowTail_, \* the arena
    failed_, lostBySource_, stopStorage_,
    workerPc, event,           \* drainWorker()
    health,                    \* each channel's ChannelRuntimeHealth
    sessionStatus,             \* each sink's manifest_.sessionStatus
    manifest,                  \* each sink's manifest.json
    committed,                 \* ghost: what the exchange core committed
    recorded                   \* the commits appended to the sinks, in order

ringVars == <<slots_, head_, tail_>>
arenaVars == <<rows_, rowHead_, rowTail_>>
ownerVars == <<running, terminal, connection>>
sinkVars == <<health, sessionStatus, manifest, recorded>>
flagVars == <<failed_, lostBySource_>>
workerVars == <<workerPc, event>>
vars == <<pc, reserved, ownerVars, ringVars, arenaVars, flagVars, stopStorage_,
          workerVars, sinkVars, committed>>

(* A commit of a foreign source is refused before its values are read. *)
Commit ==
    [source : Source \ DepthSource, levels : {0}, representable : BOOLEAN]
      \cup [source : DepthSource, levels : FrameLevels, representable : BOOLEAN]
      \cup [source : {Foreign}, levels : {0}, representable : {TRUE}]
(* For a depth frame, the rows of the event are first .. rowEnd - 1. *)
Event == [number : 0 .. MaxCommits, first : Nat, rowEnd : Nat]
HealthState ==
    {"waiting_first_row", "live", "reconnecting", "degraded", "terminal"}
(* reconnected: reconnectCount is not 0; error: lastError is not empty. *)
Health == [state : HealthState, rows : Nat, reconnected : BOOLEAN,
           dropped : Nat, error : BOOLEAN]
Manifest == [status : {"recording", "incomplete", "complete",
                       "complete_degraded", "failed_empty"},
             exactReplayEligible : BOOLEAN]

(* The commit whose hook is running. *)
Current == Len(committed)
IsDepth(n) == committed[n].source \in DepthSource

(***************************************************************************)
(* start() succeeded: every sink has an open session with its channels     *)
(* enabled and required, configure() made the ring and the arena and       *)
(* started the storage thread.                                             *)
(***************************************************************************)
Init ==
    /\ pc = "poll" /\ reserved = 0
    /\ running = TRUE /\ terminal = FALSE
    /\ connection = [s \in Source |-> "unseen"]
    /\ slots_ = [i \in 0 .. RingCapacity - 1 |->
                    [number |-> 0, first |-> 0, rowEnd |-> 0]]
    /\ head_ = 0 /\ tail_ = 0
    /\ rows_ = [i \in 0 .. RowCapacity - 1 |-> 0]
    /\ rowHead_ = 0 /\ rowTail_ = 0
    /\ failed_ = FALSE /\ lostBySource_ = [s \in Source |-> 0]
    /\ stopStorage_ = FALSE
    /\ workerPc = "poll" /\ event = [number |-> 0, first |-> 0, rowEnd |-> 0]
    /\ health = [s \in Source |->
                    [state |-> "waiting_first_row", rows |-> 0,
                     reconnected |-> FALSE, dropped |-> 0, error |-> FALSE]]
    /\ manifest = [k \in Sink |-> [status |-> "recording",
                                   exactReplayEligible |-> FALSE]]
    /\ sessionStatus = [k \in Sink |-> "recording"]
    /\ committed = << >> /\ recorded = << >>

-----------------------------------------------------------------------------
(* Losses and the notes taken by the sinks. *)

(* A loss that does not stop the capture. *)
lostContinues(s) ==
    /\ lostBySource_' = [t \in Source |->
                            lostBySource_[t] + (IF t = s THEN 1 ELSE 0)]
    /\ UNCHANGED failed_

lost(s) ==
    /\ lostBySource_' = [t \in Source |->
                            lostBySource_[t] + (IF t = s THEN 1 ELSE 0)]
    /\ failed_' = TRUE

(* noteExternalRow_() with the row counter. *)
RowNoted(h) ==
    [h EXCEPT !.rows = h.rows + 1,
              !.state = IF h.state = "terminal" THEN "terminal" ELSE "live"]

(* accountExternalAppend_() of a failed append. *)
DropNoted(h) ==
    [h EXCEPT !.dropped = h.dropped + 1, !.state = "degraded", !.error = TRUE]

(* noteExternalChannelError(), for its channel *)
ErrorNoted(h) ==
    [h EXCEPT !.error = TRUE,
              !.state = IF h.state = "live" THEN "live" ELSE "degraded"]

(* noteExternalCaptureLoss() *)
LossNoted(h, count) ==
    [h EXCEPT !.dropped = h.dropped + count, !.state = "degraded",
              !.error = TRUE]

(* noteExternalCaptureTerminal(), for one channel *)
TerminalNoted(h) == [h EXCEPT !.state = "terminal", !.error = TRUE]

(* noteExternalChannelConnection() *)
ConnectionNoted(h, connected, reconnected) ==
    [h EXCEPT !.reconnected = h.reconnected \/ reconnected,
              !.state = IF ~connected THEN "reconnecting"
                        ELSE IF h.rows = 0 THEN "waiting_first_row" ELSE "live"]

-----------------------------------------------------------------------------
(* The market thread: one pollOnce() is PollBegin, any number of commits,  *)
(* and PollEnd.                                                            *)

(* Every durable session hears that the capture has ended by itself. *)
CaptureTerminal ==
    /\ terminal' = TRUE /\ running' = FALSE
    /\ sessionStatus' = [k \in Sink |-> "incomplete"]
    /\ health' = [s \in Source |-> TerminalNoted(health[s])]
    /\ UNCHANGED connection

PollBegin ==
    /\ pc = "poll" /\ running
    /\ IF failed_ THEN CaptureTerminal /\ UNCHANGED pc
                  ELSE pc' = "iterate"
                       /\ UNCHANGED <<ownerVars, health, sessionStatus>>
    /\ UNCHANGED <<reserved, ringVars, arenaVars, flagVars, stopStorage_,
                   workerVars, manifest, recorded, committed>>

sampleConnections(connected) ==
    /\ connection' = [s \in Source |-> IF connected[s] THEN "up" ELSE "down"]
    /\ health' = [s \in Source |->
                    IF connection'[s] = connection[s] THEN health[s]
                    ELSE ConnectionNoted(health[s], connected[s],
                             connection[s] = "up" /\ ~connected[s])]

(* core_.iterate() returned ready. *)
PollEnd(ready, connected) ==
    /\ pc = "iterate"
    /\ IF ready /\ ~failed_
       THEN /\ sampleConnections(connected)
            /\ UNCHANGED <<running, terminal, sessionStatus>>
       ELSE CaptureTerminal
    /\ pc' = "poll"
    /\ UNCHANGED <<reserved, ringVars, arenaVars, flagVars, stopStorage_,
                   workerVars, manifest, recorded, committed>>

(* A hook returns to the exchange core, its commit handed over or lost. *)
HookLoses ==
    /\ lost(committed[Current].source)
    /\ pc' = "iterate"

(* retainTrade(), retainBbo() or onDepth() is called. *)
HookCommit(commit) ==
    /\ pc = "iterate" /\ Current < MaxCommits
    /\ committed' = Append(committed, commit)
    /\ pc' = IF commit.source \in DepthSource THEN "depth" ELSE "publish"
    /\ reserved' = rowHead_
    /\ UNCHANGED <<ownerVars, ringVars, arenaVars, flagVars, stopStorage_,
                   workerVars, sinkVars>>

FrameRows == committed[Current].levels

(* The place of a row number in the arena. *)
Place(row) == row % RowCapacity

(* Where onDepth() puts the rows: a frame does not wrap in the arena. *)
ArenaBegin(from, levels) ==
    IF Place(from) + levels > RowCapacity
    THEN from + (RowCapacity - Place(from))
    ELSE from

(* Rows that the storage thread still reads are overwritten. *)
ArenaFullOffByOne(end) == end - rowTail_ > RowCapacity + 1

ArenaFull(end) == end - rowTail_ > RowCapacity

onDepthCheck ==
    /\ pc = "depth"
    /\ IF failed_ \/ FrameRows > RowCapacity
          \/ rowHead_ + RowCapacity + FrameRows > RowLimit
       THEN HookLoses
       ELSE pc' = "reserve" /\ UNCHANGED flagVars
    /\ UNCHANGED <<reserved, ownerVars, ringVars, arenaVars, stopStorage_,
                   workerVars, sinkVars, committed>>

onDepthReserve ==
    /\ pc = "reserve"
    /\ LET begin == ArenaBegin(rowHead_, FrameRows) IN
       IF ArenaFull(begin + FrameRows)
       THEN HookLoses /\ UNCHANGED reserved
       ELSE pc' = "copy" /\ reserved' = begin /\ UNCHANGED flagVars
    /\ UNCHANGED <<ownerVars, ringVars, arenaVars, stopStorage_, workerVars,
                   sinkVars, committed>>

(* The rows are copied where nobody else looks, so in one step. *)
onDepthCopy ==
    /\ pc = "copy"
    /\ rows_' = [i \in DOMAIN rows_ |->
                    IF i - Place(reserved) \in 0 .. FrameRows - 1
                    THEN Current ELSE rows_[i]]
    /\ rowHead_' = reserved + FrameRows
    /\ pc' = "publish"
    /\ UNCHANGED <<reserved, ownerVars, ringVars, rowTail_, flagVars,
                   stopStorage_, workerVars, sinkVars, committed>>

publish ==
    /\ pc = "publish"
    /\ IF failed_ THEN HookLoses ELSE pc' = "push" /\ UNCHANGED flagVars
    /\ UNCHANGED <<reserved, ownerVars, ringVars, arenaVars, stopStorage_,
                   workerVars, sinkVars, committed>>

(* The index is not masked. *)
NextSlotUnmasked(i) == i + 1

NextSlot(i) == (i + 1) % RingCapacity

RingFull == NextSlot(head_) = tail_

tryPush ==
    /\ pc = "push"
    /\ IF RingFull
       THEN HookLoses /\ UNCHANGED slots_
       ELSE /\ slots_' = [slots_ EXCEPT ![head_] =
                            [number |-> Current, first |-> reserved,
                             rowEnd |-> IF IsDepth(Current) THEN rowHead_
                                        ELSE reserved]]
            /\ pc' = "pushed" /\ UNCHANGED flagVars
    /\ UNCHANGED <<reserved, ownerVars, head_, tail_, arenaVars, stopStorage_,
                   workerVars, sinkVars, committed>>

tryPushHead ==
    /\ pc = "pushed"
    /\ head_' = NextSlot(head_)
    /\ pc' = "iterate"
    /\ UNCHANGED <<reserved, ownerVars, slots_, tail_, arenaVars, flagVars,
                   stopStorage_, workerVars, sinkVars, committed>>

-----------------------------------------------------------------------------
(* The market thread: finalize(). *)

(* requestStop() or the end of polling, and shutdown() up to the join. *)
shutdown ==
    /\ pc = "poll"
    /\ running' = FALSE
    /\ stopStorage_' = TRUE
    /\ pc' = "join"
    /\ UNCHANGED <<reserved, terminal, connection, ringVars, arenaVars,
                   flagVars, workerVars, sinkVars, committed>>

(* The counts of losses stay in the capture. *)
LossesUnreported == health

(* shutdown() reports every source's losses to its sink. *)
LossesReported ==
    [s \in Source |-> IF lostBySource_[s] = 0 THEN health[s]
                      ELSE LossNoted(health[s], lostBySource_[s])]

shutdownJoined ==
    /\ pc = "join" /\ workerPc = "exited"
    /\ health' = LossesReported
    /\ lostBySource_' = [s \in Source |-> 0]
    /\ pc' = "finalize"
    /\ UNCHANGED <<reserved, ownerVars, ringVars, arenaVars, failed_,
                   stopStorage_, workerVars, sessionStatus, manifest, recorded,
                   committed>>

ChannelsOf(k) == {s \in Source : SinkOf[s] = k}

(* Only the state of a channel counts. *)
runtimeHealthDegradedState(h) == h.state # "live"

(* Every channel is required. *)
runtimeHealthDegraded(h) ==
    h.state # "live" \/ h.reconnected \/ h.dropped # 0 \/ h.error

(* What finalizeSession() concludes when the replay of the session finds   *)
(* its rows eligible or not.                                               *)
FinalManifest(k, eligible) ==
    LET incomplete == sessionStatus[k] = "incomplete"
        degraded == \E s \in ChannelsOf(k) : runtimeHealthDegraded(health[s])
        empty == \A s \in ChannelsOf(k) : health[s].rows = 0
    IN  [status |-> IF incomplete THEN "incomplete"
                    ELSE IF empty THEN "failed_empty"
                    ELSE IF degraded THEN "complete_degraded" ELSE "complete",
         exactReplayEligible |->
             eligible /\ ~incomplete /\ ~empty /\ ~degraded]

(* The document of an open session. *)
OpenManifest(k) == [status |-> sessionStatus[k], exactReplayEligible |-> FALSE]

(* finalizeSession(), repeated once by the coordinator's destructor when a *)
(* write fails: the last document written may be the one that seeds the    *)
(* replay, or one written earlier.                                         *)
finalizeSession(k, eligible, outcome) ==
    /\ pc = "finalize" /\ sessionStatus[k] # "closed"
    /\ manifest' = [manifest EXCEPT ![k] =
                        CASE outcome = "written" -> FinalManifest(k, eligible)
                          [] outcome = "seeded" -> OpenManifest(k)
                          [] outcome = "unwritten" -> @]
    /\ sessionStatus' = [sessionStatus EXCEPT ![k] = "closed"]
    /\ pc' = IF \A j \in Sink \ {k} : sessionStatus[j] = "closed"
             THEN "done" ELSE "finalize"
    /\ UNCHANGED <<reserved, ownerVars, ringVars, arenaVars, flagVars,
                   stopStorage_, workerVars, health, recorded, committed>>

-----------------------------------------------------------------------------
(* The storage thread: drainWorker(). *)

(* refreshExternalManifest() of every sink, of which some writes succeed. *)
refreshManifests(refreshed) ==
    /\ workerPc = "poll"
    /\ manifest' = [k \in Sink |-> IF k \in refreshed THEN OpenManifest(k)
                                   ELSE manifest[k]]
    /\ UNCHANGED <<pc, reserved, ownerVars, ringVars, arenaVars, flagVars,
                   stopStorage_, workerVars, health, sessionStatus, recorded,
                   committed>>

tryPop ==
    /\ workerPc = "poll"
    /\ IF tail_ = head_ THEN workerPc' = "empty" /\ UNCHANGED event
                        ELSE workerPc' = "popped" /\ event' = slots_[tail_]
    /\ UNCHANGED <<pc, reserved, ownerVars, ringVars, arenaVars, flagVars,
                   stopStorage_, sinkVars, committed>>

tryPopTail ==
    /\ workerPc = "popped"
    /\ tail_' = NextSlot(tail_)
    /\ workerPc' = "taken"
    /\ UNCHANGED <<pc, reserved, ownerVars, slots_, head_, arenaVars, flagVars,
                   stopStorage_, event, sinkVars, committed>>

(* The stop flag is not looked at. *)
drainWorkerStopIgnored ==
    /\ workerPc = "empty"
    /\ workerPc' = "poll"
    /\ UNCHANGED <<pc, reserved, ownerVars, ringVars, arenaVars, flagVars,
                   stopStorage_, event, sinkVars, committed>>

(* The ring was empty. *)
drainWorkerStop ==
    /\ workerPc = "empty"
    /\ workerPc' = IF stopStorage_ THEN "exited" ELSE "poll"
    /\ UNCHANGED <<pc, reserved, ownerVars, ringVars, arenaVars, flagVars,
                   stopStorage_, event, sinkVars, committed>>

(* An event taken after a failure is counted as lost. *)
drainWorkerCheck ==
    /\ workerPc = "taken"
    /\ IF failed_ THEN lost(committed[event.number].source)
                       /\ workerPc' = "release"
                  ELSE workerPc' = "consume" /\ UNCHANGED flagVars
    /\ UNCHANGED <<pc, reserved, ownerVars, ringVars, arenaVars, stopStorage_,
                   event, sinkVars, committed>>

(* consume() up to the sink's answer to the append. *)
consume(ok) ==
    LET commit == committed[event.number]
        note(h) == health' = [health EXCEPT ![commit.source] = h]
    IN  /\ workerPc = "consume"
        /\ \/ /\ commit.source = Foreign
              /\ failed_' = TRUE /\ workerPc' = "release"
              /\ UNCHANGED <<lostBySource_, health, recorded>>
           \/ /\ commit.source # Foreign /\ ~commit.representable
              /\ lost(commit.source) /\ workerPc' = "note"
              /\ UNCHANGED <<health, recorded>>
           \/ /\ commit.source # Foreign /\ commit.representable /\ ok
              /\ note(RowNoted(health[commit.source]))
              /\ recorded' = Append(recorded, event.number)
              /\ workerPc' = "release"
              /\ UNCHANGED flagVars
           \/ /\ commit.source # Foreign /\ commit.representable /\ ~ok
              /\ note(DropNoted(health[commit.source]))
              /\ workerPc' = "account"
              /\ UNCHANGED <<flagVars, recorded>>
        /\ UNCHANGED <<pc, reserved, ownerVars, ringVars, arenaVars,
                       stopStorage_, event, sessionStatus, manifest, committed>>

(* account() of a failed append. *)
account ==
    /\ workerPc = "account"
    /\ failed_' = TRUE
    /\ workerPc' = "note"
    /\ UNCHANGED <<pc, reserved, ownerVars, ringVars, arenaVars, lostBySource_,
                   stopStorage_, event, sinkVars, committed>>

(* noteExternalChannelError(), the end of account() and of consume()'s     *)
(* refusals.                                                               *)
noteExternalChannelError ==
    /\ workerPc = "note"
    /\ health' = [health EXCEPT ![committed[event.number].source] =
                        ErrorNoted(@)]
    /\ workerPc' = "release"
    /\ UNCHANGED <<pc, reserved, ownerVars, ringVars, arenaVars, flagVars,
                   stopStorage_, event, sessionStatus, manifest, recorded,
                   committed>>

drainWorkerRelease ==
    /\ workerPc = "release"
    /\ rowTail_' = IF IsDepth(event.number) THEN event.rowEnd ELSE rowTail_
    /\ workerPc' = "poll"
    /\ UNCHANGED <<pc, reserved, ownerVars, ringVars, rows_, rowHead_,
                   flagVars, stopStorage_, event, sinkVars, committed>>

-----------------------------------------------------------------------------
Hook ==
    \/ \E commit \in Commit : HookCommit(commit)
    \/ onDepthCheck \/ onDepthReserve \/ onDepthCopy
    \/ publish \/ tryPush \/ tryPushHead

Poll ==
    \/ PollBegin
    \/ \E ready \in BOOLEAN, connected \in [Source -> BOOLEAN] :
          PollEnd(ready, connected)
    \/ Hook

Finalize ==
    \/ shutdown \/ shutdownJoined
    \/ \E k \in Sink, eligible \in BOOLEAN,
          outcome \in {"written", "seeded", "unwritten"} :
          finalizeSession(k, eligible, outcome)

Drain ==
    \/ tryPop \/ tryPopTail \/ drainWorkerStop \/ drainWorkerCheck
    \/ \E ok \in BOOLEAN : consume(ok)
    \/ account \/ noteExternalChannelError \/ drainWorkerRelease

Next ==
    \/ Poll \/ Finalize \/ Drain
    \/ \E refreshed \in SUBSET Sink : refreshManifests(refreshed)

Spec == Init /\ [][Next]_vars

-----------------------------------------------------------------------------
(* Properties. *)

(* Every variable holds a value of its C++ type, cursors stay inside the   *)
(* ring, and rows are numbered within the limit that onDepth() checks.     *)
TypeOK ==
    /\ pc \in {"poll", "iterate", "depth", "reserve", "copy", "publish",
               "push", "pushed", "join", "finalize", "done"}
    /\ reserved \in 0 .. RowLimit
    /\ running \in BOOLEAN /\ terminal \in BOOLEAN
    /\ connection \in [Source -> {"unseen", "up", "down"}]
    /\ slots_ \in [0 .. RingCapacity - 1 -> Event]
    /\ head_ \in 0 .. RingCapacity - 1 /\ tail_ \in 0 .. RingCapacity - 1
    /\ rows_ \in [0 .. RowCapacity - 1 -> 0 .. MaxCommits]
    /\ rowHead_ \in 0 .. RowLimit /\ rowTail_ \in 0 .. rowHead_
    /\ failed_ \in BOOLEAN /\ lostBySource_ \in [Source -> Nat]
    /\ stopStorage_ \in BOOLEAN
    /\ workerPc \in {"poll", "empty", "popped", "taken", "consume", "account",
                     "note", "release", "exited"}
    /\ event \in Event
    /\ health \in [Source -> Health]
    /\ sessionStatus \in [Sink -> {"recording", "incomplete", "closed"}]
    /\ manifest \in [Sink -> Manifest]
    /\ committed \in Seq(Commit) /\ recorded \in Seq(1 .. MaxCommits)

(* How many slots after the tail a slot is, and the slots that hold events. *)
Position(i) == IF i >= tail_ THEN i - tail_ ELSE i + RingCapacity - tail_
Queued == {i \in 0 .. RingCapacity - 1 : Position(i) < Position(head_)}

(* The events handed over and not yet given back by the storage thread. *)
Outstanding ==
    {slots_[i] : i \in Queued}
      \cup (IF workerPc \in {"taken", "consume", "account", "note", "release"}
               THEN {event} ELSE {})

(* While an event of a depth frame is on its way to the sink, the rows it  *)
(* points to are the rows of that frame: onDepth() never writes over them, *)
(* wherever the arena wraps and however far the storage thread is behind.  *)
RowsIntact ==
    \A e \in Outstanding :
        IsDepth(e.number) =>
            \A i \in 0 .. committed[e.number].levels - 1 :
                rows_[Place(e.first) + i] = e.number

(* What the sinks hold is a prefix of what the exchange core committed:    *)
(* after a lost, refused or unrepresentable event nothing more is          *)
(* recorded, whichever thread noticed it and whatever was still queued.    *)
RecordedIsPrefix == \A i \in 1 .. Len(recorded) : recorded[i] = i

(* onDepth() finds no room for a frame within the level envelope only      *)
(* while the storage thread still holds rows of an earlier frame: the      *)
(* arena has twice the envelope so that skipping its tail cannot cost a    *)
(* frame that an idle arena could take.                                    *)
ArenaFullOnlyWhenBusy ==
    (/\ pc = "reserve" /\ FrameRows <= MaximumDepthLevels
     /\ ArenaFull(ArenaBegin(rowHead_, FrameRows) + FrameRows))
    => \E e \in Outstanding : IsDepth(e.number)

CommitsOf(s) == {n \in 1 .. Current : committed[n].source = s}
RecordedOf(s) == {i \in 1 .. Len(recorded) :
                     committed[recorded[i]].source = s}
StrandedOf(s) == {i \in Queued : committed[slots_[i].number].source = s}

(* Once shutdown() has reported, every commit of a source is in its sink's *)
(* file, in its sink's count of dropped events, or was left in the ring:   *)
(* no loss is counted twice, forgotten between the threads, or reported to *)
(* another source.                                                         *)
EveryCommitAccounted ==
    pc \in {"finalize", "done"} =>
        \A s \in Source :
            Cardinality(CommitsOf(s)) = Cardinality(RecordedOf(s))
                + health[s].dropped + Cardinality(StrandedOf(s))

(* A manifest that offers exact replay belongs to a capture that ended on  *)
(* request and whose sink holds every commit that left the ring.           *)
ExactMeansRecorded ==
    \A k \in Sink :
        manifest[k].exactReplayEligible =>
            /\ ~terminal
            /\ \A s \in ChannelsOf(k) :
                   Cardinality(CommitsOf(s)) =
                       Cardinality(RecordedOf(s)) + Cardinality(StrandedOf(s))

(* A sink's manifest that offers exact replay has every commit of the      *)
(* sink's sources: nothing is dropped without a trace.                     *)
NeverSilentlyDropped ==
    \A k \in Sink :
        manifest[k].exactReplayEligible =>
            \A s \in ChannelsOf(k) :
                Cardinality(CommitsOf(s)) = Cardinality(RecordedOf(s))

-----------------------------------------------------------------------------
(* Liveness: both threads run; nothing obliges the core to commit or the   *)
(* operator to stop.                                                       *)
FairSpec ==
    /\ Spec
    /\ WF_vars(Drain)
    /\ WF_vars(Finalize /\ pc # "poll")

(* finalize() ends, however much was queued when it asked the storage      *)
(* thread to stop.                                                         *)
FinalizeReturns == pc = "join" ~> pc = "done"
============================================================================
