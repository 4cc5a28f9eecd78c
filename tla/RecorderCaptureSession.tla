---- MODULE RecorderCaptureSession ----
(***************************************************************************)
(* One capture session of the Recorder (RecorderCaptureSession.cpp): the   *)
(* worker thread launches the Parser, connects, starts the writers, runs   *)
(* the capture loop and ends the capture, while callers ask for a stop or  *)
(* for another selection from their own threads.                           *)
(*                                                                         *)
(* The Parser is outside the repository: it publishes rows into the ring   *)
(* under a lease, answers commands (or never does), closes admission and   *)
(* may die.  The queue, the writer and the arena have modules of their     *)
(* own; here they are the places a row can be in.                          *)
(***************************************************************************)
EXTENDS Integers, Sequences, SequencesExt, FiniteSets

CONSTANTS
    Feeds,          \* the feeds a selection may name, one per source
    Selections,     \* the selections callers ask for, as the Parser configuration renders
                    \* them (CapturePage has the channels the rendering leaves out)
    MaxRevisions,   \* bound: accepted selection changes
    MaxRows,        \* bound: rows the Parser publishes
    RingRows,       \* rows the arena holds
    MaxSessions     \* bound: calls of start that are accepted

VARIABLES
    worker,    \* where runSession is, and its local variables
    shared,    \* the fields under state.mutex, and stopRequested
    parser,    \* the owned process, its ring and its subscriptions
    corpus,    \* rows in the writer queue and rows written
    caller     \* where the thread in requestStop is

vars == <<worker, shared, parser, corpus, caller>>

Launching == {"resolve", "plan", "spawn", "connect", "writers"}

Init ==
    /\ worker = [pc |-> "none", helper |-> FALSE, changes |-> <<>>, position |-> 0, handled |-> 0,
                 working |-> 0, target |-> {}, control |-> FALSE, seen |-> 0, failed |-> FALSE,
                 frozen |-> FALSE, clear |-> FALSE, back |-> "left",
                 reason |-> "duration"]
    /\ shared = [stop |-> FALSE, active |-> FALSE, complete |-> FALSE, retained |-> FALSE,
                 requested |-> 0, selection |-> {}, applied |-> 0, pending |-> FALSE,
                 status |-> "ok", sessions |-> 0]
    /\ parser = [alive |-> FALSE, attached |-> FALSE, lease |-> "none", members |-> {}, ring |-> 0,
                 produced |-> 0, lost |-> 0, late |-> 0, command |-> "none"]
    /\ corpus = [queue |-> 0, written |-> 0, open |-> FALSE]
    /\ caller = "idle"

(***************************************************************************)
(* The Parser (external).                                                  *)
(***************************************************************************)
\* A row is published in two steps: a lease taken while admission is open, and the commit.
\* A lease taken between the two reads of a freeze is told apart, as history.
Lease ==
    /\ parser.alive /\ parser.attached /\ parser.lease = "none"
    /\ parser.members # {} /\ parser.produced < MaxRows
    /\ parser' = [parser EXCEPT !.lease = IF worker.pc = "epoch" THEN "between" ELSE "held"]
    /\ UNCHANGED <<worker, shared, corpus, caller>>

\* "late" counts the rows that such a lease commits after the freeze.
Commit ==
    /\ parser.alive /\ parser.lease # "none"
    /\ parser' = [parser EXCEPT !.lease = "none", !.produced = @ + 1,
                   !.ring = IF @ < RingRows THEN @ + 1 ELSE @,
                   !.lost = IF parser.ring < RingRows THEN @ ELSE @ + 1,
                   !.late = IF worker.frozen /\ parser.lease = "between" THEN @ + 1 ELSE @]
    /\ UNCHANGED <<worker, shared, corpus, caller>>

\* Admission is closed for a Stop, or by a Parser that leaves.
CloseAdmission ==
    /\ parser.alive /\ parser.attached
    /\ parser' = [parser EXCEPT !.attached = FALSE]
    /\ UNCHANGED <<worker, shared, corpus, caller>>

\* A Stop is acknowledged once admission is closed and no lease is out.
Acknowledge ==
    /\ parser.alive /\ parser.command = "stop" /\ ~parser.attached /\ parser.lease = "none"
    /\ parser' = [parser EXCEPT !.command = "stopped"]
    /\ UNCHANGED <<worker, shared, corpus, caller>>

\* A command is applied, or refused without effect; the reply waits in the socket.
Answer ==
    /\ parser.alive /\ parser.command = "sent"
    /\ LET change == worker.changes[worker.position + 1]
       IN \/ parser' = [parser EXCEPT !.command = "applied",
                          !.members = IF change.add THEN @ \cup {change.feed}
                                      ELSE @ \ {change.feed}]
          \/ parser' = [parser EXCEPT !.command = "refused"]
    /\ UNCHANGED <<worker, shared, corpus, caller>>

\* A Parser that is killed leaves its arena as it is, a lease included.
Die ==
    /\ parser.alive
    /\ parser' = [parser EXCEPT !.alive = FALSE]
    /\ UNCHANGED <<worker, shared, corpus, caller>>

(***************************************************************************)
(* Callers.                                                                *)
(***************************************************************************)
\* start: one session at a time, and none while a Parser is retained.
Start(s) ==
    /\ caller = "idle" /\ shared.sessions < MaxSessions
    /\ ~shared.active /\ worker.pc \in {"none", "done"} /\ ~parser.alive
    /\ worker' = [worker EXCEPT !.pc = "resolve", !.changes = <<>>, !.position = 0, !.handled = 0,
                    !.working = 0, !.control = FALSE, !.seen = 0, !.failed = FALSE, !.frozen = FALSE,
                    !.clear = FALSE, !.back = "left", !.reason = "duration"]
    /\ shared' = [stop |-> FALSE, active |-> TRUE, complete |-> FALSE, retained |-> FALSE,
                  requested |-> 0, selection |-> s, applied |-> 0, pending |-> FALSE,
                  status |-> "ok", sessions |-> shared.sessions + 1]
    /\ parser' = [parser EXCEPT !.attached = FALSE, !.lease = "none", !.members = s, !.ring = 0,
                                !.produced = 0, !.lost = 0, !.late = 0, !.command = "none"]
    /\ corpus' = [queue |-> 0, written |-> 0, open |-> FALSE]
    /\ UNCHANGED caller

\* updateSelection: a new rendering becomes the next revision of the mailbox.
UpdateSelection(s) ==
    /\ shared.active /\ ~shared.stop /\ s # shared.selection
    /\ shared.requested < MaxRevisions
    /\ shared' = [shared EXCEPT !.selection = s, !.requested = @ + 1, !.pending = TRUE]
    /\ UNCHANGED <<worker, parser, corpus, caller>>

\* requestStop: the flag first, then the decision on active under the mutex.
RequestStop ==
    /\ caller = "idle" /\ shared.sessions > 0
    /\ shared' = [shared EXCEPT !.stop = TRUE]
    /\ caller' = "flagged"
    /\ UNCHANGED <<worker, parser, corpus>>

\* An inactive session is joined and its Parser stopped by the caller.
StopDecision ==
    /\ caller = "flagged"
    /\ caller' = IF shared.active THEN "idle" ELSE "joining"
    /\ UNCHANGED <<worker, shared, parser, corpus>>

StopOwnedProducer ==
    /\ caller = "joining" /\ worker.pc = "done"
    /\ parser' = [parser EXCEPT !.alive = FALSE, !.attached = FALSE]
    /\ shared' = [shared EXCEPT !.retained = FALSE]
    /\ caller' = "idle"
    /\ UNCHANGED <<worker, corpus>>

(***************************************************************************)
(* The worker: launch.                                                     *)
(***************************************************************************)
Goto(pc) == worker' = [worker EXCEPT !.pc = pc]

\* Any failed step of the launch goes to the final block.
LaunchFails ==
    /\ worker.pc \in Launching /\ ~worker.helper
    /\ Goto("final")
    /\ shared' = [shared EXCEPT !.status = "error"]
    /\ UNCHANGED <<parser, corpus, caller>>

\* The build resolver and the planner run as child processes.
RunChild ==
    /\ worker.pc \in {"resolve", "plan"} /\ ~worker.helper
    /\ worker' = [worker EXCEPT !.helper = TRUE]
    /\ UNCHANGED <<shared, parser, corpus, caller>>

ChildExits ==
    /\ worker.helper
    /\ worker' = [worker EXCEPT !.helper = FALSE,
                    !.pc = IF @ = "resolve" THEN "plan" ELSE "spawn"]
    /\ UNCHANGED <<shared, parser, corpus, caller>>

\* A stop, a deadline or a bad exit stops the child and fails the launch.
ChildStopped ==
    /\ worker.helper
    /\ worker' = [worker EXCEPT !.helper = FALSE, !.pc = "final"]
    /\ shared' = [shared EXCEPT !.status = "error"]
    /\ UNCHANGED <<parser, corpus, caller>>

Spawn ==
    /\ worker.pc = "spawn"
    /\ Goto("connect")
    /\ parser' = [parser EXCEPT !.alive = TRUE]
    /\ UNCHANGED <<shared, corpus, caller>>

Connect ==
    /\ worker.pc = "connect" /\ parser.alive /\ ~shared.stop
    /\ Goto("writers")
    /\ parser' = [parser EXCEPT !.attached = TRUE]
    /\ UNCHANGED <<shared, corpus, caller>>

StartWriters ==
    /\ worker.pc = "writers"
    /\ Goto("loop")
    /\ corpus' = [corpus EXCEPT !.open = TRUE]
    /\ UNCHANGED <<shared, parser, caller>>

\* A writer that does not start detaches the Parser before the launch fails.
StartWritersFails ==
    /\ worker.pc = "writers"
    /\ Goto("final")
    /\ parser' = [parser EXCEPT !.attached = FALSE]
    /\ shared' = [shared EXCEPT !.status = "error"]
    /\ UNCHANGED <<corpus, caller>>

(***************************************************************************)
(* The worker: the capture loop.                                           *)
(***************************************************************************)
Disconnected == ~parser.alive \/ ~parser.attached

\* The loop ends on a stop request or at the deadline.
LeaveLoop ==
    /\ worker.pc = "loop"
    /\ worker' = [worker EXCEPT !.pc = "left"]
    /\ UNCHANGED <<shared, parser, corpus, caller>>

\* A lost Parser ends it too, after its arena was frozen.
LoopDisconnected ==
    /\ worker.pc = "loop" /\ ~shared.stop /\ Disconnected
    /\ worker' = [worker EXCEPT !.pc = "freeze", !.back = "left", !.reason = "disconnected"]
    /\ UNCHANGED <<shared, parser, corpus, caller>>

FreezeScanBlind ==
    /\ worker.pc = "freeze"
    /\ worker' = [worker EXCEPT !.pc = "epoch", !.clear = TRUE]
    /\ UNCHANGED <<shared, parser, corpus, caller>>

\* freezeDisconnected: the leases are read, then the epoch of the consumer, and both must be
\* gone; otherwise it looks again, until its deadline.
FreezeScan ==
    /\ worker.pc = "freeze"
    /\ worker' = [worker EXCEPT !.pc = "epoch", !.clear = parser.lease = "none"]
    /\ UNCHANGED <<shared, parser, corpus, caller>>

Quiescent == worker.clear /\ ~parser.attached

FreezeEpoch ==
    /\ worker.pc = "epoch"
    /\ worker' = IF Quiescent THEN [worker EXCEPT !.pc = worker.back, !.frozen = TRUE]
                 ELSE [worker EXCEPT !.pc = "freeze"]
    /\ UNCHANGED <<shared, parser, corpus, caller>>

FreezeTimeout ==
    /\ worker.pc = "epoch" /\ ~Quiescent
    /\ worker' = [worker EXCEPT !.pc = worker.back, !.failed = TRUE]
    /\ UNCHANGED <<shared, parser, corpus, caller>>

LoopContinues ==
    /\ worker.pc = "loop" /\ ~shared.stop /\ ~Disconnected
    /\ Goto(IF worker.control THEN "poll" ELSE "adopt")
    /\ UNCHANGED <<shared, parser, corpus, caller>>

\* A failed change settles its revision; the error replaces the status even when
\* a newer revision is already requested.
SelectionError == shared' = [shared EXCEPT !.pending = FALSE, !.status = "refused"]

DropPlan == [worker EXCEPT !.changes = <<>>, !.position = 0, !.handled = worker.working]

\* pollSubscriptionChange takes the reply that has arrived.
PollApplied ==
    /\ worker.pc = "poll" /\ parser.command = "applied"
    /\ worker' = [worker EXCEPT !.pc = "adopt", !.control = FALSE, !.position = @ + 1]
    /\ parser' = [parser EXCEPT !.command = "none"]
    /\ UNCHANGED <<shared, corpus, caller>>

PollRefused ==
    /\ worker.pc = "poll" /\ parser.command = "refused"
    /\ worker' = [DropPlan EXCEPT !.pc = "adopt", !.control = FALSE]
    /\ parser' = [parser EXCEPT !.command = "none"]
    /\ SelectionError
    /\ UNCHANGED <<corpus, caller>>

PollNothing ==
    /\ worker.pc = "poll" /\ parser.command = "sent"
    /\ Goto("drain")
    /\ UNCHANGED <<shared, parser, corpus, caller>>

\* An unanswered command fails the capture; the command stays pending.
PollTimeout ==
    /\ worker.pc = "poll" /\ parser.command = "sent"
    /\ worker' = [worker EXCEPT !.pc = "left", !.failed = TRUE, !.reason = "error"]
    /\ UNCHANGED <<shared, parser, corpus, caller>>

\* The newest request replaces the plan being worked on.
AdoptRevision ==
    /\ worker.pc = "adopt"
    /\ LET fresh == shared.requested > worker.handled /\ shared.requested # worker.working
       IN worker' = [worker EXCEPT !.pc = "change", !.seen = shared.requested,
                       !.target = IF fresh THEN shared.selection ELSE @,
                       !.working = IF fresh THEN shared.requested ELSE @,
                       !.changes = IF fresh THEN <<>> ELSE @,
                       !.position = IF fresh THEN 0 ELSE @]
    /\ UNCHANGED <<shared, parser, corpus, caller>>

\* planRecorderSubscriptionChanges: unwanted feeds are removed before missing
\* ones are added, from the Parser's current directory.
PlanChanges(wanted, members) ==
    LET Changes(feeds, add) == [i \in 1 .. Cardinality(feeds) |->
                                   [feed |-> SetToSeq(feeds)[i], add |-> add]]
    IN Changes(members \ wanted, FALSE) \o Changes(wanted \ members, TRUE)

\* No plan is open and there is a revision to handle: the plan is made here.
Planned ==
    IF worker.seen > worker.handled /\ worker.changes = <<>>
    THEN PlanChanges(worker.target, parser.members)
    ELSE worker.changes

SendChange ==
    /\ worker.pc = "change" /\ worker.position < Len(Planned)
    /\ worker' = [worker EXCEPT !.pc = "drain", !.changes = Planned, !.control = TRUE]
    /\ parser' = [parser EXCEPT !.command = "sent"]
    /\ UNCHANGED <<shared, corpus, caller>>

\* The plan, or the command, is refused on this side.
ChangeFails ==
    /\ worker.pc = "change"
    /\ worker.position < Len(Planned) \/ (worker.seen > worker.handled /\ worker.changes = <<>>)
    /\ worker' = [DropPlan EXCEPT !.pc = "drain"]
    /\ SelectionError
    /\ UNCHANGED <<parser, corpus, caller>>

\* Every change of the revision was applied, or none was needed.
SelectionApplied ==
    /\ worker.pc = "change" /\ worker.position = Len(Planned)
    /\ Planned # <<>> \/ worker.seen > worker.handled
    /\ worker' = [DropPlan EXCEPT !.pc = "drain"]
    /\ shared' = [shared EXCEPT !.applied = worker.working, !.status = "ok",
                                !.pending = shared.requested > worker.working]
    /\ UNCHANGED <<parser, corpus, caller>>

NothingToChange ==
    /\ worker.pc = "change" /\ Planned = <<>> /\ worker.seen = worker.handled
    /\ Goto("drain")
    /\ UNCHANGED <<shared, parser, corpus, caller>>

\* drainTo moves what the ring holds into the queue.
Drain ==
    /\ worker.pc = "drain"
    /\ Goto("loop")
    /\ corpus' = [corpus EXCEPT !.queue = @ + parser.ring]
    /\ parser' = [parser EXCEPT !.ring = 0]
    /\ UNCHANGED <<shared, caller>>

\* A full queue or quota ends the capture with the row still in the ring.
DrainQuota ==
    /\ worker.pc = "drain" /\ parser.ring > 0
    /\ worker' = [worker EXCEPT !.pc = "left", !.reason = "quota"]
    /\ UNCHANGED <<shared, parser, corpus, caller>>

DrainFails ==
    /\ worker.pc = "drain"
    /\ worker' = [worker EXCEPT !.pc = "left", !.failed = TRUE, !.reason = "error"]
    /\ UNCHANGED <<shared, parser, corpus, caller>>

\* The writer thread of BufferedCorpusWriter.
WriterThread ==
    /\ corpus.open /\ corpus.queue > 0 /\ worker.pc \notin {"final", "done"}
    /\ corpus' = [corpus EXCEPT !.queue = @ - 1, !.written = @ + 1]
    /\ UNCHANGED <<worker, shared, parser, caller>>

(***************************************************************************)
(* The worker: the end of the capture.                                     *)
(***************************************************************************)
\* A stop request that is visible now is the reason that is recorded.
AfterLoop ==
    /\ worker.pc = "left"
    /\ worker' = [worker EXCEPT !.pc = IF worker.control THEN "wait" ELSE "stop",
                    !.reason = IF shared.stop /\ @ # "disconnected" THEN "requested" ELSE @]
    /\ UNCHANGED <<shared, parser, corpus, caller>>

\* A pending command is waited for while rows are still drained.
WaitReply ==
    /\ worker.pc = "wait" /\ parser.command \in {"applied", "refused"}
    /\ worker' = [worker EXCEPT !.pc = "stop", !.control = FALSE]
    /\ parser' = [parser EXCEPT !.command = "none"]
    /\ shared' = IF parser.command = "refused"
                 THEN [shared EXCEPT !.pending = FALSE, !.status = "refused"] ELSE shared
    /\ UNCHANGED <<corpus, caller>>

WaitDrain ==
    /\ worker.pc = "wait" /\ parser.command = "sent" /\ parser.ring > 0
    /\ worker.reason # "quota"
    /\ corpus' = [corpus EXCEPT !.queue = @ + parser.ring]
    /\ parser' = [parser EXCEPT !.ring = 0]
    /\ UNCHANGED <<worker, shared, caller>>

WaitTimeoutNever == FALSE /\ UNCHANGED vars

\* No reply in time, or a failed drain: the outcome stays unknown.
WaitTimeout ==
    /\ worker.pc = "wait" /\ parser.command = "sent"
    /\ worker' = [worker EXCEPT !.pc = "stop", !.failed = TRUE]
    /\ UNCHANGED <<shared, parser, corpus, caller>>

\* Nothing to stop when the loop froze the arena already.
StopSkipped ==
    /\ worker.pc = "stop" /\ worker.frozen
    /\ Goto("finish")
    /\ UNCHANGED <<shared, parser, corpus, caller>>

\* client.stop that did not succeed: a lost Parser is frozen, any other fails the capture.
NotStopped ==
    /\ worker' = IF Disconnected THEN [worker EXCEPT !.pc = "freeze", !.back = "finish"]
                 ELSE [worker EXCEPT !.pc = "finish", !.failed = TRUE]
    /\ UNCHANGED <<shared, parser, corpus, caller>>

\* client.stop: refused without a connection or with a command pending.
StopRefused ==
    /\ worker.pc = "stop" /\ ~worker.frozen /\ (worker.control \/ Disconnected)
    /\ NotStopped

StopSend ==
    /\ worker.pc = "stop" /\ ~worker.frozen /\ ~worker.control /\ ~Disconnected
    /\ Goto("stopping")
    /\ parser' = [parser EXCEPT !.command = "stop"]
    /\ UNCHANGED <<shared, corpus, caller>>

StopAcknowledged ==
    /\ worker.pc = "stopping" /\ parser.command = "stopped"
    /\ worker' = [worker EXCEPT !.pc = "finish", !.frozen = TRUE]
    /\ UNCHANGED <<shared, parser, corpus, caller>>

\* The Stop could not be sent, or no valid acknowledgement came in time.
StopFails == worker.pc = "stopping" /\ NotStopped

\* The queue is finished; what it still holds and then what the ring holds goes to the
\* writer.  Each of these calls may fail.
Finish ==
    /\ worker.pc = "finish"
    /\ \E kept \in BOOLEAN :
        LET good == ~worker.failed /\ kept
        IN /\ corpus' = IF good THEN [corpus EXCEPT !.queue = 0, !.written = @ + corpus.queue + parser.ring]
                        ELSE corpus
           /\ parser' = IF good THEN [parser EXCEPT !.ring = 0] ELSE parser
           /\ worker' = [worker EXCEPT !.pc = "losses", !.failed = ~good]
    /\ UNCHANGED <<shared, caller>>

\* The losses are appended and the corpus is finalized, either of which may fail; a loss
\* makes it incomplete.
Conclude ==
    /\ worker.pc = "losses"
    /\ \E ok \in {FALSE, ~worker.failed /\ parser.lost = 0} :
        /\ worker' = [worker EXCEPT !.pc = "final", !.failed = ~ok]
        /\ shared' = [shared EXCEPT !.complete = ok, !.status = IF ok THEN "ok" ELSE "error"]
    /\ UNCHANGED <<parser, corpus, caller>>

\* One critical section: the session turns inactive and, by the stop flag as it
\* is now, the Parser is stopped or retained.
FinalBlock ==
    /\ worker.pc = "final"
    /\ LET explicit == shared.stop
       IN /\ parser' = [parser EXCEPT !.alive = @ /\ ~explicit, !.attached = FALSE]
          /\ shared' = [shared EXCEPT !.active = FALSE, !.retained = ~explicit /\ parser.alive]
    /\ Goto("done")
    /\ UNCHANGED <<corpus, caller>>

Launch == LaunchFails \/ RunChild \/ ChildExits \/ ChildStopped \/ Spawn \/ Connect
          \/ StartWriters \/ StartWritersFails

Capture ==
    \/ LeaveLoop \/ LoopDisconnected \/ LoopContinues
    \/ FreezeScan \/ FreezeEpoch \/ FreezeTimeout
    \/ PollApplied \/ PollRefused \/ PollNothing \/ PollTimeout
    \/ AdoptRevision \/ SendChange \/ ChangeFails \/ SelectionApplied \/ NothingToChange
    \/ Drain \/ DrainQuota \/ DrainFails

Ending ==
    \/ AfterLoop \/ WaitReply \/ WaitDrain \/ WaitTimeout
    \/ StopSkipped \/ StopRefused \/ StopSend \/ StopAcknowledged \/ StopFails
    \/ Finish \/ Conclude \/ FinalBlock

Worker == Launch \/ Capture \/ Ending

Callers ==
    \/ \E s \in Selections : Start(s) \/ UpdateSelection(s)
    \/ RequestStop \/ StopDecision \/ StopOwnedProducer

Producer == Lease \/ Commit \/ Answer \/ CloseAdmission \/ Acknowledge \/ Die

Next == Worker \/ WriterThread \/ Callers \/ Producer

Spec == Init /\ [][Next]_vars

\* Every thread that can step does, and the deadline of a command or a freeze comes,
\* however often it was polled before.
Fairness ==
    /\ WF_vars(Worker) /\ WF_vars(StopDecision \/ StopOwnedProducer)
    /\ SF_vars(PollTimeout) /\ SF_vars(WaitTimeout) /\ SF_vars(FreezeTimeout)

FairSpec == Spec /\ Fairness

(***************************************************************************)
(* Properties.                                                             *)
(***************************************************************************)

\* A corpus that runSession reports complete holds every row the Parser published for it
\* and none was lost, whatever was in the ring or the queue when the capture ended.  Only
\* after the freeze of a lost Parser it may miss rows, and only those whose lease was taken
\* between the two reads of the freeze.
CompleteMeansAll ==
    shared.complete => /\ corpus.queue = 0 /\ worker.frozen
                       /\ parser.produced - corpus.written <= parser.late

\* "a late explicit request either stops here or joins and stops afterwards":
\* once requestStop has returned and the worker is done, no Parser runs.
StopLeavesNoParser ==
    caller = "idle" /\ shared.stop /\ worker.pc = "done" => ~parser.alive

\* When the applied revision is the last requested one, the Parser's feeds are
\* exactly the requested selection, however requests and replies interleaved.
AppliedMeansSubscribed ==
    shared.active /\ shared.applied = shared.requested => parser.members = shared.selection

\* A requested stop ends the session, whatever the launch, the loop or a pending
\* command is doing.
StopAsked == shared.stop
Over == worker.pc \in {"none", "done"}
StopEnds == StopAsked ~> Over

\* A requested selection is applied, refused, replaced by a newer one, or the
\* session ends.
Requested(r) == shared.requested = r
Settled(r) == worker.handled >= r \/ shared.requested # r \/ worker.pc = "done"
RevisionSettles == \A r \in 1 .. MaxRevisions : Requested(r) ~> Settled(r)
====
