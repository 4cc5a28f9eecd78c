------------------------ MODULE BufferedCorpusWriter ------------------------
(***************************************************************************)
(* The bounded single-producer queue between capture ingestion and the     *)
(* corpus writer.  Three threads meet here: the session thread enqueues    *)
(* and later calls finish() and drainFrozen(); the reference thread        *)
(* deposits one payload in a mutex-protected slot; the worker thread runs  *)
(* the loop of run() and is the only one that touches the corpus writer    *)
(* until finish() has joined it.                                           *)
(*                                                                         *)
(* The corpus writer is represented by the log of the calls it answered    *)
(* Ok; any call may also answer OutOfRange (a byte quota) or Error (every  *)
(* other status).                                                          *)
(***************************************************************************)
EXTENDS Naturals, Sequences

CONSTANTS
    Payload,        \* the bytes copied into an Item
    Reference,      \* reference payloads
    NoReference,    \* an empty reference payload
    Capacity,       \* capacity_, 1 .. 65536
    SequenceLimit   \* the last cursor value; UINT64_MAX in the code

ASSUME CapacityAssumption == Capacity \in Nat \ {0}
ASSUME SequenceLimitAssumption == SequenceLimit \in Nat
ASSUME PayloadAssumption == Payload # {}

VARIABLES
    records_, written_, read_, stop_, status_,   \* the queue
    referencePending_, referencePayload_,        \* the reference slot
    workerPc, read, stop, dirty,          \* run() and its locals
    callerPc, call, result,                      \* the session thread
    accepted,       \* ghost: the calls answered Ok, in order
    applied,        \* the calls the corpus writer took, in order
    reference,      \* the corpus writer's current reference payload
    durable,        \* entries covered by the last durable cut
    durableReference

queueVars == <<records_, written_, read_, stop_, status_>>
slotVars == <<referencePending_, referencePayload_>>
workerVars == <<workerPc, read, stop, dirty>>
callerVars == <<callerPc, call, result, accepted>>
corpusVars == <<applied, reference, durable, durableReference>>
vars == <<queueVars, slotVars, workerVars, callerVars, corpusVars>>

Status == {"Ok", "OutOfRange", "Error"}
Reply == Status \cup {"InvalidArgument", "Unknown"}
Op == {"append", "registerSources", "updateProgress", "appendGap"}
Entry == [op : Op, payload : Payload]
Item == [kind : 0 .. 3, bytes : Payload]

(* Two methods pass each other's kind byte. *)
KindOfSwapped(op) ==
    CASE op = "append" -> 0
      [] op = "registerSources" -> 1
      [] op = "updateProgress" -> 3
      [] op = "appendGap" -> 2

(* The kind byte each public method passes to enqueue(). *)
KindOf(op) ==
    CASE op = "append" -> 0
      [] op = "registerSources" -> 1
      [] op = "updateProgress" -> 2
      [] op = "appendGap" -> 3

(* The corpus writer call that consume() makes for an Item. *)
CallFor(item) ==
    [op |-> CASE item.kind = 1 -> "registerSources"
              [] item.kind = 2 -> "updateProgress"
              [] item.kind = 3 -> "appendGap"
              [] OTHER -> "append",
     payload |-> item.bytes]

(***************************************************************************)
(* start(): cursors, stop flag and status are reset, the items keep        *)
(* whatever their default construction left, and the worker begins.        *)
(***************************************************************************)
Init ==
    /\ records_ \in [0 .. Capacity - 1 -> [kind : {0}, bytes : Payload]]
    /\ written_ = 0 /\ read_ = 0 /\ stop_ = FALSE /\ status_ = "Ok"
    /\ referencePending_ = FALSE /\ referencePayload_ = NoReference
    /\ workerPc = "load" /\ read = 0
    /\ stop = FALSE /\ dirty = TRUE
    /\ callerPc = "idle" /\ result = "Ok"
    /\ call = [op |-> "append", payload |-> CHOOSE p \in Payload : TRUE]
    /\ accepted = << >> /\ applied = << >>
    /\ reference = NoReference
    /\ durable = 0 /\ durableReference = NoReference

-----------------------------------------------------------------------------
(* The session thread: enqueue(). *)

(* One slot too many: a full queue takes one more item. *)
QueueFullOffByOne == written_ > read_ + Capacity

QueueFull == written_ >= read_ + Capacity

(* The cursor may wrap. *)
CursorSpentNever == FALSE

CursorSpent == written_ = SequenceLimit

(* The answer of the guards that precede the copy. *)
Admission ==
    CASE status_ # "Ok" -> status_
      [] status_ = "Ok" /\ stop_ -> "InvalidArgument"
      [] status_ = "Ok" /\ ~stop_ /\ (QueueFull \/ CursorSpent) -> "Unknown"
      [] OTHER -> "Ok"

EnqueueCheck(entry) ==
    /\ callerPc = "idle"
    /\ result' = Admission
    /\ call' = entry
    /\ callerPc' = IF Admission = "Ok" THEN "copy" ELSE "idle"
    /\ UNCHANGED <<queueVars, slotVars, workerVars, accepted, corpusVars>>

EnqueueCopy ==
    /\ callerPc = "copy"
    /\ records_' = [records_ EXCEPT ![written_ % Capacity] =
                        [kind |-> KindOf(call.op), bytes |-> call.payload]]
    /\ callerPc' = "publish"
    /\ UNCHANGED <<written_, read_, stop_, status_, slotVars, workerVars,
                   call, result, accepted, corpusVars>>

EnqueuePublish ==
    /\ callerPc = "publish"
    /\ written_' = written_ + 1
    /\ accepted' = Append(accepted, call)
    /\ callerPc' = "idle"
    /\ UNCHANGED <<records_, read_, stop_, status_, slotVars, workerVars,
                   call, result, corpusVars>>

(* appendReferencePayload(), on the reference thread.  Its owner joins it   *)
(* before calling finish().                                                 *)
AppendReferencePayload(payload) ==
    /\ ~stop_
    /\ referencePayload_' = payload
    /\ referencePending_' = TRUE
    /\ UNCHANGED <<queueVars, workerVars, callerVars, corpusVars>>

-----------------------------------------------------------------------------
(* The worker thread: run(). *)

Exit(status) ==
    /\ status_' = status
    /\ workerPc' = "exited"

WorkerLoad ==
    /\ workerPc = "load"
    /\ workerPc' = IF read < written_ THEN "consume" ELSE "reference"
    /\ UNCHANGED <<queueVars, slotVars, read, stop, dirty, callerVars, corpusVars>>

(* consume(): the writer takes the call, or answers with a failure that    *)
(* ends the loop without moving read_.                                     *)
WorkerConsume ==
    /\ workerPc = "consume"
    /\ \/ /\ applied' = Append(applied, CallFor(records_[read % Capacity]))
          /\ read' = read + 1
          /\ workerPc' = "advance"
          /\ UNCHANGED status_
       \/ /\ \E failure \in Status \ {"Ok"} : Exit(failure)
          /\ UNCHANGED <<applied, read>>
    /\ UNCHANGED <<records_, written_, read_, stop_, slotVars, stop, dirty,
                   callerVars, reference, durable, durableReference>>

WorkerAdvance ==
    /\ workerPc = "advance"
    /\ read_' = read
    /\ dirty' = TRUE
    /\ workerPc' = "reference"
    /\ UNCHANGED <<records_, written_, stop_, status_, slotVars, read, stop,
                   callerVars, corpusVars>>

WorkerReference ==
    /\ workerPc = "reference"
    /\ \/ /\ ~referencePending_
          /\ workerPc' = "stop"
          /\ UNCHANGED <<referencePending_, reference, status_, dirty>>
       \/ /\ referencePending_
          /\ reference' = referencePayload_
          /\ referencePending_' = FALSE
          /\ dirty' = TRUE
          /\ workerPc' = "stop"
          /\ UNCHANGED status_
       \/ /\ referencePending_
          /\ \E failure \in Status \ {"Ok"} : Exit(failure)
          /\ UNCHANGED <<referencePending_, reference, dirty>>
    /\ UNCHANGED <<records_, written_, read_, stop_, referencePayload_, read,
                   stop, callerVars, applied, durable, durableReference>>

WorkerStop ==
    /\ workerPc = "stop"
    /\ stop' = stop_
    /\ workerPc' = "publish"
    /\ UNCHANGED <<queueVars, slotVars, read, dirty, callerVars, corpusVars>>

(* The last commit is left to the timer. *)
CommitForcedNever == FALSE

(* The commit that must happen; otherwise it depends on the 500 ms timer.  *)
CommitForced == stop /\ read = written_

WorkerPublish ==
    /\ workerPc = "publish"
    /\ \/ /\ ~(dirty /\ CommitForced)
          /\ workerPc' = "tail"
          /\ UNCHANGED <<status_, dirty, durable, durableReference>>
       \/ /\ dirty
          /\ durable' = Len(applied)
          /\ durableReference' = reference
          /\ dirty' = FALSE
          /\ workerPc' = "tail"
          /\ UNCHANGED status_
       \/ /\ dirty
          /\ \E failure \in Status \ {"Ok"} : Exit(failure)
          /\ UNCHANGED <<dirty, durable, durableReference>>
    /\ UNCHANGED <<records_, written_, read_, stop_, slotVars, read, stop,
                   callerVars, applied, reference>>

(* The loop leaves as soon as it sees the stop flag. *)
ExitNowOnStop == stop

(* The loop leaves only from its wait branch, which it no longer reaches.  *)
ExitNever == stop /\ read < written_

ExitNow == stop /\ read = written_

(* The bounded wait of an idle worker always ends. *)
WorkerTail ==
    /\ workerPc = "tail"
    /\ workerPc' = IF ExitNow THEN "exited" ELSE "load"
    /\ UNCHANGED <<queueVars, slotVars, read, stop, dirty, callerVars, corpusVars>>

Worker ==
    \/ WorkerLoad \/ WorkerConsume \/ WorkerAdvance \/ WorkerReference
    \/ WorkerStop \/ WorkerPublish \/ WorkerTail

-----------------------------------------------------------------------------
(* The session thread again: finish() and drainFrozen(). *)

FinishRequest ==
    /\ callerPc = "idle"
    /\ stop_' = TRUE
    /\ callerPc' = "join"
    /\ UNCHANGED <<records_, written_, read_, status_, slotVars, workerVars,
                   call, result, accepted, corpusVars>>

FinishJoin ==
    /\ callerPc = "join"
    /\ workerPc = "exited"
    /\ result' = status_
    /\ callerPc' = "finished"
    /\ UNCHANGED <<queueVars, slotVars, workerVars, call, accepted, corpusVars>>

(* Every failure is retried. *)
RetryableAlways == TRUE

Retryable == status_ \in {"Ok", "OutOfRange"}

DrainFrozenStart ==
    /\ callerPc = "finished"
    /\ \/ /\ ~Retryable
          /\ result' = status_
          /\ callerPc' = "drained"
       \/ /\ Retryable
          /\ callerPc' = "draining"
          /\ UNCHANGED result
    /\ UNCHANGED <<queueVars, slotVars, workerVars, call, accepted, corpusVars>>

(* Leaves one item behind. *)
DrainedOffByOne == read_ + 1 >= written_

Drained == read_ >= written_

DrainFrozenRecord ==
    /\ callerPc = "draining"
    /\ ~Drained
    /\ \/ /\ applied' = Append(applied, CallFor(records_[read_ % Capacity]))
          /\ read_' = read_ + 1
          /\ UNCHANGED <<result, callerPc>>
       \/ /\ result' \in Status \ {"Ok"}
          /\ callerPc' = "drained"
          /\ UNCHANGED <<applied, read_>>
    /\ UNCHANGED <<records_, written_, stop_, status_, slotVars, workerVars,
                   call, accepted, reference, durable, durableReference>>

DrainFrozenEnd ==
    /\ callerPc = "draining"
    /\ Drained
    /\ status_' = "Ok"
    /\ result' = "Ok"
    /\ callerPc' = "drained"
    /\ UNCHANGED <<records_, written_, read_, stop_, slotVars, workerVars,
                   call, accepted, corpusVars>>

DrainFrozen == DrainFrozenStart \/ DrainFrozenRecord \/ DrainFrozenEnd

-----------------------------------------------------------------------------
Caller ==
    \/ \E entry \in Entry : EnqueueCheck(entry)
    \/ EnqueueCopy
    \/ EnqueuePublish
    \/ FinishRequest
    \/ FinishJoin
    \/ DrainFrozen

Next ==
    \/ Caller
    \/ Worker
    \/ \E payload \in Reference : AppendReferencePayload(payload)

Spec == Init /\ [][Next]_vars

(* The operating system runs every thread; a call that began goes on, the   *)
(* reference thread may never deposit, and ingestion may never stop.        *)
Fairness ==
    /\ WF_vars(Worker)
    /\ WF_vars(EnqueueCopy \/ EnqueuePublish \/ FinishJoin \/ DrainFrozen)

FairSpec == Spec /\ Fairness

-----------------------------------------------------------------------------
(* Every variable holds a value its C++ declaration allows, and the        *)
(* cursors stay below the limit that enqueue() guards.                     *)
TypeOK ==
    /\ records_ \in [0 .. Capacity - 1 -> Item]
    /\ written_ \in 0 .. SequenceLimit
    /\ read_ \in Nat /\ read \in Nat
    /\ stop_ \in BOOLEAN /\ stop \in BOOLEAN /\ dirty \in BOOLEAN
    /\ status_ \in Status /\ result \in Reply
    /\ referencePending_ \in BOOLEAN
    /\ referencePayload_ \in Reference \cup {NoReference}
    /\ reference \in Reference \cup {NoReference}
    /\ durableReference \in Reference \cup {NoReference}
    /\ workerPc \in {"load", "consume", "advance", "reference", "stop",
                     "publish", "tail", "exited"}
    /\ callerPc \in {"idle", "copy", "publish", "join", "finished",
                     "draining", "drained"}
    /\ call \in Entry
    /\ accepted \in Seq(Entry) /\ applied \in Seq(Entry)
    /\ durable \in Nat

(* The corpus writer receives the acknowledged calls in order: none lost   *)
(* between two others, none twice, none from a slot the session thread was *)
(* still filling or had already refilled.                                  *)
AppliedInOrder ==
    /\ Len(applied) <= Len(accepted)
    /\ \A i \in 1 .. Len(applied) : applied[i] = accepted[i]

(* When finish() answers Ok, every acknowledged call reached the corpus    *)
(* writer and is covered by a durable cut, and so is a reference payload   *)
(* that the worker took from its slot.                                     *)
FinishOkMeansDurable ==
    callerPc = "finished" /\ result = "Ok" =>
        /\ applied = accepted
        /\ durable = Len(accepted)
        /\ durableReference = reference
        /\ ~referencePending_ => reference = referencePayload_

(* When drainFrozen() answers Ok, every acknowledged call reached the      *)
(* corpus writer even if the byte quota had stopped the worker midway.     *)
DrainOkMeansApplied ==
    callerPc = "drained" /\ result = "Ok" => applied = accepted

(* "I/O failures are never retried": once the status records one, no       *)
(* further call reaches the corpus writer and no cut is published.         *)
ErrorEndsWriting ==
    [][status_ = "Error" => UNCHANGED <<applied, reference, durable>>]_vars

(* Whatever the queue does is a behaviour of the abstract capture log.     *)
Log == INSTANCE CaptureLog
ImplementsCaptureLog == Log!Spec

(* finish() returns: the worker drains what was queued and leaves.         *)
FinishReturns == callerPc = "join" ~> callerPc = "finished"

(* No acknowledged call is left in the queue while the capture is healthy. *)
AcceptedIsApplied ==
    \A n \in 1 .. SequenceLimit :
        Len(accepted) >= n ~> (Len(applied) >= n \/ status_ # "Ok")
=============================================================================
