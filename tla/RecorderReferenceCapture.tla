---- MODULE RecorderReferenceCapture ----
(***************************************************************************)
(* The reference worker of a capture (RecorderReferenceCapture.cpp).  It   *)
(* reads the history of the last durable cut, appends the snapshots that   *)
(* changed, and leaves the whole history in a slot for the writer thread.  *)
(* The next cut binds what is new in it to its own generation              *)
(* (bindRecorderReferenceVisibility) and shows it.                         *)
(***************************************************************************)
EXTENDS Naturals, Sequences, SequencesExt

CONSTANTS
    Keys,           \* (product, dataset) pairs
    MaxSnapshots,   \* kRecorderReferenceMaximumSnapshots
    MaxVersions,    \* bound: producer generations of one dataset
    MaxCuts,        \* bound: published cuts
    MaxReads        \* bound: rounds of the worker; a round stamps what it acquires

VARIABLES
    current,    \* what readCold finds per key: 0 missing, else its generation
    worker,     \* the locals of the worker thread
    slot,       \* the payload left for the writer thread, if any
    writer,     \* the payload the corpus writer holds, and whether it failed
    cut         \* the last published cut

vars == <<current, worker, slot, writer, cut>>

KeyOrder == SetToSeq(Keys)
K == Len(KeyOrder)
Fence == MaxVersions + 1            \* presence CapacityExceeded

Init ==
    /\ current = [k \in Keys |-> 0]
    /\ worker = [pc |-> "idle", at |-> 1, history |-> <<>>, base |-> 0, generation |-> 0,
                 awaitingGeneration |-> 0, awaitingCount |-> 0, reads |-> 0, status |-> "ok"]
    /\ slot = [pending |-> FALSE, payload |-> <<>>]
    /\ writer = [payload |-> <<>>, failed |-> FALSE]
    /\ cut = [generation |-> 0, payload |-> <<>>]

\* The reference producer (external) publishes a new generation or withdraws it.
Produce(k) ==
    /\ \E v \in {0, current[k] + 1} : v # current[k] /\ v <= MaxVersions
                                     /\ current' = [current EXCEPT ![k] = v]
    /\ UNCHANGED <<worker, slot, writer, cut>>

\* The writer thread takes the pending payload.
TakePayload ==
    /\ slot.pending /\ ~writer.failed
    /\ writer' = [writer EXCEPT !.payload = slot.payload]
    /\ slot' = [slot EXCEPT !.pending = FALSE]
    /\ UNCHANGED <<current, worker, cut>>

SameObservation(a, b) == a.key = b.key /\ a.version = b.version /\ a.acquired = b.acquired

\* Prior observations are immutable, new ones carry no visibility yet.
Bindable(payload, prior) ==
    /\ Len(payload) >= Len(prior)
    /\ \A i \in DOMAIN payload :
        IF i <= Len(prior) THEN SameObservation(payload[i], prior[i]) ELSE payload[i].visible = 0

\* New observations become visible with this cut.
Bind(payload, prior, generation) ==
    [i \in DOMAIN payload |->
        [payload[i] EXCEPT !.visible = IF i <= Len(prior) THEN prior[i].visible ELSE generation]]

PublishCut ==
    /\ cut.generation < MaxCuts /\ ~writer.failed
    /\ IF Bindable(writer.payload, cut.payload)
       THEN /\ cut' = [generation |-> cut.generation + 1,
                       payload |-> Bind(writer.payload, cut.payload, cut.generation + 1)]
            /\ UNCHANGED writer
       ELSE writer' = [writer EXCEPT !.failed = TRUE] /\ UNCHANGED cut
    /\ UNCHANGED <<current, worker, slot>>

\* The last appended history has to come back in a cut before it is extended.
MayContinue ==
    /\ worker.awaitingGeneration = 0 \/ cut.generation > worker.awaitingGeneration
    /\ worker.awaitingCount = 0 \/ Len(cut.payload) >= worker.awaitingCount

Begin ==
    /\ worker.pc = "idle" /\ worker.status = "ok" /\ MayContinue /\ worker.reads < MaxReads
    /\ worker' = [worker EXCEPT !.pc = "acquire", !.at = 1, !.history = cut.payload,
                    !.base = Len(cut.payload), !.generation = cut.generation,
                    !.awaitingGeneration = 0, !.awaitingCount = 0, !.reads = @ + 1]
    /\ UNCHANGED <<current, slot, writer, cut>>

LastOf(history, k) ==
    LET at == {i \in DOMAIN history : history[i].key = k}
    IN IF at = {} THEN MaxVersions + 2
       ELSE history[CHOOSE i \in at : \A j \in at : j <= i].version

\* Room is reserved for one fence per key.
Full(history) == Len(history) + K >= MaxSnapshots

\* One dataset: an unchanged snapshot is skipped; past the reserve only a fence
\* is recorded, once.
Acquire ==
    /\ worker.pc = "acquire" /\ worker.at <= K
    /\ LET k == KeyOrder[worker.at]
           last == LastOf(worker.history, k)
           kept == IF Full(worker.history) THEN Fence ELSE current[k]
           skip == last = current[k] \/ last = kept
       IN worker' = IF skip THEN [worker EXCEPT !.at = @ + 1]
                    ELSE IF Len(worker.history) >= MaxSnapshots
                    THEN [worker EXCEPT !.pc = "ended", !.status = "outOfRange"]
                    ELSE [worker EXCEPT !.at = @ + 1,
                            !.history = Append(@, [key |-> k, version |-> kept, visible |-> 0,
                                               acquired |-> worker.reads])]
    /\ UNCHANGED <<current, slot, writer, cut>>

\* A grown history replaces the payload in the slot.
AppendPayload ==
    /\ worker.pc = "acquire" /\ worker.at > K
    /\ IF Len(worker.history) = worker.base
       THEN worker' = [worker EXCEPT !.pc = "idle"] /\ UNCHANGED slot
       ELSE /\ slot' = [pending |-> TRUE, payload |-> worker.history]
            /\ worker' = [worker EXCEPT !.pc = "idle", !.awaitingGeneration = worker.generation,
                            !.awaitingCount = Len(worker.history)]
    /\ UNCHANGED <<current, writer, cut>>

Next ==
    \/ \E k \in Keys : Produce(k)
    \/ TakePayload \/ PublishCut \/ Begin \/ Acquire \/ AppendPayload

Spec == Init /\ [][Next]_vars

(***************************************************************************)
(* Properties.                                                             *)
(***************************************************************************)

\* No cut is refused by the binder: the payload the writer holds always extends
\* what the last cut has shown, although it was built from a cut that may be
\* several cuts older.
BinderNeverRefuses == ~writer.failed

\* What a cut has shown, its visibility included, never changes in a later cut.
VisibilityImmutable == IsPrefix(cut.payload, cut'.payload)

\* The reserve is enough for every fence: the worker never ends the capture with
\* OutOfRange, however the producer changes.
ReserveSuffices == worker.status = "ok"
====
