---- MODULE ParserMarketCaptureClient ----
(***************************************************************************)
(* The Recorder's end of the capture plane: ParserMarketCaptureClient.cpp  *)
(* drains the shard rings of the shared arena into a sink, tells the sink  *)
(* which rows were lost and how far every shard is known to be complete,   *)
(* and freezes the arena at the end.  The producer (parserd) is outside the *)
(* repository; its steps are the ones the client relies on: a lease is held *)
(* while a row is published, admission closes before leases are waited for, *)
(* a membership row is committed before the directory revision it announces,*)
(* and a shard's progress promises no later row with an earlier arrival.   *)
(* The last consumer is the active cursor of CorpusCut.cpp, which merges   *)
(* the drained shards by arrival and may go no further than the progress.  *)
(***************************************************************************)
EXTENDS Naturals, Sequences, FiniteSets

CONSTANTS
    ShardCount,         \* shards of the arena, numbered from 1
    RingCapacity,       \* rows one ring holds
    DirectoryCapacity,  \* sources the directory admits
    MaxRows,            \* bound: rows the producer tries to publish
    MaxClock            \* bound: the monotonic clock

Shards == 1 .. ShardCount
None == [phase |-> "none"]

VARIABLES
    arena,    \* the mapped memory and the control socket
    clock,    \* CLOCK_MONOTONIC, the arrival coordinate
    client,   \* ParserMarketCaptureClientState and the call it is in
    sink      \* what the callbacks were given, and what the cursor emitted

vars == <<arena, clock, client, sink>>

Row == [source : 1 .. DirectoryCapacity, arrival : Nat, revision : Nat]

(***************************************************************************)
(* Init is the state connect and the first loadSourceDirectory leave: the  *)
(* arena is attached to this consumer, one source is listed and copied.    *)
(***************************************************************************)
Init ==
    /\ arena = [written |-> [s \in Shards |-> <<>>], read |-> [s \in Shards |-> 0],
                lease |-> [s \in Shards |-> None], progress |-> [s \in Shards |-> None],
                generation |-> 1, count |-> 1,
                started |-> 0, lost |-> 0, cells |-> [n \in 1 .. DirectoryCapacity |-> 0],
                attached |-> TRUE, socket |-> TRUE, tries |-> 0]
    /\ clock = 1
    /\ client = [pc |-> "idle", at |-> 1, known |-> 1, sources |-> 1,
                 how |-> "running", final |-> 0, failed |-> FALSE,
                 snap |-> None]
    /\ sink = [rows |-> [s \in Shards |-> <<>>], catalog |-> 1,
               gaps |-> [n \in 1 .. DirectoryCapacity |-> 0],
               safe |-> 0, sequences |-> [s \in Shards |-> 0], losses |-> 0, directory |-> 0,
               refused |-> FALSE, emitted |-> <<>>]

(***************************************************************************)
(* The producer (external).                                                *)
(***************************************************************************)
Quiet(s) == arena.lease[s] = None

\* Takes the lease of shard s for a row of a listed source; the arrival clock is
\* sampled now.  Admission needs an attached consumer.
Lease(s, n) ==
    /\ arena.attached /\ Quiet(s) /\ arena.tries < MaxRows /\ n \in 1 .. arena.count
    /\ arena' = [arena EXCEPT !.tries = @ + 1,
                   !.lease[s] = [phase |-> "row",
                                 row |-> [source |-> n, arrival |-> clock, revision |-> 0]]]
    /\ UNCHANGED <<clock, client, sink>>

Pending(s) == Len(arena.written[s]) - arena.read[s]

\* Publishes the leased row, or starts a loss when the ring is full.
Commit(s) ==
    /\ arena.lease[s].phase = "row"
    /\ arena' = IF Pending(s) < RingCapacity
                THEN [arena EXCEPT !.written[s] = Append(@, arena.lease[s].row), !.lease[s] = None]
                ELSE [arena EXCEPT !.started = @ + 1, !.lease[s].phase = "loss"]
    /\ UNCHANGED <<clock, client, sink>>

\* Completes the loss: the cell first counts it, then the epoch.
CountLoss(s) ==
    /\ arena.lease[s].phase = "loss"
    /\ arena' = [arena EXCEPT !.cells[arena.lease[s].row.source] = @ + 1, !.lost = @ + 1,
                              !.lease[s] = None]
    /\ UNCHANGED <<clock, client, sink>>

\* Commits the membership row of a new source, before its directory revision.
Announce(s) ==
    /\ arena.attached /\ Pending(s) < RingCapacity /\ arena.count < DirectoryCapacity
    /\ arena.tries < MaxRows /\ \A t \in Shards : arena.lease[t].phase # "announced"
    /\ Quiet(s)
    /\ arena' = [arena EXCEPT !.tries = @ + 1, !.lease[s] = [phase |-> "announced"],
                   !.written[s] = Append(@, [source |-> arena.count + 1, arrival |-> clock,
                                             revision |-> arena.generation + 1])]
    /\ UNCHANGED <<clock, client, sink>>

\* Releases the directory revision the membership row announced.
Release(s) ==
    /\ arena.lease[s].phase = "announced"
    /\ arena' = [arena EXCEPT !.generation = @ + 1, !.count = @ + 1, !.lease[s] = None]
    /\ UNCHANGED <<clock, client, sink>>

\* The owner of shard s states how far the shard is complete.
OwnerProgress(s) ==
    /\ arena.attached /\ Quiet(s)
    /\ arena' = [arena EXCEPT !.progress[s] =
                   [phase |-> "progress", write |-> Len(arena.written[s]), time |-> clock,
                    lost |-> arena.lost, revision |-> arena.generation]]
    /\ UNCHANGED <<clock, client, sink>>

Tick ==
    /\ clock < MaxClock
    /\ clock' = clock + 1
    /\ UNCHANGED <<arena, client, sink>>

\* Stop closes admission; so does a producer that finds its peer gone.
CloseAdmission ==
    /\ arena.attached /\ (client.pc = "stopping" \/ ~arena.socket)
    /\ arena' = [arena EXCEPT !.attached = FALSE]
    /\ UNCHANGED <<clock, client, sink>>

LoseSocket ==
    /\ arena.socket
    /\ arena' = [arena EXCEPT !.socket = FALSE]
    /\ UNCHANGED <<clock, client, sink>>

(***************************************************************************)
(* drainTo.                                                                *)
(***************************************************************************)
Stopped == client.how # "running"

\* The copy of the directory is confirmed against the generation read before
\* it, so it is the directory of one moment; it never shrinks.
LoadDirectory(c) == [c EXCEPT !.known = arena.generation, !.sources = arena.count]

\* Sources the sink does not know are registered before any row is taken.
DrainBegin ==
    /\ client.pc = "idle" /\ ~client.failed
    /\ Stopped => \E s \in Shards : Pending(s) > 0
    /\ client' = [LoadDirectory(client) EXCEPT !.pc = "scan"]
    /\ sink' = [sink EXCEPT !.catalog = arena.count]
    /\ UNCHANGED <<arena, clock>>

HeadRow(s) == arena.written[s][arena.read[s] + 1]

\* The ring whose head arrived first, the lowest index among equals.  A row
\* committed while the rings are looked at counts from the next look on.
First(s) ==
    /\ Pending(s) > 0
    /\ \A t \in Shards \ {s} : Pending(t) > 0 =>
        HeadRow(s).arrival < HeadRow(t).arrival \/ (HeadRow(s).arrival = HeadRow(t).arrival /\ s < t)

\* A head the copied directory does not cover waits for the next drain.
Deferred(row) == row.source > client.sources \/ row.revision > client.known

\* The earliest head goes to the sink; only an accepted row advances the ring.
Take(s) ==
    /\ client.pc = "scan" /\ First(s) /\ ~Deferred(HeadRow(s))
    /\ sink' = [sink EXCEPT !.rows[s] = Append(@, HeadRow(s))]
    /\ arena' = [arena EXCEPT !.read[s] = @ + 1]
    /\ UNCHANGED <<clock, client>>

\* A sink that refuses the row ends the call; the row stays in its ring.
TakeRefused(s) ==
    /\ client.pc = "scan" /\ First(s) /\ ~Deferred(HeadRow(s)) /\ ~Stopped
    /\ client' = [client EXCEPT !.pc = "idle"]
    /\ UNCHANGED <<arena, clock, sink>>

\* The rings are empty, the first head is deferred, or the row limit is reached
\* (the final drain has none).
DrainEnd ==
    /\ client.pc = "scan"
    /\ ~Stopped \/ \A s \in Shards : First(s) => Deferred(HeadRow(s))
    /\ client' = [client EXCEPT !.pc = "progress"]
    /\ UNCHANGED <<arena, clock, sink>>

(***************************************************************************)
(* publishProgressTo.                                                      *)
(***************************************************************************)
NoCells == [n \in 1 .. DirectoryCapacity |-> 0]

\* The end of a call: appendFrozenLosses is the last one of a capture.
Return(c) == [c EXCEPT !.pc = IF c.snap.sealing THEN "sealed" ELSE "idle", !.at = 1,
                       !.snap = None]

\* One bounded attempt: a loss being counted, or a directory newer than the
\* copy, defers the report.
SnapshotBegin(sealing) ==
    LET start == [phase |-> "shards", revision |-> arena.lost, safe |-> MaxClock + 1,
                  sequences |-> [s \in Shards |-> 0], available |-> TRUE,
                  cells |-> NoCells, sealing |-> sealing]
    IN IF arena.started # arena.lost \/ arena.generation # client.known
          \/ arena.count # client.sources
       THEN Return([client EXCEPT !.snap = start])
       ELSE [client EXCEPT !.pc = "snapshot", !.at = 1, !.snap = start]

PublishBegin ==
    /\ client.pc = "progress"
    /\ client' = SnapshotBegin(FALSE)
    /\ UNCHANGED <<arena, clock, sink>>

\* Shard s has been drained as far as its owner's progress, which is no newer
\* than the loss and directory revisions of this snapshot.
OwnerReady(s) ==
    LET p == arena.progress[s]
    IN p # None /\ arena.read[s] >= p.write /\ p.lost <= client.snap.revision
        /\ p.revision <= client.known

ReadShard ==
    /\ client.pc = "snapshot" /\ client.snap.phase = "shards"
    /\ LET s == client.at
           p == arena.progress[s]
       IN client' = IF ~OwnerReady(s)
            THEN [client EXCEPT !.snap.available = FALSE, !.snap.phase = "cells", !.at = 1]
            ELSE [client EXCEPT !.snap.safe = IF p.time < @ THEN p.time ELSE @,
                                !.snap.sequences[s] = p.write,
                                !.snap.phase = IF s = ShardCount THEN "cells" ELSE "shards",
                                !.at = IF s = ShardCount THEN 1 ELSE s + 1]
    /\ UNCHANGED <<arena, clock, sink>>

ReadCell ==
    /\ client.pc = "snapshot" /\ client.snap.phase = "cells" /\ client.at <= client.sources
    /\ client' = [client EXCEPT !.snap.cells[client.at] = arena.cells[client.at], !.at = @ + 1]
    /\ UNCHANGED <<arena, clock, sink>>

\* The revisions the snapshot began with still hold.
SameCut ==
    /\ arena.started = client.snap.revision /\ arena.lost = client.snap.revision
    /\ arena.generation = client.known /\ arena.count = client.sources
    /\ Stopped \/ arena.attached

Total(cells) ==
    LET total[n \in 0 .. DirectoryCapacity] == IF n = 0 THEN 0 ELSE total[n - 1] + cells[n]
    IN total[DirectoryCapacity]

\* What the sink does with a progress report (BinaryMarketCorpusWriter).
Accepts(snap) ==
    /\ snap.safe >= sink.safe /\ snap.revision >= sink.losses /\ client.known >= sink.directory
    /\ \A s \in Shards : snap.sequences[s] >= sink.sequences[s]
                          /\ snap.sequences[s] <= Len(sink.rows[s])

PublishEnd ==
    /\ client.pc = "snapshot" /\ client.snap.phase = "cells" /\ client.at > client.sources
    /\ LET snap == client.snap
       IN CASE ~SameCut -> client' = Return(client) /\ UNCHANGED sink
            [] SameCut /\ Total(snap.cells) # snap.revision ->
                    client' = [Return(client) EXCEPT !.failed = TRUE] /\ UNCHANGED sink
            [] OTHER ->
                    /\ sink' = IF ~snap.available THEN [sink EXCEPT !.gaps = snap.cells]
                               ELSE IF Accepts(snap)
                               THEN [sink EXCEPT !.gaps = snap.cells, !.safe = snap.safe,
                                        !.sequences = snap.sequences, !.losses = snap.revision,
                                        !.directory = client.known]
                               ELSE [sink EXCEPT !.gaps = snap.cells, !.refused = TRUE]
                    /\ client' = Return(client)
    /\ UNCHANGED <<arena, clock>>

(***************************************************************************)
(* stop, freezeDisconnected, appendFrozenLosses.                           *)
(***************************************************************************)
Disconnected == ~arena.socket \/ ~arena.attached

StopRequest ==
    /\ client.pc = "idle" /\ ~Stopped /\ ~client.failed /\ ~Disconnected
    /\ client' = [client EXCEPT !.pc = "stopping"]
    /\ UNCHANGED <<arena, clock, sink>>

\* The acknowledgement follows once admission is closed and no lease is held.
StopAcknowledged ==
    /\ client.pc = "stopping" /\ arena.socket /\ ~arena.attached /\ \A s \in Shards : Quiet(s)
    /\ client' = [client EXCEPT !.pc = "idle", !.at = 1, !.how = "stop", !.final = arena.lost,
                                !.known = arena.generation]
    /\ UNCHANGED <<arena, clock, sink>>

\* No answer: a producer found disconnected is frozen, any other fails the capture.
StopTimeout ==
    /\ client.pc = "stopping"
    /\ client' = [client EXCEPT !.pc = "idle", !.failed = ~Disconnected]
    /\ UNCHANGED <<arena, clock, sink>>

FreezeBegin ==
    /\ client.pc = "idle" /\ ~Stopped /\ ~client.failed /\ Disconnected
    /\ client' = [client EXCEPT !.pc = "freeze", !.at = 1]
    /\ UNCHANGED <<arena, clock, sink>>

\* The leases are read one by one, then the epoch; any refusal starts over.
FreezeScan ==
    /\ client.pc = "freeze" /\ client.at <= ShardCount
    /\ client' = [client EXCEPT !.at = IF Quiet(client.at) THEN @ + 1 ELSE 1]
    /\ UNCHANGED <<arena, clock, sink>>

FreezeEpoch ==
    /\ client.pc = "freeze" /\ client.at > ShardCount
    /\ client' = IF arena.attached THEN [client EXCEPT !.at = 1]
                 ELSE [client EXCEPT !.pc = "idle", !.at = 1, !.how = "freeze", !.final = arena.lost]
    /\ UNCHANGED <<arena, clock, sink>>

FreezeTimeout ==
    /\ client.pc = "freeze"
    /\ client' = [client EXCEPT !.pc = "idle", !.failed = TRUE]
    /\ UNCHANGED <<arena, clock, sink>>

\* After the final drain: the loss epoch must be the frozen one, and the ledger
\* is handed to the sink a last time.
AppendFrozenLosses ==
    /\ client.pc = "idle" /\ Stopped /\ ~client.failed /\ \A s \in Shards : Pending(s) = 0
    /\ client' = IF arena.lost # client.final THEN [client EXCEPT !.failed = TRUE]
                 ELSE SnapshotBegin(TRUE)
    /\ UNCHANGED <<arena, clock, sink>>

(***************************************************************************)
(* The active cursor over the drained shards.  It reads the last durable   *)
(* cut; reading a later one only emits later.                              *)
(***************************************************************************)
Emitted(s) == Cardinality({i \in DOMAIN sink.emitted : sink.emitted[i].shard = s})
Ready(s) == Emitted(s) < Len(sink.rows[s])
Next1(s) == sink.rows[s][Emitted(s) + 1]

Before(s, t) == Next1(s).arrival < Next1(t).arrival
                \/ (Next1(s).arrival = Next1(t).arrival /\ s < t)

\* A row at or past the safe time, or past its shard's completed sequence, waits.
Safe(s) == sink.safe # 0 /\ Next1(s).arrival < sink.safe /\ Emitted(s) + 1 <= sink.sequences[s]

CursorNext ==
    /\ \E s \in Shards :
        /\ Ready(s) /\ \A t \in Shards \ {s} : Ready(t) => Before(s, t)
        /\ Safe(s)
        /\ sink' = [sink EXCEPT !.emitted = Append(@, [shard |-> s, arrival |-> Next1(s).arrival])]
    /\ UNCHANGED <<arena, clock, client>>

Producer ==
    \/ \E s \in Shards : \/ \E n \in 1 .. DirectoryCapacity : Lease(s, n)
                          \/ Commit(s) \/ CountLoss(s) \/ Announce(s) \/ Release(s)
                          \/ OwnerProgress(s)
    \/ Tick \/ CloseAdmission \/ LoseSocket

Client ==
    \/ DrainBegin \/ DrainEnd \/ \E s \in Shards : Take(s) \/ TakeRefused(s)
    \/ PublishBegin \/ ReadShard \/ ReadCell \/ PublishEnd
    \/ StopRequest \/ StopAcknowledged \/ StopTimeout
    \/ FreezeBegin \/ FreezeScan \/ FreezeEpoch \/ FreezeTimeout \/ AppendFrozenLosses

Next == Producer \/ Client \/ CursorNext

Spec == Init /\ [][Next]_vars

(***************************************************************************)
(* Properties.                                                             *)
(***************************************************************************)

\* drainTo hands every committed row of a shard to the sink exactly once and in
\* ring order, also when a sink refused it and it was offered again.
RowsExactlyOnce ==
    \A s \in Shards : sink.rows[s] = SubSeq(arena.written[s], 1, arena.read[s])

\* A row reaches the sink only after its source was registered there, although
\* the producer commits the first row of a source before it lists the source.
RegisteredBeforeRows ==
    \A s \in Shards : \A i \in DOMAIN sink.rows[s] : sink.rows[s][i].source <= sink.catalog

\* The writer's updateProgress never refuses a report of publishProgressTo, and
\* the ledger is never found inconsistent: with a conforming producer neither
\* fails the capture, whatever runs between the reads of one snapshot.
SnapshotsConsistent ==
    /\ ~sink.refused
    /\ client.pc = "snapshot" /\ client.snap.phase = "cells" /\ client.at > client.sources
        /\ SameCut => Total(client.snap.cells) = client.snap.revision

\* The cursor's merge of the shards is in the order (arrival, shard): the safe
\* time and sequences of a report never let a row out while an earlier one of
\* another shard is still in its ring or under a lease.
MergedByArrival ==
    \A i, j \in DOMAIN sink.emitted : i < j =>
        \/ sink.emitted[i].arrival < sink.emitted[j].arrival
        \/ sink.emitted[i].arrival = sink.emitted[j].arrival
           /\ sink.emitted[i].shard <= sink.emitted[j].shard

Accounted ==
    /\ \A s \in Shards : Quiet(s) /\ sink.rows[s] = arena.written[s]
    /\ Total(sink.gaps) = arena.lost

\* After an acknowledged Stop, the final drain and appendFrozenLosses, every row
\* the producer ever took a lease for is in the sink or counted in its gaps.
StopAccountsForAll == client.pc = "sealed" /\ client.how = "stop" /\ ~client.failed => Accounted

====
