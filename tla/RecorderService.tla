---- MODULE RecorderService ----
(***************************************************************************)
(* The Recorder service (RecorderServiceServer.cpp) and its control clients *)
(* (RecorderServiceClient.cpp): one request and one reply per call over a  *)
(* sequenced-packet socket, handled by one polling thread that owns the    *)
(* capture, a worker thread for stopping it, and a deadline in the client. *)
(*                                                                         *)
(* A call has a number here so that the properties can say which call a    *)
(* reply or an execution belongs to; the protocol carries the operation    *)
(* only.  The capture is reduced to what the service sees of it: a session *)
(* number, whether it is active, its Parser, its selection and its last cut.*)
(***************************************************************************)
EXTENDS Naturals, Sequences, FiniteSets

CONSTANTS
    Clients,
    Operations,     \* the operations clients use in this instance
    Configs,        \* configurations a client may send
    NoConfig,       \* not configured yet
    MaxCalls,       \* bound: calls of all clients
    MaxCuts,        \* bound: durable cuts of a session
    MaxSessions     \* bound: sessions started

NoCall == [id |-> 0]

VARIABLES
    client,     \* per client: descriptor, the call in progress, results
    wire,       \* per client: its connection as the server holds it
    server,     \* RecorderServiceServerState
    capture,    \* the owned RecorderCaptureSession
    archive,    \* the generation of an archived corpus another process still writes
    log         \* the calls handle() has run, in order

vars == <<client, wire, server, capture, archive, log>>

\* What a reply is about: the cut of a session, or a catalogue read at generation from.
Plain == [session |-> 0, cut |-> 0, from |-> 0]

\* peer: accepted; orphan: a request poll() saw before its client went away.
NoWire == [request |-> <<>>, reply |-> <<>>, peer |-> FALSE, orphan |-> <<>>]

Init ==
    /\ client = [c \in Clients |-> [open |-> FALSE, call |-> NoCall, sent |-> 0,
                                    known |-> Plain, mixed |-> FALSE, torn |-> FALSE,
                                    misread |-> FALSE, stray |-> FALSE]]
    /\ wire = [c \in Clients |-> NoWire]
    /\ server = [up |-> TRUE, config |-> NoConfig, stopping |-> FALSE, complete |-> TRUE,
                 target |-> 0, reading |-> <<>>]
    /\ capture = [session |-> 0, active |-> FALSE, parser |-> FALSE, selection |-> NoConfig,
                  cut |-> 0, retained |-> TRUE, misled |-> FALSE]
    /\ archive = 1
    /\ log = <<>>

(***************************************************************************)
(* The client: connect, exchange, readBlock.                               *)
(***************************************************************************)
Connect(c) ==
    /\ server.up /\ ~client[c].open
    /\ client' = [client EXCEPT ![c].open = TRUE]
    /\ wire' = [wire EXCEPT ![c] = [NoWire EXCEPT !.orphan = wire[c].orphan]]
    /\ UNCHANGED <<server, capture, archive, log>>

Request(c, op, config, generation) ==
    [id |-> <<c, client[c].sent + 1>>, op |-> op,
     config |-> IF op = "configure" THEN config ELSE NoConfig, generation |-> generation]

\* One packet, sent whole.  readBlock() takes the generation from its caller: none
\* for the current cut, or that of the cut the caller was told of last.
Send(c, op, config, generation) ==
    /\ client[c].open /\ client[c].call = NoCall /\ client[c].sent < MaxCalls
    /\ generation \in IF op = "block" THEN {0, client[c].known.cut} ELSE {0}
    /\ client' = [client EXCEPT ![c].call = Request(c, op, config, generation), ![c].sent = @ + 1]
    /\ wire' = [wire EXCEPT ![c].request = Append(@, Request(c, op, config, generation))]
    /\ UNCHANGED <<server, capture, archive, log>>

\* A reply to readBlock() that says which cut it is about.
TellsCut(reply) == reply.op = "block" /\ reply.status # "refused"

\* The reply tells of a cut with another number than the one the call named.
OtherNumber(call, reply) ==
    TellsCut(reply) /\ call.generation # 0 /\ reply.of.cut # call.generation

\* The reply tells of the cut of another session than the one the call named.
OtherSession(call, reply, known) ==
    TellsCut(reply) /\ call.generation # 0 /\ reply.of.session # known.session

\* exchange: the reply must be one to the operation asked for; anything else
\* closes the descriptor.
Receive(c) ==
    /\ client[c].call # NoCall /\ wire[c].reply # <<>>
    /\ LET r == Head(wire[c].reply)
           good == r.op = client[c].call.op
       IN /\ client' = [client EXCEPT ![c].open = good, ![c].call = NoCall,
                ![c].mixed = @ \/ (good /\ r.id # client[c].call.id),
                ![c].torn = @ \/ (good /\ r.op = "sources" /\ r.of.from # r.of.cut /\ r.status = "ok"),
                ![c].misread = @ \/ (good /\ OtherNumber(client[c].call, r)),
                ![c].stray = @ \/ (good /\ OtherSession(client[c].call, r, client[c].known)),
                ![c].known = IF good /\ TellsCut(r) THEN r.of ELSE @]
          /\ wire' = [wire EXCEPT ![c].reply = Tail(@)]
    /\ UNCHANGED <<server, capture, archive, log>>

TimeoutKeepsSocket(c) ==
    /\ client[c].call # NoCall
    /\ client' = [client EXCEPT ![c].call = NoCall]
    /\ UNCHANGED <<wire, server, capture, archive, log>>

\* No reply in three seconds, or the peer is gone: the descriptor is closed, the
\* outcome is unknown and the request is not sent again.  A request poll() has
\* already seen will still be run; one it has not seen is dropped with the hangup.
Timeout(c) ==
    /\ client[c].call # NoCall
    /\ client' = [client EXCEPT ![c].open = FALSE, ![c].call = NoCall]
    /\ \E dropped \in BOOLEAN :
        /\ \A i \in DOMAIN server.reading : server.reading[i].client = c => ~dropped
        /\ wire' = [wire EXCEPT ![c] = [NoWire EXCEPT !.orphan =
                        IF wire[c].peer /\ ~dropped THEN wire[c].request ELSE wire[c].orphan]]
    /\ UNCHANGED <<server, capture, archive, log>>

(***************************************************************************)
(* The server: one polling thread.                                         *)

\* reapStop runs first in configure, start, stop and status.
Reaped == IF server.stopping /\ server.complete THEN [server EXCEPT !.stopping = FALSE] ELSE server

\* The request of c that poll() hands to handle(), when the thread is free.
Incoming(c) == IF wire[c].peer /\ wire[c].request # <<>> THEN wire[c].request ELSE wire[c].orphan

Pending(c, op) == /\ server.up /\ server.reading = <<>> /\ Incoming(c) # <<>>
                  /\ Head(Incoming(c)).op = op

\* The request is answered; the reply to an orphan cannot be sent, another one may
\* fail to be, and then the peer is closed.
Answer(c, status, of) ==
    LET r == Head(Incoming(c))
        reply == [id |-> r.id, op |-> r.op, status |-> status, of |-> of]
    IN /\ log' = Append(log, r.id)
       /\ IF wire[c].request = <<>> \/ ~wire[c].peer THEN wire' = [wire EXCEPT ![c].orphan = <<>>]
          ELSE \/ wire' = [wire EXCEPT ![c].request = Tail(@), ![c].reply = Append(@, reply)]
               \/ wire' = [wire EXCEPT ![c].request = Tail(@), ![c].peer = FALSE]

\* New connections are accepted once every peer poll() saw has been served.
Accept(c) ==
    /\ server.up /\ server.reading = <<>> /\ client[c].open /\ ~wire[c].peer
    /\ \A d \in Clients : wire[d].orphan = <<>>
    /\ wire' = [wire EXCEPT ![c].peer = TRUE]
    /\ UNCHANGED <<client, server, capture, archive, log>>

\* configureState: refused while stopping or when a check fails; an active capture
\* takes the new selection first, and only then the configuration is kept.
Configure(c) ==
    /\ Pending(c, "configure")
    /\ LET config == Head(Incoming(c)).config
           current == Reaped
       IN \E accepted \in BOOLEAN :
            LET good == ~current.stopping /\ accepted
            IN /\ server' = IF good THEN [current EXCEPT !.config = config] ELSE current
               /\ capture' = IF good /\ capture.active
                             THEN [capture EXCEPT !.selection = config] ELSE capture
               /\ Answer(c, IF good THEN "ok" ELSE "refused", Plain)
    /\ UNCHANGED <<client, archive>>

\* A start needs a configuration and no stop in progress; the capture refuses it
\* while it is active or while its Parser is retained.
MayStart(current) ==
    current.config # NoConfig /\ ~current.stopping /\ ~capture.active /\ ~capture.parser

\* startState: a new session with its own publication and cuts.
Start(c) ==
    /\ Pending(c, "start")
    /\ LET current == Reaped
       IN \E started \in {MayStart(current), FALSE} :
            /\ started => capture.session < MaxSessions
            /\ server' = current
            /\ capture' = IF started
                          THEN [capture EXCEPT !.session = @ + 1, !.active = TRUE, !.parser = TRUE,
                                  !.selection = current.config, !.cut = 0, !.retained = TRUE]
                          ELSE capture
            /\ Answer(c, IF started THEN "ok" ELSE "refused", Plain)
    /\ UNCHANGED <<client, archive>>

\* stopState: one stop worker at a time; the reply does not wait for it.
Stopping(current) ==
    IF current.stopping THEN current
    ELSE [current EXCEPT !.stopping = TRUE, !.complete = FALSE, !.target = capture.session]

\* The stop is acknowledged at once.
Stop(c) ==
    /\ Pending(c, "stop")
    /\ server' = Stopping(Reaped)
    /\ Answer(c, "ok", Plain)
    /\ UNCHANGED <<client, capture, archive>>

\* The latest cut, when its generation has the number that was asked for; when the
\* bytes are no longer retained the reply says that the subscriber lags.
Block(c) ==
    /\ Pending(c, "block")
    /\ LET r == Head(Incoming(c))
           good == capture.cut > 0 /\ r.generation \in {0, capture.cut}
       IN Answer(c, IF ~good THEN "refused" ELSE IF capture.retained THEN "ok" ELSE "lagging",
                 [Plain EXCEPT !.session = capture.session, !.cut = capture.cut])
    /\ UNCHANGED <<client, server, capture, archive>>

\* SessionSources of an archived corpus: its summary, its catalogue, and the
\* summary again, each read from disk.
SourcesBegin(c) ==
    /\ Pending(c, "sources")
    /\ server' = [server EXCEPT !.reading = <<[client |-> c, cut |-> archive, from |-> 0]>>]
    /\ UNCHANGED <<client, wire, capture, archive, log>>

SourcesCatalog ==
    /\ server.reading # <<>> /\ server.reading[1].from = 0
    /\ server' = [server EXCEPT !.reading[1].from = archive]
    /\ UNCHANGED <<client, wire, capture, archive, log>>

\* The generation must be the same before and after the catalogue was read.
SourcesConfirmed(reading) == archive = reading.cut

SourcesEnd ==
    /\ server.reading # <<>> /\ server.reading[1].from # 0
    /\ LET reading == server.reading[1]
           c == reading.client
       IN Answer(c, IF SourcesConfirmed(reading) THEN "ok" ELSE "refused",
                 [Plain EXCEPT !.cut = reading.cut, !.from = reading.from])
    /\ server' = [server EXCEPT !.reading = <<>>]
    /\ UNCHANGED <<client, capture, archive>>

\* The stop worker: capture.stop() joins the session and stops its Parser.
StopWorker ==
    /\ ~server.complete
    /\ server' = [server EXCEPT !.complete = TRUE]
    /\ capture' = [capture EXCEPT !.active = FALSE, !.parser = FALSE,
                     !.misled = @ \/ capture.session # server.target]
    /\ UNCHANGED <<client, wire, archive, log>>

\* close: a stop of its own, the worker joined, the capture stopped, peers closed.
Close ==
    /\ server.up /\ server.reading = <<>>
    /\ server' = [server EXCEPT !.up = FALSE, !.stopping = FALSE, !.complete = TRUE]
    /\ capture' = [capture EXCEPT !.active = FALSE, !.parser = FALSE]
    /\ wire' = [c \in Clients |-> [NoWire EXCEPT !.reply = wire[c].reply]]
    /\ UNCHANGED <<client, archive, log>>

(***************************************************************************)
(* The capture and the archive.                                            *)
(***************************************************************************)
\* A duration, a quota or an error ends the capture and retains its Parser.
CaptureEnds ==
    /\ capture.active
    /\ capture' = [capture EXCEPT !.active = FALSE]
    /\ UNCHANGED <<client, wire, server, archive, log>>

PublishCut ==
    /\ capture.active /\ capture.cut < MaxCuts
    /\ capture' = [capture EXCEPT !.cut = @ + 1]
    /\ UNCHANGED <<client, wire, server, archive, log>>

\* The bounded compressed cache drops the block.
Evict ==
    /\ capture.retained /\ capture.cut > 0
    /\ capture' = [capture EXCEPT !.retained = FALSE]
    /\ UNCHANGED <<client, wire, server, archive, log>>

\* Another process commits to the archived corpus.
ArchiveCommits ==
    /\ archive < MaxCuts
    /\ archive' = archive + 1
    /\ UNCHANGED <<client, wire, server, capture, log>>

Handle(c) == Configure(c) \/ Start(c) \/ Stop(c) \/ Block(c) \/ SourcesBegin(c)

Next ==
    \/ \E c \in Clients :
        \/ Connect(c) \/ Receive(c) \/ Timeout(c) \/ Accept(c) \/ Handle(c)
        \/ \E op \in Operations, config \in Configs, generation \in 0..MaxCuts :
            Send(c, op, config, generation)
    \/ SourcesCatalog \/ SourcesEnd \/ StopWorker \/ Close
    \/ CaptureEnds \/ PublishCut \/ Evict \/ ArchiveCommits

Spec == Init /\ [][Next]_vars

\* The polling thread and the stop worker run; poll() serves every ready peer.
FairSpec ==
    /\ Spec
    /\ WF_vars(StopWorker) /\ WF_vars(SourcesCatalog) /\ WF_vars(SourcesEnd)
    /\ \A c \in Clients : WF_vars(Handle(c)) /\ WF_vars(Receive(c) \/ Timeout(c))

(***************************************************************************)
(* Properties.                                                             *)
(***************************************************************************)

\* exchange() gives a call the reply of that call: a late reply of a call that
\* timed out is never taken for the answer to the next call of the same kind.
ReplyOfItsCall == \A c \in Clients : ~client[c].mixed

\* "outcome unknown, request will not be resent": handle() runs a call at most
\* once, also when the client gave up on it and called again.
AtMostOnce == \A i, j \in DOMAIN log : i # j => log[i] # log[j]

\* A client's calls are run in the order they were made: a request left behind by
\* a timeout is never run after a later call of the same client.
CallsInOrder ==
    \A i, j \in DOMAIN log : i < j /\ log[i][1] = log[j][1] => log[i][2] < log[j][2]

\* A stop ends the session that ran when it was handled, never one started after
\* it: startState refuses until the stop worker was reaped.
StopHitsItsSession == ~capture.misled

\* The configuration the server would start from next is the selection of the
\* active capture, also after a refused change.
ConfigIsSelection == capture.active => server.config = capture.selection

\* The sources a client gets with a generation are the catalogue of that generation.
SourcesOfGeneration == \A c \in Clients : ~client[c].torn

\* readBlock() with a generation returns a block of a cut with that number, whatever
\* cuts were published, sessions started and calls given up since it was named.
BlockOfGeneration == \A c \in Clients : ~client[c].misread

\* readBlock(): "An old unavailable generation fails closed; callers refresh their cut
\* before resuming at a durable block": a call that names the cut of one session is
\* never answered with a block of another session.
OldGenerationFails == \A c \in Clients : ~client[c].stray

\* A handled stop ends the session it was for and its Parser.
StopTaken == server.stopping
NothingRuns == ~capture.active /\ ~capture.parser
StopTakesEffect == StopTaken ~> NothingRuns

\* Every call returns to its caller, answered or given up.
Calling(c) == client[c].call # NoCall
CallsReturn == \A c \in Clients : Calling(c) ~> ~Calling(c)
====
