------------------------ MODULE RecorderServiceProofs ------------------------
(***************************************************************************)
(* Proofs, for any clients, operations and configurations and without any  *)
(* bound on calls or sessions, of what RecorderService promises its        *)
(* callers.                                                                *)
(***************************************************************************)
EXTENDS RecorderService, TLAPS

-----------------------------------------------------------------------------
(* The inductive invariant.                                                *)

Calls ==
  [id : Clients \X Nat, op : Operations, config : Configs \cup {NoConfig}, generation : Nat]

Marks == [session : Nat, cut : Nat, from : Nat]

Statuses == {"ok", "lagging", "refused"}

Replies == [id : Clients \X Nat, op : Operations, status : Statuses, of : Marks]

Readings == [client : Clients, cut : Nat, from : Nat]

Wires == [request : Seq(Calls), reply : Seq(Replies), peer : BOOLEAN, orphan : Seq(Calls)]

Callers ==
  [open : BOOLEAN, call : Calls \cup {NoCall}, sent : Nat, known : Marks, mixed : BOOLEAN,
   torn : BOOLEAN, misread : BOOLEAN, stray : BOOLEAN]

Servers ==
  [up : BOOLEAN, config : Configs \cup {NoConfig}, stopping : BOOLEAN, complete : BOOLEAN,
   target : Nat, reading : Seq(Readings)]

Captures ==
  [session : Nat, active : BOOLEAN, parser : BOOLEAN, selection : Configs \cup {NoConfig},
   cut : Nat, retained : BOOLEAN, misled : BOOLEAN]

TypeInv ==
  /\ client \in [Clients -> Callers]
  /\ wire \in [Clients -> Wires]
  /\ server \in Servers
  /\ capture \in Captures
  /\ archive \in Nat \ {0}
  /\ log \in Seq(Clients \X Nat)

\* The reply r is one the server may give to the request q.
Suits(r, q) ==
  /\ r.id = q.id /\ r.op = q.op
  /\ r.op = "sources" /\ r.status = "ok" => r.of.from = r.of.cut
  /\ TellsCut(r) => q.generation \in {0, r.of.cut}

\* A connection carries the call in progress or its reply, and nothing else; an
\* accepted one has no request of an earlier connection waiting.
Talks(k, w) ==
  /\ k.call # NoCall => k.open
  /\ w.peer => k.open /\ w.orphan = <<>>
  /\ w.request # <<>> => k.call # NoCall /\ w.request = <<k.call>> /\ w.reply = <<>>
  /\ w.reply # <<>> => k.call # NoCall /\ \E r \in Replies : w.reply = <<r>> /\ Suits(r, k.call)

\* No answer the client took was of another call, generation or catalogue.
Served(k) == ~k.mixed /\ ~k.torn /\ ~k.misread

\* The numbers of the calls of c: those that have run, then the one left
\* behind, then the one on the wire.
Numbered(c, k, w, l) ==
  /\ k.call # NoCall => k.call.id = <<c, k.sent>>
  /\ w.orphan # <<>> =>
       /\ w.orphan[1].id[1] = c /\ w.orphan[1].id[2] <= k.sent
       /\ w.request # <<>> => w.orphan[1].id[2] < k.sent
  /\ \A i \in 1..Len(l) : l[i][1] = c =>
       /\ l[i][2] <= k.sent
       /\ w.request # <<>> => l[i][2] < k.sent
       /\ w.orphan # <<>> => l[i][2] < w.orphan[1].id[2]

ClientInv ==
  \A c \in Clients :
    /\ Talks(client[c], wire[c])
    /\ Served(client[c])
    /\ Numbered(c, client[c], wire[c], log)

\* The request a catalogue is read for waits until it is answered; the
\* generations read are in the order of the reads.
ReadInv ==
  server.reading # <<>> =>
    \E q \in Readings :
      /\ server.reading = <<q>>
      /\ Incoming(q.client) # <<>> /\ Head(Incoming(q.client)).op = "sources"
      /\ q.cut <= archive
      /\ q.from # 0 => q.cut <= q.from /\ q.from <= archive

\* While the stop worker runs the service is stopping, and the session is the
\* one it was started for.
StopInv ==
  /\ ~server.complete => server.stopping /\ server.target = capture.session
  /\ ~capture.misled

IInv == TypeInv /\ ClientInv /\ CallsInOrder /\ ReadInv /\ StopInv /\ ConfigIsSelection

-----------------------------------------------------------------------------
(* Lemmas on the operators.                                                *)

LEMMA OneItem ==
  ASSUME NEW S, NEW x \in S
  PROVE  /\ Tail(<<x>>) = <<>> /\ Head(<<x>>) = x /\ Append(<<>>, x) = <<x>>
         /\ <<x>> \in Seq(S) /\ <<x>>[1] = x /\ <<x>> # <<>> /\ Len(<<x>>) = 1
OBVIOUS

\* No call in progress is told apart from every call.
LEMMA NoCallIsNone == NoCall \notin Calls
<1> SUFFICES ASSUME NoCall \in Calls PROVE FALSE
  BY Zenon
<1>1. DOMAIN NoCall = {"id"}
  BY Zenon DEF NoCall
<1>2. "op" \in DOMAIN NoCall
  BY Zenon DEF Calls
<1> QED BY <1>1, <1>2

\* One connection is set, the others are left alone.
LEMMA WireSet ==
  ASSUME TypeInv, NEW c \in Clients, NEW w \in Wires, wire' = [wire EXCEPT ![c] = w]
  PROVE  wire' \in [Clients -> Wires] /\ wire'[c] = w /\ \A d \in Clients : d # c => wire'[d] = wire[d]
BY Zenon DEF TypeInv

\* The same for one caller.
LEMMA CallerSet ==
  ASSUME TypeInv, NEW c \in Clients, NEW k \in Callers, client' = [client EXCEPT ![c] = k]
  PROVE  client' \in [Clients -> Callers] /\ client'[c] = k /\ \A d \in Clients : d # c => client'[d] = client[d]
BY Zenon DEF TypeInv

\* What runs next: the request on the accepted connection, or the one left
\* behind.
LEMMA IncomingFacts ==
  ASSUME IInv, NEW c \in Clients, Incoming(c) # <<>>
  PROVE  LET q == Head(Incoming(c))
         IN /\ q \in Calls
            /\ \/ /\ wire[c].peer /\ wire[c].request = <<q>> /\ wire[c].orphan = <<>>
                  /\ client[c].call = q /\ q # NoCall /\ wire[c].reply = <<>>
               \/ /\ wire[c].request = <<>> \/ ~wire[c].peer
                  /\ wire[c].orphan # <<>> /\ wire[c].orphan[1] = q
<1>1. /\ wire[c].request \in Seq(Calls) /\ wire[c].orphan \in Seq(Calls) /\ wire[c].peer \in BOOLEAN
      /\ client[c].call \in Calls \cup {NoCall}
  BY Zenon DEF IInv, TypeInv, Wires, Callers
<1>2. Talks(client[c], wire[c])
  BY Zenon DEF IInv, ClientInv
<1>3. CASE wire[c].peer /\ wire[c].request # <<>>
  <2>1. Incoming(c) = <<client[c].call>> /\ client[c].call \in Calls /\ wire[c].request = <<client[c].call>>
    BY <1>1, <1>2, <1>3, Zenon DEF Incoming, Talks
  <2>2. Head(Incoming(c)) = client[c].call
    BY <2>1, OneItem, Zenon
  <2> QED BY <1>2, <1>3, <2>1, <2>2, Zenon DEF Talks
<1>4. CASE ~(wire[c].peer /\ wire[c].request # <<>>)
  <2>1. Incoming(c) = wire[c].orphan
    BY <1>4, Zenon DEF Incoming
  <2> QED BY <1>1, <1>4, <2>1
<1> QED BY <1>3, <1>4, Zenon

\* An answer takes the request from its connection, runs it once more than
\* before and after every earlier call of its client, and its reply, when it
\* is sent, suits the call in progress.
LEMMA Answered ==
  ASSUME IInv, NEW c \in Clients, Incoming(c) # <<>>,
         NEW status \in Statuses, NEW of \in Marks,
         Suits([id |-> Head(Incoming(c)).id, op |-> Head(Incoming(c)).op, status |-> status, of |-> of],
               Head(Incoming(c))),
         Answer(c, status, of), client' = client
  PROVE  /\ ClientInv' /\ CallsInOrder'
         /\ wire' \in [Clients -> Wires]
         /\ log' \in Seq(Clients \X Nat)
<1>0. PICK q : q = Head(Incoming(c))
  BY Zenon
<1>1. PICK reply : reply = [id |-> q.id, op |-> q.op, status |-> status, of |-> of]
  BY Zenon
<1>2. /\ q \in Calls
      /\ \/ /\ wire[c].peer /\ wire[c].request = <<q>> /\ wire[c].orphan = <<>>
            /\ client[c].call = q /\ q # NoCall /\ wire[c].reply = <<>>
         \/ /\ wire[c].request = <<>> \/ ~wire[c].peer
            /\ wire[c].orphan # <<>> /\ wire[c].orphan[1] = q
  BY <1>0, IncomingFacts, Zenon
<1>3. reply \in Replies /\ Suits(reply, q)
  BY <1>0, <1>1, <1>2, Zenon DEF Calls, Replies
<1>4. /\ log' = Append(log, q.id)
      /\ IF wire[c].request = <<>> \/ ~wire[c].peer THEN wire' = [wire EXCEPT ![c].orphan = <<>>]
         ELSE \/ wire' = [wire EXCEPT ![c].request = Tail(@), ![c].reply = Append(@, reply)]
              \/ wire' = [wire EXCEPT ![c].request = Tail(@), ![c].peer = FALSE]
  BY <1>0, <1>1, Zenon DEF Answer
<1>5. /\ client[c].sent \in Nat /\ client[c].call \in Calls \cup {NoCall}
      /\ wire[c] \in Wires /\ client[c] \in Callers
      /\ q.id \in Clients \X Nat /\ log \in Seq(Clients \X Nat)
  BY <1>2, Zenon DEF IInv, TypeInv, Calls, Callers
<1>6. /\ log' \in Seq(Clients \X Nat) /\ Len(log) \in Nat /\ Len(log') = Len(log) + 1
      /\ log'[Len(log) + 1] = q.id /\ \A i \in 1..Len(log) : log'[i] = log[i]
  BY <1>4, <1>5
<1>7. Talks(client[c], wire[c]) /\ Served(client[c]) /\ Numbered(c, client[c], wire[c], log)
  BY Zenon DEF IInv, ClientInv
<1>8. /\ q.id[1] = c /\ q.id[2] \in Nat /\ q.id[2] <= client[c].sent
      /\ \A i \in 1..Len(log) : log[i][1] = c => log[i][2] < q.id[2]
  <2>1. CASE /\ wire[c].request = <<q>> /\ client[c].call = q /\ q # NoCall
    <3>1. q.id = <<c, client[c].sent>> /\ wire[c].request # <<>>
      BY <1>7, <2>1, OneItem, Zenon DEF Numbered
    <3> QED BY <1>5, <1>7, <3>1 DEF Numbered
  <2>2. CASE wire[c].orphan # <<>> /\ wire[c].orphan[1] = q
    BY <1>5, <1>7, <2>2, Zenon DEF Numbered
  <2> QED BY <1>2, <2>1, <2>2, Zenon
<1>9. \A i \in 1..Len(log') : log'[i][1] = c => log'[i][2] \in Nat /\ log'[i][2] <= q.id[2]
  <2> SUFFICES ASSUME NEW i \in 1..Len(log'), log'[i][1] = c
               PROVE  log'[i][2] \in Nat /\ log'[i][2] <= q.id[2]
    BY Zenon
  <2>1. log'[i] \in Clients \X Nat
    BY <1>6
  <2>2. log'[i][2] \in Nat
    BY <2>1, Zenon
  <2>3. CASE i = Len(log) + 1
    BY <1>6, <1>8, <2>3
  <2>4. CASE i # Len(log) + 1
    <3>1. i \in 1..Len(log) /\ log'[i] = log[i]
      BY <1>6, <2>4
    <3> QED BY <1>8, <2>2, <3>1
  <2> QED BY <2>2, <2>3, <2>4, Zenon
<1> DEFINE Kept == /\ wire' \in [Clients -> Wires]
                   /\ \A d \in Clients : d # c => wire'[d] = wire[d]
                   /\ Talks(client[c], wire'[c]) /\ Numbered(c, client[c], wire'[c], log')
<1>10. ASSUME wire[c].peer /\ wire[c].request # <<>> PROVE Kept
  <2>1. /\ wire[c].request = <<q>> /\ wire[c].orphan = <<>> /\ client[c].call = q /\ q # NoCall
        /\ wire[c].reply = <<>>
    BY <1>2, <1>10, Zenon
  <2>2. Tail(<<q>>) = <<>> /\ Append(<<>>, reply) = <<reply>>
    BY OneItem, Zenon
  <2>3. \/ wire' = [wire EXCEPT ![c].request = <<>>, ![c].reply = <<reply>>]
        \/ wire' = [wire EXCEPT ![c].request = <<>>, ![c].peer = FALSE]
    BY <1>4, <1>10, <2>1, <2>2, Zenon DEF IInv, TypeInv
  <2>4. PICK w \in Wires :
          /\ wire' = [wire EXCEPT ![c] = w]
          /\ w.request = <<>> /\ w.orphan = <<>>
          /\ w.reply \in {<<>>, <<reply>>} /\ (w.peer => wire[c].peer)
    <3>1. <<>> \in Seq(Calls) /\ <<reply>> \in Seq(Replies)
      BY <1>3
    <3>2. CASE wire' = [wire EXCEPT ![c].request = <<>>, ![c].reply = <<reply>>]
      <4> DEFINE w == [wire[c] EXCEPT !.request = <<>>, !.reply = <<reply>>]
      <4>1. w \in Wires /\ w.request = <<>> /\ w.orphan = <<>> /\ w.reply = <<reply>> /\ w.peer = wire[c].peer
        BY <1>5, <2>1, <3>1, Zenon DEF Wires
      <4>2. wire' = [wire EXCEPT ![c] = w]
        BY <3>2, Zenon
      <4> QED BY <4>1, <4>2, Zenon
    <3>3. CASE wire' = [wire EXCEPT ![c].request = <<>>, ![c].peer = FALSE]
      <4> DEFINE w == [wire[c] EXCEPT !.request = <<>>, !.peer = FALSE]
      <4>1. w \in Wires /\ w.request = <<>> /\ w.orphan = <<>> /\ w.reply = <<>> /\ w.peer = FALSE
        BY <1>5, <2>1, <3>1, Zenon DEF Wires
      <4>2. wire' = [wire EXCEPT ![c] = w]
        BY <3>3, Zenon
      <4> QED BY <4>1, <4>2, Zenon
    <3> QED BY <2>3, <3>2, <3>3, Zenon
  <2>5. /\ wire' \in [Clients -> Wires] /\ \A d \in Clients : d # c => wire'[d] = wire[d]
        /\ wire'[c] = w
    BY <2>4, WireSet, Zenon DEF IInv
  <2>6. Talks(client[c], wire'[c])
    BY <1>3, <1>7, <2>1, <2>4, <2>5, Zenon DEF Talks
  <2>7. Numbered(c, client[c], wire'[c], log')
    BY <1>5, <1>7, <1>8, <1>9, <2>4, <2>5 DEF Numbered
  <2> QED BY <2>5, <2>6, <2>7, Zenon
<1>11. ASSUME ~(wire[c].peer /\ wire[c].request # <<>>) PROVE Kept
  <2>1. wire' = [wire EXCEPT ![c].orphan = <<>>]
    BY <1>4, <1>5, <1>11, Zenon
  <2>2. wire[c].orphan # <<>> /\ wire[c].orphan[1] = q
    BY <1>2, <1>11
  <2> DEFINE w == [wire[c] EXCEPT !.orphan = <<>>]
  <2>3. /\ w \in Wires /\ w.request = wire[c].request /\ w.orphan = <<>>
        /\ w.reply = wire[c].reply /\ w.peer = wire[c].peer
    <3>1. <<>> \in Seq(Calls)
      OBVIOUS
    <3> QED BY <1>5, <3>1, Zenon DEF Wires
  <2>4. /\ wire' \in [Clients -> Wires] /\ \A d \in Clients : d # c => wire'[d] = wire[d]
        /\ wire'[c] = w
    <3>1. wire' = [wire EXCEPT ![c] = w]
      BY <2>1, Zenon
    <3> HIDE DEF w
    <3> QED BY <2>3, <3>1, WireSet, Zenon DEF IInv
  <2> HIDE DEF w
  <2>5. Talks(client[c], wire'[c])
    BY <1>7, <2>3, <2>4, Zenon DEF Talks
  <2>6. Numbered(c, client[c], wire'[c], log')
    BY <1>5, <1>7, <1>8, <1>9, <2>2, <2>3, <2>4 DEF Numbered
  <2> QED BY <2>4, <2>5, <2>6, Zenon
<1>12. Kept
  BY <1>10, <1>11, Zenon
<1>13. ASSUME NEW d \in Clients
       PROVE  Talks(client[d], wire'[d]) /\ Served(client[d]) /\ Numbered(d, client[d], wire'[d], log')
  <2>1. CASE d = c
    BY <1>7, <1>12, <2>1, Zenon
  <2>2. CASE d # c
    <3>1. Talks(client[d], wire[d]) /\ Served(client[d]) /\ Numbered(d, client[d], wire[d], log)
      BY Zenon DEF IInv, ClientInv
    <3>2. \A i \in 1..Len(log') : log'[i][1] = d => i \in 1..Len(log) /\ log'[i] = log[i]
      BY <1>6, <1>8, <2>2
    <3>3. wire'[d] = wire[d]
      BY <1>12, <2>2, Zenon
    <3>4. Numbered(d, client[d], wire[d], log')
      BY <3>1, <3>2, Zenon DEF Numbered
    <3> QED BY <3>1, <3>3, <3>4, Zenon
  <2> QED BY <2>1, <2>2, Zenon
<1>14. ClientInv'
  BY <1>13, Zenon DEF ClientInv
<1>15. CallsInOrder'
  <2> SUFFICES ASSUME NEW i \in 1..Len(log'), NEW j \in 1..Len(log'), i < j, log'[i][1] = log'[j][1]
               PROVE  log'[i][2] < log'[j][2]
    <3>1. DOMAIN log' = 1..Len(log')
      BY <1>6
    <3> QED BY <3>1, Zenon DEF CallsInOrder
  <2>1. i \in 1..Len(log) /\ log'[i] = log[i]
    BY <1>6
  <2>2. CASE j = Len(log) + 1
    BY <1>6, <1>8, <2>1, <2>2, Zenon
  <2>3. CASE j # Len(log) + 1
    <3>1. j \in 1..Len(log)
      BY <1>6, <2>3
    <3>3. log'[j] = log[j]
      BY <1>6, <3>1
    <3>2. DOMAIN log = 1..Len(log)
      BY <1>5
    <3> QED BY <2>1, <3>1, <3>2, <3>3, Zenon DEF IInv, CallsInOrder
  <2> QED BY <2>2, <2>3, Zenon
<1> QED BY <1>6, <1>12, <1>14, <1>15, Zenon

-----------------------------------------------------------------------------
(* Steps of a client: one caller and its connection change.                *)

LEMMA CallerStep ==
  ASSUME IInv, NEW c \in Clients, NEW k \in Callers, NEW w \in Wires,
         client' = [client EXCEPT ![c] = k], wire' = [wire EXCEPT ![c] = w],
         UNCHANGED <<server, capture, archive, log>>,
         Talks(k, w), Served(k), Numbered(c, k, w, log),
         \A q \in Readings : server.reading = <<q>> /\ q.client = c /\ Incoming(c) # <<>>
                               => Incoming(c)' = Incoming(c)
  PROVE  IInv'
<1>1. /\ wire' \in [Clients -> Wires] /\ wire'[c] = w /\ \A d \in Clients : d # c => wire'[d] = wire[d]
      /\ client' \in [Clients -> Callers] /\ client'[c] = k
      /\ \A d \in Clients : d # c => client'[d] = client[d]
  BY WireSet, CallerSet, Zenon DEF IInv
<1>2. TypeInv'
  BY <1>1, Zenon DEF IInv, TypeInv
<1>3. ClientInv'
  BY <1>1, Zenon DEF IInv, ClientInv
<1>4. ReadInv'
  <2> SUFFICES ASSUME server.reading # <<>> PROVE ReadInv'
    BY Zenon DEF ReadInv
  <2>1. PICK q \in Readings :
          /\ server.reading = <<q>>
          /\ Incoming(q.client) # <<>> /\ Head(Incoming(q.client)).op = "sources"
          /\ q.cut <= archive
          /\ q.from # 0 => q.cut <= q.from /\ q.from <= archive
    BY Zenon DEF IInv, ReadInv
  <2>2. q.client \in Clients
    BY Zenon DEF Readings
  <2>3. Incoming(q.client)' = Incoming(q.client)
    <3>1. CASE q.client = c
      BY <2>1, <3>1, Zenon
    <3>2. CASE q.client # c
      BY <1>1, <2>2, <3>2, Zenon DEF Incoming
    <3> QED BY <3>1, <3>2, Zenon
  <2> QED BY <2>1, <2>3, Zenon DEF ReadInv
<1>5. CallsInOrder' /\ StopInv' /\ ConfigIsSelection'
  BY Zenon DEF IInv, CallsInOrder, StopInv, ConfigIsSelection
<1> QED BY <1>2, <1>3, <1>4, <1>5, Zenon DEF IInv

LEMMA OfClient ==
  ASSUME IInv, NEW c \in Clients
  PROVE  /\ client[c] \in Callers /\ wire[c] \in Wires
         /\ Talks(client[c], wire[c]) /\ Served(client[c]) /\ Numbered(c, client[c], wire[c], log)
         /\ log \in Seq(Clients \X Nat) /\ Len(log) \in Nat
         /\ \A i \in 1..Len(log) : log[i][2] \in Nat
<1>1. log \in Seq(Clients \X Nat)
  BY Zenon DEF IInv, TypeInv
<1>2. \A i \in 1..Len(log) : log[i] \in Clients \X Nat
  BY <1>1
<1>3. \A i \in 1..Len(log) : log[i][2] \in Nat
  BY <1>2, Zenon
<1> QED BY <1>1, <1>3 DEF IInv, TypeInv, ClientInv

\* A closed connection has nothing on it, so that a new one starts empty.
LEMMA ConnectStep ==
  ASSUME IInv, NEW c \in Clients, Connect(c)
  PROVE  IInv'
<1> DEFINE k == [client[c] EXCEPT !.open = TRUE]
           w == [NoWire EXCEPT !.orphan = wire[c].orphan]
<1>1. client' = [client EXCEPT ![c] = k] /\ wire' = [wire EXCEPT ![c] = w]
  BY Zenon DEF Connect
<1>2. /\ k \in Callers /\ k.open /\ k.call = client[c].call /\ k.sent = client[c].sent
      /\ k.mixed = client[c].mixed /\ k.torn = client[c].torn /\ k.misread = client[c].misread
  BY OfClient, Zenon DEF Callers
<1>3. /\ w.request = <<>> /\ w.reply = <<>> /\ w.peer = FALSE /\ w.orphan = wire[c].orphan
      /\ w \in Wires
  <2>1. <<>> \in Seq(Calls) /\ <<>> \in Seq(Replies) /\ wire[c].orphan \in Seq(Calls)
    BY OfClient DEF Wires
  <2> QED BY <2>1, Zenon DEF NoWire, Wires
<1>4. ~client[c].open /\ UNCHANGED <<server, capture, archive, log>>
  BY Zenon DEF Connect
<1>5. Incoming(c)' = Incoming(c)
  <2>1. ~wire[c].peer
    BY <1>4, OfClient, Zenon DEF Talks
  <2>2. wire'[c] = w
    BY <1>1, <1>3, WireSet, Zenon DEF IInv
  <2> HIDE DEF w
  <2> QED BY <1>3, <2>1, <2>2, Zenon DEF Incoming
<1> HIDE DEF k, w
<1>6. Talks(k, w) /\ Served(k)
  BY <1>2, <1>3, <1>4, OfClient DEF Talks, Served
<1>7. Numbered(c, k, w, log)
  BY <1>2, <1>3, OfClient, Zenon DEF Numbered
<1> QED BY <1>1, <1>2, <1>3, <1>4, <1>5, <1>6, <1>7, CallerStep, Zenon

\* A call is sent only when none is in progress, with the next number.
LEMMA SendStep ==
  ASSUME IInv, NEW c \in Clients, NEW op \in Operations, NEW config \in Configs,
         NEW generation, Send(c, op, config, generation)
  PROVE  IInv'
<1>1. PICK q : q = Request(c, op, config, generation)
  BY Zenon
<1>2. /\ client[c].open /\ client[c].call = NoCall
      /\ client' = [client EXCEPT ![c].call = q, ![c].sent = @ + 1]
      /\ wire' = [wire EXCEPT ![c].request = Append(@, q)]
      /\ UNCHANGED <<server, capture, archive, log>>
  BY <1>1, Zenon DEF Send
<1>3. /\ client[c].sent \in Nat /\ client[c].known \in Marks /\ wire[c].orphan \in Seq(Calls)
  BY OfClient, Zenon DEF Callers, Wires
<1>4. q \in Calls /\ q.id = <<c, client[c].sent + 1>>
  <2>1. generation \in {0, client[c].known.cut} /\ client[c].known.cut \in Nat
    BY <1>3, Zenon DEF Send, Marks
  <2>2. generation \in Nat
    BY <2>1
  <2> QED BY <1>1, <1>3, <2>2 DEF Request, Calls
<1>5. q # NoCall
  BY <1>4, NoCallIsNone, Zenon
<1>6. wire[c].request = <<>> /\ wire[c].reply = <<>>
  BY <1>2, OfClient, Zenon DEF Talks
<1> DEFINE k == [client[c] EXCEPT !.call = q, !.sent = @ + 1]
           w == [wire[c] EXCEPT !.request = <<q>>]
<1>7. client' = [client EXCEPT ![c] = k] /\ wire' = [wire EXCEPT ![c] = w]
  BY <1>2, <1>4, <1>6, OneItem, Zenon
<1>8. /\ k \in Callers /\ k.open = client[c].open /\ k.call = q /\ k.sent = client[c].sent + 1
      /\ k.mixed = client[c].mixed /\ k.torn = client[c].torn /\ k.misread = client[c].misread
  <2>1. client[c].sent + 1 \in Nat /\ q \in Calls \cup {NoCall}
    BY <1>3, <1>4
  <2> QED BY <2>1, OfClient, Zenon DEF Callers
<1>9. /\ w.request = <<q>> /\ w.reply = <<>> /\ w.peer = wire[c].peer /\ w.orphan = wire[c].orphan
      /\ w \in Wires
  <2>1. <<q>> \in Seq(Calls)
    BY <1>4
  <2> QED BY <1>6, <2>1, OfClient, Zenon DEF Wires
<1>10. Incoming(c) # <<>> => Incoming(c)' = Incoming(c)
  <2>1. Incoming(c) = wire[c].orphan /\ (wire[c].peer => wire[c].orphan = <<>>)
    BY <1>6, OfClient, Zenon DEF Incoming, Talks
  <2>2. wire'[c] = w
    BY <1>7, <1>9, WireSet, Zenon DEF IInv
  <2> HIDE DEF w
  <2> QED BY <1>9, <2>1, <2>2, Zenon DEF Incoming
<1> HIDE DEF k, w
<1>11. Talks(k, w) /\ Served(k)
  BY <1>2, <1>4, <1>5, <1>8, <1>9, OfClient DEF Talks, Served
<1>12. Numbered(c, k, w, log)
  <2>1. Numbered(c, client[c], wire[c], log)
    BY OfClient, Zenon
  <2>2. w.orphan # <<>> => w.orphan[1].id[2] \in Nat
    <3>1. wire[c].orphan # <<>> => wire[c].orphan[1] \in Calls
      BY <1>3
    <3>2. \A x \in Calls : x.id \in Clients \X Nat
      BY Zenon DEF Calls
    <3>3. \A x \in Calls : x.id[2] \in Nat
      BY <3>2, Zenon
    <3> QED BY <1>9, <3>1, <3>3, Zenon
  <2>3. \A i \in 1..Len(log) : log[i][1] = c =>
          /\ log[i][2] < client[c].sent + 1
          /\ w.orphan # <<>> => log[i][2] < w.orphan[1].id[2]
    BY <1>3, <1>9, <2>1, OfClient DEF Numbered
  <2>4. w.orphan # <<>> => w.orphan[1].id[1] = c /\ w.orphan[1].id[2] < client[c].sent + 1
    <3>1. w.orphan # <<>> => w.orphan[1].id[1] = c /\ w.orphan[1].id[2] <= client[c].sent
      BY <1>9, <2>1, Zenon DEF Numbered
    <3> QED BY <1>3, <2>2, <3>1
  <2> QED BY <1>3, <1>4, <1>8, <2>2, <2>3, <2>4, OfClient DEF Numbered
<1> QED BY <1>2, <1>7, <1>8, <1>9, <1>10, <1>11, <1>12, CallerStep, Zenon

\* A reply received is the one of the call in progress.
LEMMA ReceiveStep ==
  ASSUME IInv, NEW c \in Clients, Receive(c)
  PROVE  IInv'
<1>1. client[c].call # NoCall /\ wire[c].reply # <<>> /\ UNCHANGED <<server, capture, archive, log>>
  BY Zenon DEF Receive
<1>2. PICK r \in Replies : wire[c].reply = <<r>> /\ Suits(r, client[c].call)
  BY <1>1, OfClient, Zenon DEF Talks
<1>3. Head(wire[c].reply) = r /\ Tail(wire[c].reply) = <<>> /\ r.of \in Marks
  BY <1>2, OneItem, Zenon DEF Replies
<1>4. client[c].call \in Calls /\ client[c].known \in Marks /\ client[c].open
      /\ ~client[c].mixed /\ ~client[c].torn /\ ~client[c].misread /\ wire[c].request = <<>>
  BY <1>1, OfClient, Zenon DEF Callers, Talks, Served
<1>5. r.op = client[c].call.op /\ r.id = client[c].call.id /\ ~OtherNumber(client[c].call, r)
      /\ ~(r.op = "sources" /\ r.of.from # r.of.cut /\ r.status = "ok")
  BY <1>2, Zenon DEF Suits, OtherNumber
<1> DEFINE open == r.op = client[c].call.op
           mixed == client[c].mixed \/ (open /\ r.id # client[c].call.id)
           torn == client[c].torn \/ (open /\ r.op = "sources" /\ r.of.from # r.of.cut /\ r.status = "ok")
           misread == client[c].misread \/ (open /\ OtherNumber(client[c].call, r))
           stray == client[c].stray \/ (open /\ OtherSession(client[c].call, r, client[c].known))
           known == IF open /\ TellsCut(r) THEN r.of ELSE client[c].known
           k == [client[c] EXCEPT !.open = open, !.call = NoCall, !.mixed = mixed, !.torn = torn,
                                  !.misread = misread, !.stray = stray, !.known = known]
           w == [wire[c] EXCEPT !.reply = <<>>]
<1>6. client' = [client EXCEPT ![c] = k] /\ wire' = [wire EXCEPT ![c] = w]
  <2>1. client' = [client EXCEPT ![c].open = open, ![c].call = NoCall, ![c].mixed = mixed,
                     ![c].torn = torn, ![c].misread = misread, ![c].stray = stray, ![c].known = known]
    BY <1>3, Zenon DEF Receive, IInv, TypeInv, Callers
  <2>2. wire' = [wire EXCEPT ![c] = w]
    BY <1>3, Zenon DEF Receive
  <2> HIDE DEF open, mixed, torn, misread, stray, known
  <2> QED BY <2>1, <2>2, Zenon
<1>7. /\ k \in Callers /\ k.open /\ k.call = NoCall /\ k.sent = client[c].sent
      /\ ~k.mixed /\ ~k.torn /\ ~k.misread
  <2>1. open = TRUE /\ mixed = FALSE /\ torn = FALSE /\ misread = FALSE
    BY <1>4, <1>5, Zenon
  <2>2. stray \in BOOLEAN
    BY Zenon
  <2>3. known \in Marks
    BY <1>3, <1>4, Zenon
  <2> HIDE DEF open, mixed, torn, misread, stray, known
  <2>4. client[c] \in Callers
    BY OfClient, Zenon
  <2>5. k \in Callers
    BY <2>1, <2>2, <2>3, <2>4, Zenon DEF Callers
  <2>6. /\ k.open = open /\ k.call = NoCall /\ k.sent = client[c].sent
        /\ k.mixed = mixed /\ k.torn = torn /\ k.misread = misread
    BY <2>4, Zenon DEF Callers
  <2> HIDE DEF k
  <2> QED BY <2>1, <2>5, <2>6, Zenon
<1>8. /\ w \in Wires /\ w.request = <<>> /\ w.reply = <<>> /\ w.peer = wire[c].peer
      /\ w.orphan = wire[c].orphan
  <2>1. <<>> \in Seq(Replies)
    OBVIOUS
  <2> QED BY <1>4, <2>1, OfClient, Zenon DEF Wires
<1>9. Incoming(c)' = Incoming(c)
  <2>1. wire'[c] = w
    BY <1>6, <1>8, WireSet, Zenon DEF IInv
  <2> HIDE DEF w
  <2> QED BY <1>4, <1>8, <2>1, Zenon DEF Incoming
<1> HIDE DEF k, w
<1>11. Talks(k, w) /\ Served(k)
  BY <1>4, <1>7, <1>8, OfClient, Zenon DEF Talks, Served
<1>12. Numbered(c, k, w, log)
  BY <1>4, <1>7, <1>8, OfClient, Zenon DEF Numbered
<1> QED BY <1>1, <1>6, <1>7, <1>8, <1>9, <1>11, <1>12, CallerStep, Zenon

\* A call given up leaves its request behind when poll() has seen it, and
\* nothing else.
LEMMA TimeoutStep ==
  ASSUME IInv, NEW c \in Clients, Timeout(c)
  PROVE  IInv'
<1>1. /\ client[c].call # NoCall /\ UNCHANGED <<server, capture, archive, log>>
      /\ client' = [client EXCEPT ![c].open = FALSE, ![c].call = NoCall]
  BY Zenon DEF Timeout
<1>2. PICK dropped \in BOOLEAN :
        /\ \A i \in DOMAIN server.reading : server.reading[i].client = c => ~dropped
        /\ wire' = [wire EXCEPT ![c] = [NoWire EXCEPT !.orphan =
                        IF wire[c].peer /\ ~dropped THEN wire[c].request ELSE wire[c].orphan]]
  BY Zenon DEF Timeout
<1>3. PICK left : left = IF wire[c].peer /\ ~dropped THEN wire[c].request ELSE wire[c].orphan
  BY Zenon
<1> DEFINE k == [client[c] EXCEPT !.open = FALSE, !.call = NoCall]
           w == [NoWire EXCEPT !.orphan = left]
<1>4. client' = [client EXCEPT ![c] = k] /\ wire' = [wire EXCEPT ![c] = w]
  BY <1>1, <1>2, <1>3, Zenon
<1>5. /\ k \in Callers /\ k.open = FALSE /\ k.call = NoCall /\ k.sent = client[c].sent
      /\ k.mixed = client[c].mixed /\ k.torn = client[c].torn /\ k.misread = client[c].misread
  BY OfClient, Zenon DEF Callers
<1>6. /\ w.request = <<>> /\ w.reply = <<>> /\ w.peer = FALSE /\ w.orphan = left /\ w \in Wires
      /\ left \in Seq(Calls)
  <2>1. <<>> \in Seq(Calls) /\ <<>> \in Seq(Replies) /\ left \in Seq(Calls)
    BY <1>3, OfClient DEF Wires
  <2> QED BY <2>1, Zenon DEF NoWire, Wires
<1>7. ASSUME NEW q \in Readings, server.reading = <<q>>, q.client = c, Incoming(c) # <<>>
      PROVE  Incoming(c)' = Incoming(c)
  <2>1. ~dropped
    <3>1. 1 \in DOMAIN server.reading /\ server.reading[1] = q
      BY <1>7
    <3> QED BY <1>2, <1>7, <3>1, Zenon
  <2>2. wire[c].peer => wire[c].orphan = <<>>
    BY OfClient, Zenon DEF Talks
  <2>3. left = Incoming(c)
    BY <1>3, <1>7, <2>1, <2>2, Zenon DEF Incoming
  <2>4. wire'[c] = w
    BY <1>4, <1>6, WireSet, Zenon DEF IInv
  <2> HIDE DEF w
  <2> QED BY <1>6, <2>3, <2>4, Zenon DEF Incoming
<1> HIDE DEF k, w
<1>8. Talks(k, w) /\ Served(k)
  BY <1>5, <1>6, OfClient, Zenon DEF Talks, Served
<1>9. Numbered(c, k, w, log)
  <2>1. Talks(client[c], wire[c]) /\ Numbered(c, client[c], wire[c], log)
    BY OfClient, Zenon
  <2>2. CASE left = wire[c].orphan
    BY <1>5, <1>6, <2>1, <2>2, Zenon DEF Numbered
  <2>3. CASE left = wire[c].request /\ left # <<>>
    <3>1. left = <<client[c].call>> /\ client[c].call.id = <<c, client[c].sent>> /\ wire[c].request # <<>>
      BY <1>1, <2>1, <2>3, Zenon DEF Talks, Numbered
    <3>2. left[1].id[1] = c /\ left[1].id[2] = client[c].sent /\ client[c].sent \in Nat
      BY <3>1, OfClient DEF Callers
    <3> QED BY <1>5, <1>6, <2>1, <3>1, <3>2 DEF Numbered
  <2>4. CASE left = <<>>
    BY <1>5, <1>6, <2>1, <2>4, Zenon DEF Numbered
  <2> QED BY <1>3, <2>2, <2>3, <2>4, Zenon
<1> QED BY <1>1, <1>4, <1>5, <1>6, <1>7, <1>8, <1>9, CallerStep, Zenon

\* A connection is accepted when no request was left behind.
LEMMA AcceptStep ==
  ASSUME IInv, NEW c \in Clients, Accept(c)
  PROVE  IInv'
<1>1. /\ server.reading = <<>> /\ client[c].open /\ ~wire[c].peer /\ wire[c].orphan = <<>>
      /\ UNCHANGED <<client, server, capture, archive, log>>
  BY Zenon DEF Accept
<1> DEFINE w == [wire[c] EXCEPT !.peer = TRUE]
<1>2. client' = [client EXCEPT ![c] = client[c]] /\ wire' = [wire EXCEPT ![c] = w]
  BY <1>1, Zenon DEF Accept, IInv, TypeInv
<1>3. /\ w \in Wires /\ w.peer = TRUE /\ w.request = wire[c].request /\ w.reply = wire[c].reply
      /\ w.orphan = wire[c].orphan
  BY OfClient, Zenon DEF Wires
<1> HIDE DEF w
<1>4. Talks(client[c], w)
  BY <1>1, <1>3, OfClient, Zenon DEF Talks
<1>5. Numbered(c, client[c], w, log)
  BY <1>1, <1>3, OfClient, Zenon DEF Numbered
<1>6. \A q : server.reading # <<q>>
  BY <1>1
<1> QED BY <1>1, <1>2, <1>3, <1>4, <1>5, <1>6, OfClient, CallerStep, Zenon

-----------------------------------------------------------------------------
(* Steps of the server.                                                    *)

\* A request that is answered while no catalogue is read: what remains to be
\* shown is about the server and the capture only.
LEMMA AnswerStep ==
  ASSUME IInv, NEW c \in Clients, Incoming(c) # <<>>,
         NEW status \in Statuses, NEW of \in Marks,
         Suits([id |-> Head(Incoming(c)).id, op |-> Head(Incoming(c)).op, status |-> status, of |-> of],
               Head(Incoming(c))),
         Answer(c, status, of), UNCHANGED <<client, archive>>,
         server' \in Servers, server'.reading = <<>>, capture' \in Captures,
         StopInv', ConfigIsSelection'
  PROVE  IInv'
<1>1. /\ ClientInv' /\ CallsInOrder' /\ wire' \in [Clients -> Wires] /\ log' \in Seq(Clients \X Nat)
  BY Answered, Zenon
<1>2. TypeInv'
  BY <1>1, Zenon DEF IInv, TypeInv
<1>3. ReadInv'
  BY Zenon DEF ReadInv
<1> QED BY <1>1, <1>2, <1>3, Zenon DEF IInv

\* Reaping a finished stop changes nothing else, and leaves a stop that runs.
LEMMA ReapedFacts ==
  ASSUME IInv
  PROVE  /\ server \in Servers /\ capture \in Captures
         /\ Reaped \in Servers /\ Reaped.config = server.config /\ Reaped.complete = server.complete
         /\ Reaped.target = server.target /\ Reaped.reading = server.reading
         /\ ~server.complete => Reaped.stopping
<1>1. server \in Servers /\ capture \in Captures
  BY Zenon DEF IInv, TypeInv
<1>2. CASE server.stopping /\ server.complete
  <2>1. Reaped = [server EXCEPT !.stopping = FALSE]
    BY <1>2, Zenon DEF Reaped
  <2> QED BY <1>1, <1>2, <2>1, Zenon DEF Servers
<1>3. CASE ~(server.stopping /\ server.complete)
  BY <1>1, <1>3, Zenon DEF Reaped, IInv, StopInv
<1> QED BY <1>2, <1>3, Zenon

LEMMA PlainMark == Plain \in Marks /\ Plain.session = 0 /\ Plain.cut = 0 /\ Plain.from = 0
BY Zenon DEF Plain, Marks

\* A reply to another operation than a read suits any request.
LEMMA PlainSuits ==
  ASSUME NEW q, q.op # "block", q.op # "sources", NEW status, NEW of
  PROVE  Suits([id |-> q.id, op |-> q.op, status |-> status, of |-> of], q)
BY Zenon DEF Suits, TellsCut

LEMMA ConfigureStep ==
  ASSUME IInv, NEW c \in Clients, Configure(c)
  PROVE  IInv'
<1>1. PICK q : q = Head(Incoming(c))
  BY Zenon
<1>2. Incoming(c) # <<>> /\ q.op = "configure" /\ server.reading = <<>>
  BY <1>1, Zenon DEF Configure, Pending
<1>3. q.config \in Configs \cup {NoConfig}
  BY <1>1, <1>2, IncomingFacts, Zenon DEF Calls
<1>4. PICK good \in BOOLEAN :
        /\ good => ~Reaped.stopping
        /\ server' = IF good THEN [Reaped EXCEPT !.config = q.config] ELSE Reaped
        /\ capture' = IF good /\ capture.active
                      THEN [capture EXCEPT !.selection = q.config] ELSE capture
        /\ Answer(c, IF good THEN "ok" ELSE "refused", Plain)
        /\ UNCHANGED <<client, archive>>
  BY <1>1, Zenon DEF Configure
<1>5. /\ server' \in Servers /\ server'.reading = <<>> /\ capture' \in Captures
      /\ server'.complete = server.complete /\ server'.target = server.target
      /\ ~server.complete => server'.stopping
      /\ capture'.session = capture.session /\ capture'.misled = capture.misled
      /\ capture'.active = capture.active
      /\ server'.config = IF good THEN q.config ELSE server.config
      /\ capture'.selection = IF good /\ capture.active THEN q.config ELSE capture.selection
  <2>1. CASE good
    BY <1>2, <1>3, <1>4, <2>1, ReapedFacts, Zenon DEF Servers, Captures
  <2>2. CASE ~good
    BY <1>2, <1>4, <2>2, ReapedFacts, Zenon
  <2> QED BY <2>1, <2>2, Zenon
<1>6. StopInv' /\ ConfigIsSelection'
  BY <1>5, Zenon DEF IInv, StopInv, ConfigIsSelection
<1>7. (IF good THEN "ok" ELSE "refused") \in Statuses
  BY Zenon DEF Statuses
<1> QED BY <1>1, <1>2, <1>4, <1>5, <1>6, <1>7, PlainMark, PlainSuits, AnswerStep, Zenon

LEMMA StartStep ==
  ASSUME IInv, NEW c \in Clients, Start(c)
  PROVE  IInv'
<1>1. PICK q : q = Head(Incoming(c))
  BY Zenon
<1>2. Incoming(c) # <<>> /\ q.op = "start" /\ server.reading = <<>>
  BY <1>1, Zenon DEF Start, Pending
<1>3. PICK started \in {MayStart(Reaped), FALSE} :
        /\ server' = Reaped
        /\ capture' = IF started
                      THEN [capture EXCEPT !.session = @ + 1, !.active = TRUE, !.parser = TRUE,
                              !.selection = Reaped.config, !.cut = 0, !.retained = TRUE]
                      ELSE capture
        /\ Answer(c, IF started THEN "ok" ELSE "refused", Plain)
        /\ UNCHANGED <<client, archive>>
  BY Zenon DEF Start
<1>4. started => ~Reaped.stopping
  BY <1>3, Zenon DEF MayStart
<1>5. /\ capture' \in Captures /\ capture'.misled = capture.misled
      /\ ~started => capture' = capture
      /\ started => capture'.selection = Reaped.config
  <2>1. CASE started
    <3>1. capture.session + 1 \in Nat /\ Reaped.config \in Configs \cup {NoConfig}
      BY ReapedFacts DEF Servers, Captures
    <3>2. capture' = [capture EXCEPT !.session = capture.session + 1, !.active = TRUE, !.parser = TRUE,
                        !.selection = Reaped.config, !.cut = 0, !.retained = TRUE]
      BY <1>3, <2>1, Zenon
    <3>3. PICK config : config = Reaped.config
      BY Zenon
    <3>4. capture \in Captures /\ config \in Configs \cup {NoConfig}
      BY <3>1, <3>3, ReapedFacts, Zenon
    <3>5. capture' \in Captures
      BY <3>1, <3>2, <3>3, <3>4, Zenon DEF Captures
    <3>6. capture'.misled = capture.misled /\ capture'.selection = config
      BY <3>2, <3>3, <3>4, Zenon DEF Captures
    <3> QED BY <2>1, <3>3, <3>5, <3>6, Zenon
  <2>2. CASE ~started
    BY <1>3, <2>2, ReapedFacts, Zenon
  <2> QED BY <2>1, <2>2, Zenon
<1>6. StopInv' /\ ConfigIsSelection'
  BY <1>3, <1>4, <1>5, ReapedFacts, Zenon DEF IInv, StopInv, ConfigIsSelection
<1>7. (IF started THEN "ok" ELSE "refused") \in Statuses
  BY Zenon DEF Statuses
<1> QED BY <1>1, <1>2, <1>3, <1>5, <1>6, <1>7, ReapedFacts, PlainMark, PlainSuits, AnswerStep, Zenon

LEMMA StopStep ==
  ASSUME IInv, NEW c \in Clients, Stop(c)
  PROVE  IInv'
<1>1. PICK q : q = Head(Incoming(c))
  BY Zenon
<1>2. Incoming(c) # <<>> /\ q.op = "stop" /\ server.reading = <<>>
  BY <1>1, Zenon DEF Stop, Pending
<1>3. server' = Stopping(Reaped) /\ Answer(c, "ok", Plain) /\ UNCHANGED <<client, capture, archive>>
  BY Zenon DEF Stop
<1>4. /\ server' \in Servers /\ server'.reading = <<>> /\ server'.config = server.config
      /\ ~server'.complete => server'.stopping /\ server'.target = capture.session
  <2>1. CASE Reaped.stopping
    BY <1>2, <1>3, <2>1, ReapedFacts, Zenon DEF Stopping, IInv, StopInv
  <2>2. CASE ~Reaped.stopping
    <3>1. server' = [Reaped EXCEPT !.stopping = TRUE, !.complete = FALSE, !.target = capture.session]
      BY <1>3, <2>2, Zenon DEF Stopping
    <3> QED BY <1>2, <3>1, ReapedFacts, Zenon DEF Servers, Captures
  <2> QED BY <2>1, <2>2, Zenon
<1>5. StopInv' /\ ConfigIsSelection'
  BY <1>3, <1>4, Zenon DEF IInv, StopInv, ConfigIsSelection
<1>6. "ok" \in Statuses
  BY Zenon DEF Statuses
<1> QED BY <1>1, <1>2, <1>3, <1>4, <1>5, <1>6, ReapedFacts, PlainMark, PlainSuits, AnswerStep, Zenon

\* A block is of a cut with the generation that was asked for.
LEMMA BlockStep ==
  ASSUME IInv, NEW c \in Clients, Block(c)
  PROVE  IInv'
<1>1. PICK q : q = Head(Incoming(c))
  BY Zenon
<1>2. Incoming(c) # <<>> /\ q.op = "block" /\ server.reading = <<>>
  BY <1>1, Zenon DEF Block, Pending
<1> DEFINE of == [Plain EXCEPT !.session = capture.session, !.cut = capture.cut]
<1>3. PICK status \in Statuses :
        /\ status # "refused" => q.generation \in {0, capture.cut}
        /\ Answer(c, status, of) /\ UNCHANGED <<client, server, capture, archive>>
  BY <1>1, Zenon DEF Block, Statuses
<1>4. of \in Marks /\ of.cut = capture.cut
  BY ReapedFacts, PlainMark, Zenon DEF Marks, Captures
<1> HIDE DEF of
<1>5. Suits([id |-> q.id, op |-> q.op, status |-> status, of |-> of], q)
  BY <1>2, <1>3, <1>4, Zenon DEF Suits, TellsCut
<1>6. StopInv' /\ ConfigIsSelection'
  BY <1>3, Zenon DEF IInv, StopInv, ConfigIsSelection
<1> QED BY <1>1, <1>2, <1>3, <1>4, <1>5, <1>6, ReapedFacts, AnswerStep, Zenon

LEMMA SourcesBeginStep ==
  ASSUME IInv, NEW c \in Clients, SourcesBegin(c)
  PROVE  IInv'
<1>1. /\ Incoming(c) # <<>> /\ Head(Incoming(c)).op = "sources"
      /\ UNCHANGED <<client, wire, capture, archive, log>>
  BY Zenon DEF SourcesBegin, Pending
<1>2. PICK q : q = [client |-> c, cut |-> archive, from |-> 0]
  BY Zenon
<1>3. q \in Readings /\ q.client = c /\ q.cut = archive /\ q.from = 0 /\ archive \in Nat
  BY <1>2, Zenon DEF Readings, IInv, TypeInv
<1>4. server' = [server EXCEPT !.reading = <<q>>]
  BY <1>2, Zenon DEF SourcesBegin
<1>5. /\ server' \in Servers /\ server'.reading = <<q>> /\ server'.complete = server.complete
      /\ server'.stopping = server.stopping /\ server'.target = server.target
      /\ server'.config = server.config
  <2>1. <<q>> \in Seq(Readings)
    BY <1>3
  <2> QED BY <1>4, <2>1, ReapedFacts, Zenon DEF Servers
<1>6. TypeInv'
  BY <1>1, <1>5, Zenon DEF IInv, TypeInv
<1>7. Incoming(c)' = Incoming(c)
  BY <1>1, Zenon DEF Incoming
<1>8. ReadInv'
  BY <1>1, <1>3, <1>5, <1>7 DEF ReadInv
<1>9. ClientInv' /\ CallsInOrder' /\ StopInv' /\ ConfigIsSelection'
  BY <1>1, <1>5, Zenon DEF IInv, ClientInv, CallsInOrder, StopInv, ConfigIsSelection
<1> QED BY <1>6, <1>8, <1>9, Zenon DEF IInv

\* The catalogue is read at a generation not before the summary's.
LEMMA SourcesCatalogStep ==
  ASSUME IInv, SourcesCatalog
  PROVE  IInv'
<1>1. server.reading # <<>> /\ UNCHANGED <<client, wire, capture, archive, log>>
  BY Zenon DEF SourcesCatalog
<1>2. PICK q \in Readings :
        /\ server.reading = <<q>>
        /\ Incoming(q.client) # <<>> /\ Head(Incoming(q.client)).op = "sources"
        /\ q.cut <= archive
  BY <1>1, Zenon DEF IInv, ReadInv
<1>3. archive \in Nat
  BY Zenon DEF IInv, TypeInv
<1> DEFINE p == [q EXCEPT !.from = archive]
<1>4. p \in Readings /\ p.client = q.client /\ p.cut = q.cut /\ p.from = archive
  BY <1>3, Zenon DEF Readings
<1>5. server' = [server EXCEPT !.reading = <<p>>]
  <2>1. server' = [server EXCEPT !.reading = [server.reading EXCEPT ![1] = [server.reading[1] EXCEPT !.from = archive]]]
    BY Zenon DEF SourcesCatalog
  <2>2. [<<q>> EXCEPT ![1] = p] = <<p>> /\ <<q>>[1] = q
    OBVIOUS
  <2> QED BY <1>2, <2>1, <2>2, Zenon
<1> HIDE DEF p
<1>6. /\ server' \in Servers /\ server'.reading = <<p>> /\ server'.complete = server.complete
      /\ server'.stopping = server.stopping /\ server'.target = server.target
      /\ server'.config = server.config
  <2>1. <<p>> \in Seq(Readings)
    BY <1>4
  <2> QED BY <1>5, <2>1, ReapedFacts, Zenon DEF Servers
<1>7. TypeInv'
  BY <1>1, <1>6, Zenon DEF IInv, TypeInv
<1>8. Incoming(q.client)' = Incoming(q.client)
  BY <1>1, Zenon DEF Incoming
<1>9. ReadInv'
  BY <1>1, <1>2, <1>3, <1>4, <1>6, <1>8 DEF ReadInv
<1>10. ClientInv' /\ CallsInOrder' /\ StopInv' /\ ConfigIsSelection'
  BY <1>1, <1>6, Zenon DEF IInv, ClientInv, CallsInOrder, StopInv, ConfigIsSelection
<1> QED BY <1>7, <1>9, <1>10, Zenon DEF IInv

\* The catalogue is confirmed when no generation came between its reads.
LEMMA SourcesEndStep ==
  ASSUME IInv, SourcesEnd
  PROVE  IInv'
<1>1. server.reading # <<>> /\ UNCHANGED <<client, capture, archive>>
      /\ server' = [server EXCEPT !.reading = <<>>]
  BY Zenon DEF SourcesEnd
<1>2. PICK q \in Readings :
        /\ server.reading = <<q>>
        /\ Incoming(q.client) # <<>> /\ Head(Incoming(q.client)).op = "sources"
        /\ q.cut <= archive
        /\ q.from # 0 => q.cut <= q.from /\ q.from <= archive
  BY <1>1, Zenon DEF IInv, ReadInv
<1>3. server.reading[1] = q /\ q.client \in Clients /\ q.cut \in Nat /\ q.from \in Nat /\ archive \in Nat
  BY <1>2 DEF Readings, IInv, TypeInv
<1> DEFINE of == [Plain EXCEPT !.cut = q.cut, !.from = q.from]
<1>4. /\ q.from # 0
      /\ Answer(q.client, IF SourcesConfirmed(q) THEN "ok" ELSE "refused", of)
  BY <1>3, Zenon DEF SourcesEnd
<1>5. of \in Marks /\ of.cut = q.cut /\ of.from = q.from
  BY <1>3, PlainMark, Zenon DEF Marks
<1> HIDE DEF of
<1>6. PICK status \in Statuses :
        /\ Answer(q.client, status, of)
        /\ status = "ok" => archive = q.cut
  BY <1>4, Zenon DEF SourcesConfirmed, Statuses
<1>7. PICK r : r = Head(Incoming(q.client))
  BY Zenon
<1>8. Suits([id |-> r.id, op |-> r.op, status |-> status, of |-> of], r)
  <2>1. status = "ok" => of.from = of.cut
    BY <1>2, <1>3, <1>4, <1>5, <1>6
  <2> QED BY <1>2, <1>7, <2>1, Zenon DEF Suits, TellsCut
<1>9. /\ server' \in Servers /\ server'.reading = <<>> /\ server'.complete = server.complete
      /\ server'.stopping = server.stopping /\ server'.target = server.target
      /\ server'.config = server.config
  <2>1. <<>> \in Seq(Readings)
    OBVIOUS
  <2> QED BY <1>1, <2>1, ReapedFacts, Zenon DEF Servers
<1>10. StopInv' /\ ConfigIsSelection'
  BY <1>1, <1>9, Zenon DEF IInv, StopInv, ConfigIsSelection
<1> QED BY <1>1, <1>2, <1>3, <1>5, <1>6, <1>7, <1>8, <1>9, <1>10, ReapedFacts, AnswerStep, Zenon

\* Steps that leave the callers and the reads alone.
LEMMA QuietStep ==
  ASSUME IInv, UNCHANGED <<client, wire, log>>,
         server' \in Servers, server'.reading = server.reading, capture' \in Captures,
         archive' \in Nat, archive <= archive', StopInv', ConfigIsSelection'
  PROVE  IInv'
<1>1. archive \in Nat \ {0} /\ archive' \in Nat \ {0}
  BY DEF IInv, TypeInv
<1>2. TypeInv'
  BY <1>1, Zenon DEF IInv, TypeInv
<1>3. ClientInv' /\ CallsInOrder'
  BY Zenon DEF IInv, ClientInv, CallsInOrder
<1>4. ReadInv'
  <2> SUFFICES ASSUME server.reading # <<>> PROVE ReadInv'
    BY Zenon DEF ReadInv
  <2>1. PICK q \in Readings :
          /\ server.reading = <<q>>
          /\ Incoming(q.client) # <<>> /\ Head(Incoming(q.client)).op = "sources"
          /\ q.cut <= archive
          /\ q.from # 0 => q.cut <= q.from /\ q.from <= archive
    BY Zenon DEF IInv, ReadInv
  <2>2. q.cut \in Nat /\ q.from \in Nat
    BY Zenon DEF Readings
  <2>3. Incoming(q.client)' = Incoming(q.client)
    BY Zenon DEF Incoming
  <2>4. q.cut <= archive' /\ (q.from # 0 => q.cut <= q.from /\ q.from <= archive')
    BY <1>1, <2>1, <2>2
  <2> QED BY <2>1, <2>3, <2>4, Zenon DEF ReadInv
<1> QED BY <1>2, <1>3, <1>4, Zenon DEF IInv

\* The stop worker ends the session it was started for.
LEMMA StopWorkerStep ==
  ASSUME IInv, StopWorker
  PROVE  IInv'
<1>1. /\ ~server.complete /\ UNCHANGED <<client, wire, archive, log>>
      /\ server' = [server EXCEPT !.complete = TRUE]
      /\ capture' = [capture EXCEPT !.active = FALSE, !.parser = FALSE,
                       !.misled = capture.misled \/ capture.session # server.target]
  BY Zenon DEF StopWorker, IInv, TypeInv
<1>2. (capture.misled \/ capture.session # server.target) = FALSE
  BY <1>1, Zenon DEF IInv, StopInv
<1>3. capture' = [capture EXCEPT !.active = FALSE, !.parser = FALSE, !.misled = FALSE]
  BY <1>1, <1>2, Zenon
<1>4. /\ capture' \in Captures /\ ~capture'.active /\ ~capture'.misled
      /\ server' \in Servers /\ server'.complete /\ server'.reading = server.reading
  BY <1>1, <1>3, ReapedFacts, Zenon DEF Captures, Servers
<1>5. StopInv' /\ ConfigIsSelection'
  BY <1>4, Zenon DEF StopInv, ConfigIsSelection
<1> QED BY <1>1, <1>4, <1>5, QuietStep DEF IInv, TypeInv

\* The capture moves by itself, and another process writes the archive.
LEMMA CaptureStep ==
  ASSUME IInv, CaptureEnds \/ PublishCut \/ Evict \/ ArchiveCommits
  PROVE  IInv'
<1>1. archive \in Nat /\ archive + 1 \in Nat /\ capture.cut + 1 \in Nat
  BY ReapedFacts DEF IInv, TypeInv, Captures
<1>2. /\ UNCHANGED <<client, wire, server, log>> /\ archive' \in Nat /\ archive <= archive'
  BY <1>1 DEF CaptureEnds, PublishCut, Evict, ArchiveCommits
<1>3. /\ capture' \in Captures /\ capture'.session = capture.session
      /\ capture'.misled = capture.misled /\ capture'.selection = capture.selection
      /\ capture'.active => capture.active
  <2>1. CASE CaptureEnds
    BY <2>1, ReapedFacts, Zenon DEF CaptureEnds, Captures
  <2>2. CASE PublishCut
    <3>1. capture' = [capture EXCEPT !.cut = capture.cut + 1]
      BY <2>2, Zenon DEF PublishCut
    <3> QED BY <1>1, <3>1, ReapedFacts, Zenon DEF Captures
  <2>3. CASE Evict
    BY <2>3, ReapedFacts, Zenon DEF Evict, Captures
  <2>4. CASE ArchiveCommits
    BY <2>4, ReapedFacts, Zenon DEF ArchiveCommits
  <2> QED BY <2>1, <2>2, <2>3, <2>4, Zenon
<1>4. StopInv' /\ ConfigIsSelection'
  BY <1>2, <1>3, Zenon DEF IInv, StopInv, ConfigIsSelection
<1> QED BY <1>2, <1>3, <1>4, ReapedFacts, QuietStep, Zenon

\* Closing drops the requests and the connections; replies already sent stay.
LEMMA CloseStep ==
  ASSUME IInv, Close
  PROVE  IInv'
<1>1. /\ server.reading = <<>> /\ UNCHANGED <<client, archive, log>>
      /\ server' = [server EXCEPT !.up = FALSE, !.stopping = FALSE, !.complete = TRUE]
      /\ capture' = [capture EXCEPT !.active = FALSE, !.parser = FALSE]
      /\ wire' = [c \in Clients |-> [NoWire EXCEPT !.reply = wire[c].reply]]
  BY Zenon DEF Close
<1>2. /\ capture' \in Captures /\ ~capture'.active /\ capture'.misled = capture.misled
      /\ server' \in Servers /\ server'.complete /\ server'.reading = <<>>
  BY <1>1, ReapedFacts, Zenon DEF Captures, Servers
<1>3. ASSUME NEW c \in Clients
      PROVE  /\ wire'[c] \in Wires /\ wire'[c].request = <<>> /\ wire'[c].orphan = <<>>
             /\ wire'[c].reply = wire[c].reply /\ wire'[c].peer = FALSE
  <2>1. <<>> \in Seq(Calls) /\ wire[c].reply \in Seq(Replies)
    BY OfClient DEF Wires
  <2>2. wire'[c] = [NoWire EXCEPT !.reply = wire[c].reply]
    BY <1>1, Zenon
  <2> QED BY <2>1, <2>2, Zenon DEF NoWire, Wires
<1>4. wire' \in [Clients -> Wires]
  BY <1>1, <1>3, Zenon
<1>5. TypeInv'
  BY <1>1, <1>2, <1>4, Zenon DEF IInv, TypeInv
<1>6. ASSUME NEW c \in Clients
      PROVE  /\ Talks(client[c], wire'[c]) /\ Served(client[c])
             /\ Numbered(c, client[c], wire'[c], log)
  <2>1. Talks(client[c], wire'[c])
    BY <1>3, OfClient, Zenon DEF Talks
  <2>2. Numbered(c, client[c], wire'[c], log)
    BY <1>3, OfClient, Zenon DEF Numbered
  <2> QED BY <2>1, <2>2, OfClient, Zenon
<1>7. ClientInv'
  BY <1>1, <1>6, Zenon DEF ClientInv
<1>8. CallsInOrder' /\ ReadInv' /\ StopInv' /\ ConfigIsSelection'
  BY <1>1, <1>2, Zenon DEF IInv, CallsInOrder, ReadInv, StopInv, ConfigIsSelection
<1> QED BY <1>5, <1>7, <1>8, Zenon DEF IInv

-----------------------------------------------------------------------------
(* The invariant and what follows from it.                                 *)

LEMMA InitInvariant == Init => IInv
<1> SUFFICES ASSUME Init PROVE IInv
  BY Zenon
<1>1. <<>> \in Seq(Calls) /\ <<>> \in Seq(Replies) /\ <<>> \in Seq(Readings)
      /\ <<>> \in Seq(Clients \X Nat) /\ Len(<<>>) = 0
  OBVIOUS
<1>2. ASSUME NEW c \in Clients
      PROVE  /\ client[c] \in Callers /\ client[c].open = FALSE /\ client[c].call = NoCall
             /\ client[c].sent = 0 /\ ~client[c].mixed /\ ~client[c].torn /\ ~client[c].misread
             /\ wire[c] \in Wires /\ wire[c].request = <<>> /\ wire[c].reply = <<>>
             /\ wire[c].peer = FALSE /\ wire[c].orphan = <<>>
  BY <1>1, PlainMark, Zenon DEF Init, NoWire, Wires, Callers
<1>3. log = <<>> /\ server.reading = <<>> /\ server.complete /\ ~capture.misled /\ ~capture.active
  BY Zenon DEF Init
<1>4. TypeInv
  <2>1. client \in [Clients -> Callers] /\ wire \in [Clients -> Wires]
    BY <1>2, Zenon DEF Init
  <2>2. NoConfig \in Configs \cup {NoConfig}
    BY Zenon
  <2>3. server \in Servers
    BY <1>1, <2>2, Zenon DEF Init, Servers
  <2>4. capture \in Captures
    BY <2>2, Zenon DEF Init, Captures
  <2>5. archive \in Nat \ {0} /\ log \in Seq(Clients \X Nat)
    BY <1>1 DEF Init
  <2> QED BY <2>1, <2>3, <2>4, <2>5, Zenon DEF TypeInv
<1>5. ClientInv
  <2>1. \A i \in 1..Len(<<>>) : FALSE
    BY <1>1
  <2> QED BY <1>2, <1>3, <2>1, Zenon DEF ClientInv, Talks, Served, Numbered
<1>6. CallsInOrder
  <2>1. DOMAIN log = {}
    BY <1>3
  <2> QED BY <2>1, Zenon DEF CallsInOrder
<1> QED BY <1>3, <1>4, <1>5, <1>6, Zenon DEF IInv, ReadInv, StopInv, ConfigIsSelection

LEMMA NextInvariant == IInv /\ [Next]_vars => IInv'
<1> SUFFICES ASSUME IInv, [Next]_vars PROVE IInv'
  BY Zenon
<1>1. CASE UNCHANGED vars
  <2>1. /\ UNCHANGED <<client, wire, log>> /\ server' = server /\ capture' = capture
        /\ archive' = archive /\ archive \in Nat
    BY <1>1, Zenon DEF vars, IInv, TypeInv
  <2>2. StopInv' /\ ConfigIsSelection' /\ archive <= archive'
    BY <2>1 DEF IInv, StopInv, ConfigIsSelection
  <2> QED BY <2>1, <2>2, ReapedFacts, QuietStep, Zenon
<1>2. ASSUME NEW c \in Clients, Connect(c) \/ Receive(c) \/ Timeout(c) \/ Accept(c) \/ Handle(c)
      PROVE  IInv'
  BY <1>2, ConnectStep, ReceiveStep, TimeoutStep, AcceptStep, ConfigureStep, StartStep, StopStep,
     BlockStep, SourcesBeginStep, Zenon DEF Handle
<1>3. ASSUME NEW c \in Clients, NEW op \in Operations, NEW config \in Configs,
             NEW generation \in 0..MaxCuts, Send(c, op, config, generation)
      PROVE  IInv'
  BY <1>3, SendStep, Zenon
<1> QED BY <1>1, <1>2, <1>3, SourcesCatalogStep, SourcesEndStep, StopWorkerStep, CloseStep,
           CaptureStep, Zenon DEF Next

LEMMA Invariant == Spec => []IInv
BY InitInvariant, NextInvariant, PTL DEF Spec

\* For any number of clients and calls, exchange() never takes a late reply for
\* the answer to another call.
THEOREM RepliesMatched == Spec => []ReplyOfItsCall
<1>1. IInv => ReplyOfItsCall
  BY Zenon DEF IInv, ClientInv, Served, ReplyOfItsCall
<1> QED BY <1>1, Invariant, PTL

\* handle() runs the calls of a client in the order they were made, whatever
\* timeouts and reconnections lie between them.
THEOREM CallsRunInOrder == Spec => []CallsInOrder
<1>1. IInv => CallsInOrder
  BY Zenon DEF IInv
<1> QED BY <1>1, Invariant, PTL

\* handle() runs no call twice.
THEOREM CallsRunOnce == Spec => []AtMostOnce
<1>1. IInv => AtMostOnce
  <2> SUFFICES ASSUME IInv, NEW i \in DOMAIN log, NEW j \in DOMAIN log, i # j, log[i] = log[j]
               PROVE  FALSE
    BY Zenon DEF AtMostOnce
  <2>1. log \in Seq(Clients \X Nat)
    BY Zenon DEF IInv, TypeInv
  <2>2. i \in Nat /\ j \in Nat /\ log[i] \in Clients \X Nat
    BY <2>1
  <2>3. log[i][2] \in Nat
    BY <2>2, Zenon
  <2>4. ~(log[i][2] < log[j][2]) /\ ~(log[j][2] < log[i][2])
    BY <2>3
  <2>5. i < j \/ j < i
    BY <2>2
  <2> QED BY <2>4, <2>5, Zenon DEF IInv, CallsInOrder
<1> QED BY <1>1, Invariant, PTL

\* The stop worker ends the session that ran when the stop was handled.
THEOREM StopEndsItsSession == Spec => []StopHitsItsSession
<1>1. IInv => StopHitsItsSession
  BY Zenon DEF IInv, StopInv, StopHitsItsSession
<1> QED BY <1>1, Invariant, PTL

\* The configuration kept is the selection of the active capture.
THEOREM ConfigFollowsSelection == Spec => []ConfigIsSelection
<1>1. IInv => ConfigIsSelection
  BY Zenon DEF IInv
<1> QED BY <1>1, Invariant, PTL

\* A catalogue confirmed with a generation is the catalogue of that generation.
THEOREM SourcesWhole == Spec => []SourcesOfGeneration
<1>1. IInv => SourcesOfGeneration
  BY Zenon DEF IInv, ClientInv, Served, SourcesOfGeneration
<1> QED BY <1>1, Invariant, PTL

\* For any number of clients, calls, cuts and sessions, a block that was asked for
\* by a generation is of a cut with that number.
THEOREM BlocksOfGeneration == Spec => []BlockOfGeneration
<1>1. IInv => BlockOfGeneration
  BY Zenon DEF IInv, ClientInv, Served, BlockOfGeneration
<1> QED BY <1>1, Invariant, PTL
=============================================================================
