------------------------- MODULE CaptureClientSteps -------------------------
(***************************************************************************)
(* The inductive invariant of ParserMarketCaptureClient and the lemmas     *)
(* that the producers, drainTo and the cursor keep it.  A lemma that only  *)
(* one other uses is a named step of that one's proof.                     *)
(***************************************************************************)
EXTENDS ParserMarketCaptureClient, Integers, TLAPS

(* What the arena's header fixes when it is mapped: at least one shard and *)
(* room for at least one source.  The clock's bound is the model's.        *)
Sizes == ShardCount \in Nat \ {0} /\ DirectoryCapacity \in Nat \ {0} /\ MaxClock \in Nat

(* The facts about numbers and finite sets that the lemmas rest on.  They  *)
(* are proved from the library in CaptureClientProofs.                     *)
Counting ==
    /\ \A T \in SUBSET Nat : T # {} => \E x \in T : \A y \in T : x <= y
    /\ \A d \in Nat : IsFiniteSet(1 .. d)
    /\ \A T : IsFiniteSet(T) => \A S : S \subseteq T => IsFiniteSet(S)
    /\ Cardinality({}) = 0
    /\ \A S : IsFiniteSet(S) => Cardinality(S) \in Nat
    /\ \A S, x : IsFiniteSet(S) /\ x \notin S =>
          IsFiniteSet(S \cup {x}) /\ Cardinality(S \cup {x}) = Cardinality(S) + 1
Setting == Sizes /\ Counting

-----------------------------------------------------------------------------
(* The inductive invariant.                                                *)

Sources == 1 .. DirectoryCapacity
Rings == [Shards -> Seq(Row)]
Counters == [Shards -> Nat]
Cells == [Sources -> Nat]
RowLeases == [phase : {"row", "loss"}, row : Row]
Leases == {None} \cup RowLeases \cup [phase : {"announced"}]
Held == [Shards -> Leases]
Reports == [phase : {"progress"}, write : Nat, time : Nat, lost : Nat, revision : Nat]
Told == [Shards -> {None} \cup Reports]
SnapPhases == {"shards", "cells"}
Snaps == [phase : SnapPhases, revision : Nat, safe : Nat, sequences : Counters,
          available : BOOLEAN, cells : Cells, sealing : BOOLEAN]
Places == {"idle", "scan", "progress", "snapshot", "stopping", "freeze", "sealed"}
Hows == {"running", "stop", "freeze"}
Emissions == [shard : Shards, arrival : Nat]
SnapOrNone == {None} \cup Snaps
Outputs == Seq(Emissions)

Arenas == [written : Rings, read : Counters, lease : Held, progress : Told, generation : Nat,
           count : Nat, started : Nat, lost : Nat, cells : Cells, attached : BOOLEAN,
           socket : BOOLEAN, tries : Nat]
ClientStates == [pc : Places, at : Nat, known : Nat, sources : Nat, how : Hows, final : Nat,
                 failed : BOOLEAN, snap : SnapOrNone]
Sinks == [rows : Rings, catalog : Nat, gaps : Cells, safe : Nat, sequences : Counters,
          losses : Nat, directory : Nat, refused : BOOLEAN, emitted : Outputs]

InSnapshot == client.pc = "snapshot"

TypeInv ==
    /\ arena \in Arenas /\ clock \in Nat /\ client \in ClientStates /\ sink \in Sinks
    /\ InSnapshot => client.snap \in Snaps

\* What the client took from a ring is what the sink has, and its sources were
\* listed when the client last copied the directory.
RingInv ==
    /\ \A s \in Shards : arena.read[s] <= Len(arena.written[s])
    /\ RowsExactlyOnce
    /\ \A s \in Shards : \A k \in 1 .. arena.read[s] : arena.written[s][k].source <= client.sources
    /\ client.sources <= sink.catalog

HasRow(n) == \E t \in Shards : \E k \in 1 .. Len(arena.written[t]) : arena.written[t][k].source = n
Announcing(s) == arena.lease[s].phase = "announced"
Leased(s) == arena.lease[s].phase \in {"row", "loss"}

\* Every source but the first has a row in a ring, committed before it was
\* listed; so a source the client has not copied yet has one it has not taken.
DirectoryInv ==
    /\ arena.count \in Sources /\ client.sources <= arena.count /\ client.known <= arena.generation
    /\ 1 <= client.sources /\ sink.directory <= client.known
    /\ \A n \in 2 .. arena.count : HasRow(n)
    /\ \A s \in Shards : Announcing(s) => arena.count < DirectoryCapacity /\ HasRow(arena.count + 1)
    /\ \A s, t \in Shards : Announcing(s) /\ Announcing(t) => s = t
    /\ \A s \in Shards : Leased(s) => arena.lease[s].row.source <= arena.count
    /\ \A n \in Sources : n > arena.count => arena.cells[n] = 0

Losing(held) == {s \in Shards : held[s].phase = "loss"}

\* The two halves of the loss epoch differ by the losses being counted.
LossInv ==
    /\ arena.started = arena.lost + Cardinality(Losing(arena.lease))
    /\ Total(arena.cells) = arena.lost

\* A ring w is in the order of arrival, and the progress p of its owner is
\* before all that was committed later or is under the lease l.
Timed(w, l, p, now) ==
    /\ \A k \in 1 .. Len(w) : w[k].arrival <= now
    /\ \A j, k \in 1 .. Len(w) : j <= k => w[j].arrival <= w[k].arrival
    /\ l.phase = "row" =>
         l.row.arrival <= now /\ \A k \in 1 .. Len(w) : w[k].arrival <= l.row.arrival
    /\ p # None =>
         /\ p.time <= now /\ p.write <= Len(w)
         /\ \A k \in p.write + 1 .. Len(w) : p.time <= w[k].arrival
         /\ l.phase = "row" => p.time <= l.row.arrival

ArrivalInv ==
    /\ clock <= MaxClock + 1
    /\ \A s \in Shards : Timed(arena.written[s], arena.lease[s], arena.progress[s], clock)

\* What a report may say of a ring w that was read up to r: no row after this
\* sequence is older than the safe time, and the owner's progress p has gone
\* as far.
Promise(w, r, p, sequence, safe) ==
    /\ sequence <= r
    /\ \A k \in sequence + 1 .. Len(w) : safe <= w[k].arrival
    /\ p = None => sequence = 0 /\ safe = 0
    /\ p # None => sequence <= p.write /\ safe <= p.time

Promised(s, sequence, safe) ==
    Promise(arena.written[s], arena.read[s], arena.progress[s], sequence, safe)

SinkInv ==
    /\ ~sink.refused /\ sink.losses <= arena.lost
    /\ \A s \in Shards : Promised(s, sink.sequences[s], sink.safe)

Visited(s) == client.snap.phase = "cells" \/ s < client.at

\* A snapshot in progress: what it has read of the shards is a promise, and
\* what it has read of the ledger is the ledger unless a loss was started.
SnapInv == InSnapshot =>
    /\ client.snap.revision <= arena.lost /\ sink.losses <= client.snap.revision
    /\ client.at >= 1
    /\ client.snap.phase = "shards" => client.at <= ShardCount /\ client.snap.available
    /\ client.snap.available =>
         /\ sink.safe <= client.snap.safe
         /\ \A s \in Shards : Visited(s) =>
               /\ Promised(s, client.snap.sequences[s], client.snap.safe)
               /\ sink.sequences[s] <= client.snap.sequences[s]
    /\ arena.started = client.snap.revision =>
         \A n \in Sources : client.snap.cells[n] =
            IF client.snap.phase = "cells" /\ n < client.at THEN arena.cells[n] ELSE 0

NotAfter(e, arrival, s) == e.arrival < arrival \/ (e.arrival = arrival /\ e.shard <= s)
Count(out, s) == Cardinality({i \in DOMAIN out : out[i].shard = s})

\* No row that the cursor has not emitted, drained or not, is before one that it has.
EmitInv ==
    /\ \A i \in DOMAIN sink.emitted : sink.emitted[i].arrival < sink.safe
    /\ \A s \in Shards : Count(sink.emitted, s) <= sink.sequences[s]
    /\ \A i \in DOMAIN sink.emitted : \A s \in Shards :
         \A k \in Count(sink.emitted, s) + 1 .. Len(arena.written[s]) :
            NotAfter(sink.emitted[i], arena.written[s][k].arrival, s)
    /\ MergedByArrival

Sealing == (InSnapshot /\ client.snap.sealing) \/ client.pc = "sealed"

\* After an acknowledged stop nothing moves but the client, and the last
\* snapshot is taken of an arena that is drained and a directory that is copied.
StopInv == client.how = "stop" =>
    /\ ~arena.attached /\ client.known = arena.generation /\ \A s \in Shards : Quiet(s)
    /\ Sealing => \A s \in Shards : arena.read[s] = Len(arena.written[s])
    /\ Sealing /\ InSnapshot => arena.lost = client.snap.revision /\ arena.count = client.sources
    /\ client.pc = "sealed" /\ ~client.failed => Total(sink.gaps) = arena.lost

IInv == TypeInv /\ RingInv /\ DirectoryInv /\ LossInv /\ ArrivalInv /\ SinkInv /\ SnapInv
        /\ EmitInv /\ StopInv

-----------------------------------------------------------------------------

\* f is the sum of the cells up to each source.
Sums(cells, f) ==
    f = [n \in 0 .. DirectoryCapacity |-> IF n = 0 THEN 0 ELSE f[n - 1] + cells[n]]

PartSums(cells, d, f) ==
    f \in [0 .. d -> Nat] /\ f[0] = 0 /\ \A n \in 1 .. d : f[n] = f[n - 1] + cells[n]

SameRings == arena'.written = arena.written /\ arena'.read = arena.read
SameLeases == arena'.lease = arena.lease
SameReports == arena'.progress = arena.progress
SameDirectory == arena'.generation = arena.generation /\ arena'.count = arena.count
SameLosses == arena'.started = arena.started /\ arena'.lost = arena.lost /\ arena'.cells = arena.cells
SameDoor == arena'.attached = arena.attached
SameOthers == clock' = clock /\ client' = client /\ sink' = sink
SameArena == arena' = arena /\ clock' = clock

LeaseOf(n) == [phase |-> "row", row |-> [source |-> n, arrival |-> clock, revision |-> 0]]

NewSource == [source |-> arena.count + 1, arrival |-> clock, revision |-> arena.generation + 1]

Report(s) == [phase |-> "progress", write |-> Len(arena.written[s]), time |-> clock,
              lost |-> arena.lost, revision |-> arena.generation]

SameCopy == client'.known = client.known /\ client'.sources = client.sources
SameVerdict == client'.how = client.how /\ client'.failed = client.failed

\* Steps that only move the client from one place to another.
Moves ==
    /\ SameArena /\ sink' = sink /\ client' \in ClientStates /\ SameCopy
    /\ client'.pc \notin {"snapshot", "sealed"}
    /\ client'.how = "stop" => client.how = "stop"

FirstSnap(sealing) ==
    [phase |-> "shards", revision |-> arena.lost, safe |-> MaxClock + 1,
     sequences |-> [s \in Shards |-> 0], available |-> TRUE, cells |-> NoCells, sealing |-> sealing]

Current == arena.started = arena.lost /\ arena.generation = client.known /\ arena.count = client.sources

\* A snapshot is begun, ...
Begins(sealing) ==
    /\ SameArena /\ sink' = sink /\ client' \in ClientStates /\ SameCopy /\ SameVerdict
    /\ client'.pc = "snapshot" /\ client'.at = 1 /\ client'.snap = FirstSnap(sealing)
    /\ client'.snap \in Snaps /\ Current

\* ... or the call ends without a report.
Returns(sealing) ==
    /\ SameArena /\ sink' = sink /\ client' \in ClientStates /\ SameCopy /\ SameVerdict
    /\ client'.pc = IF sealing THEN "sealed" ELSE "idle"

\* What a step inside a snapshot keeps of it.
SameSnap ==
    /\ SameArena /\ sink' = sink /\ client' \in ClientStates /\ SameCopy /\ SameVerdict
    /\ client.pc = "snapshot" /\ client'.pc = "snapshot" /\ client'.snap \in Snaps
    /\ client'.snap.revision = client.snap.revision /\ client'.snap.sealing = client.snap.sealing

SmallerOf(a, b) == IF a < b THEN a ELSE b

\* The sink after a report: the gaps, and the promise when there is one.
Reported(snap) ==
    IF ~snap.available THEN [sink EXCEPT !.gaps = snap.cells]
    ELSE IF Accepts(snap)
    THEN [sink EXCEPT !.gaps = snap.cells, !.safe = snap.safe, !.sequences = snap.sequences,
                      !.losses = snap.revision, !.directory = client.known]
    ELSE [sink EXCEPT !.gaps = snap.cells, !.refused = TRUE]

\* From (w, r, p) to (v, q, o) a ring has only grown.
Grown(w, r, p, v, q, o) ==
    /\ Len(w) <= Len(v) /\ \A k \in 1 .. Len(w) : v[k] = w[k]
    /\ p # None => \A k \in Len(w) + 1 .. Len(v) : p.time <= v[k].arrival
    /\ r <= q
    /\ p # None => o # None /\ p.write <= o.write /\ p.time <= o.time

Progresses == {None} \cup Reports

RingOf(s) == Timed(arena.written[s], arena.lease[s], arena.progress[s], clock)
GrownAt(s) ==
    Grown(arena.written[s], arena.read[s], arena.progress[s],
          arena'.written[s], arena'.read[s], arena'.progress[s])

DirectoryNumbers ==
    /\ arena.count \in Nat /\ arena.generation \in Nat /\ client.sources \in Nat /\ client.known \in Nat
    /\ sink.directory \in Nat /\ arena.cells \in Cells /\ arena.lease \in Held

LossNumbers ==
    /\ arena.started \in Nat /\ arena.lost \in Nat /\ arena.cells \in Cells /\ arena.lease \in Held

\* What a producer step does to the ledger: the epochs never go back, and a
\* cell changes only while a loss is being counted.
LossStep ==
    /\ LossInv' /\ arena.lost <= arena'.lost /\ arena.started <= arena'.started
    /\ arena'.cells = arena.cells \/ arena.started > arena.lost

Growth == arena' \in Arenas /\ \A t \in Shards : GrownAt(t)
SameReport ==
    /\ sink'.safe = sink.safe /\ sink'.sequences = sink.sequences /\ sink'.losses = sink.losses
    /\ sink'.refused = sink.refused

\* A report the sink takes: it goes on where the last one ended.
Taken ==
    /\ sink'.safe = client.snap.safe /\ sink'.sequences = client.snap.sequences
    /\ sink'.losses = client.snap.revision /\ sink'.directory = client.known
    /\ sink'.refused = sink.refused /\ sink.safe <= client.snap.safe
    /\ client.snap.revision <= arena.lost
    /\ \A s \in Shards : /\ Promised(s, client.snap.sequences[s], client.snap.safe)
                         /\ sink.sequences[s] <= client.snap.sequences[s]

-----------------------------------------------------------------------------
\* The facts of Counting one by one: an interval from 1 is finite, ...
LEMMA FiniteInterval ==
    ASSUME Setting, NEW d \in Nat
    PROVE  IsFiniteSet(1 .. d)
BY Zenon DEF Setting, Counting

\* ... so is a part of a finite set, ...
LEMMA FiniteSubset ==
    ASSUME Setting, NEW T, IsFiniteSet(T), NEW S, S \subseteq T
    PROVE  IsFiniteSet(S)
BY Zenon DEF Setting, Counting

\* ... nothing counts as 0, ...
LEMMA CountOfEmpty ==
    ASSUME Setting
    PROVE  Cardinality({}) = 0
BY Zenon DEF Setting, Counting

\* ... a finite set has a natural number of members, ...
LEMMA CountIsNatural ==
    ASSUME Setting, NEW S, IsFiniteSet(S)
    PROVE  Cardinality(S) \in Nat
BY Zenon DEF Setting, Counting

\* ... and one more with a new one.
LEMMA CountOfAdded ==
    ASSUME Setting, NEW S, IsFiniteSet(S), NEW x, x \notin S
    PROVE  IsFiniteSet(S \cup {x}) /\ Cardinality(S \cup {x}) = Cardinality(S) + 1
BY Zenon DEF Setting, Counting

\* Induction up to d, with the property given by the set of its numbers.
LEMMA UpTo ==
    \A d \in Nat : \A T : Setting /\ (0 \in T) /\ (\A n \in 1 .. d : n - 1 \in T => n \in T) =>
        \A n \in 0 .. d : n \in T
\* Every set of numbers that is not empty has a least member.
<1>LeastMember. ASSUME Setting, NEW T, T \subseteq Nat, T # {}
                PROVE  \E x \in T : \A y \in T : x <= y
  BY <1>LeastMember, Zenon DEF Setting, Counting
<1> SUFFICES ASSUME Setting, NEW d \in Nat, NEW T, 0 \in T, \A n \in 1 .. d : n - 1 \in T => n \in T
             PROVE  \A n \in 0 .. d : n \in T
  BY Zenon
<1> DEFINE F == {n \in 0 .. d : n \notin T}
<1> SUFFICES ASSUME F # {} PROVE FALSE
  BY Zenon
<1>1. F \subseteq Nat
  OBVIOUS
<1> HIDE DEF F
<1>2. PICK x \in F : \A y \in F : x <= y
  BY <1>1, <1>LeastMember, Zenon
<1>3. x \in 0 .. d /\ x \notin T
  BY <1>2, Zenon DEF F
<1>4. x # 0
  BY <1>3, Zenon
<1>5. x \in 1 .. d /\ x - 1 \in 0 .. d /\ ~(x <= x - 1) /\ x - 1 \in Nat
  BY <1>3, <1>4
<1>6. x - 1 \in F
  BY <1>3, <1>5, Zenon DEF F
<1> QED BY <1>2, <1>5, <1>6, Zenon

\* Total is the last of the sums.
LEMMA TotalIsSum ==
    \A c \in Cells : Setting =>
        \E f : PartSums(c, DirectoryCapacity, f) /\ Total(c) = f[DirectoryCapacity]
\* The sums up to each source exist, by induction on the source.
<1>SumsExist. ASSUME Setting, NEW c \in Cells
              PROVE  \E f : PartSums(c, DirectoryCapacity, f)
  <2> USE <1>SumsExist
  <2> DEFINE T == {d \in 0 .. DirectoryCapacity : \E f : PartSums(c, d, f)}
  <2>0. DirectoryCapacity \in Nat
    BY DEF Setting, Sizes
  <2>1. 0 \in T
    <3> DEFINE f == [n \in 0 .. 0 |-> 0]
    <3>1. PartSums(c, 0, f)
      BY DEF PartSums
    <3> QED BY <2>0, <3>1
  <2>2. ASSUME NEW d \in 1 .. DirectoryCapacity, d - 1 \in T PROVE d \in T
    <3>1. PICK f : PartSums(c, d - 1, f)
      BY <2>2, Zenon
    <3> DEFINE g == [n \in 0 .. d |-> IF n = d THEN f[d - 1] + c[d] ELSE f[n]]
    <3>2. d \in Nat \ {0} /\ d \in 0 .. DirectoryCapacity /\ d - 1 \in 0 .. d - 1 /\ c[d] \in Nat
      BY <2>0 DEF Cells, Sources
    <3>3. f \in [0 .. d - 1 -> Nat] /\ f[0] = 0 /\ (\A n \in 1 .. d - 1 : f[n] = f[n - 1] + c[n])
      BY <3>1, Zenon DEF PartSums
    <3>4. f[d - 1] \in Nat
      BY <3>2, <3>3, Zenon
    <3>5. g \in [0 .. d -> Nat]
      BY <3>2, <3>3, <3>4
    <3>6. g[0] = 0
      BY <3>2, <3>3
    <3>7. ASSUME NEW n \in 1 .. d PROVE g[n] = g[n - 1] + c[n]
      <4>1. /\ n \in 0 .. d /\ n - 1 \in 0 .. d /\ n - 1 # d /\ (n # d => n \in 1 .. d - 1)
        BY <3>2
      <4>2. g[n - 1] = f[n - 1] /\ g[n] = IF n = d THEN f[d - 1] + c[d] ELSE f[n]
        BY <4>1, Zenon
      <4> QED BY <3>3, <4>1, <4>2, Zenon
    <3>8. PartSums(c, d, g)
      BY <3>5, <3>6, <3>7, Zenon DEF PartSums
    <3> QED BY <3>2, <3>8, Zenon
  <2>3. \A d \in 0 .. DirectoryCapacity : d \in T
    <3> HIDE DEF T
    <3> QED BY <2>0, <2>1, <2>2, UpTo, Zenon
  <2>4. DirectoryCapacity \in 0 .. DirectoryCapacity
    BY <2>0
  <2> QED BY <2>3, <2>4, Zenon
<1> SUFFICES ASSUME Setting, NEW c \in Cells
             PROVE  \E f : PartSums(c, DirectoryCapacity, f) /\ Total(c) = f[DirectoryCapacity]
  BY Zenon
<1>0. DirectoryCapacity \in Nat
  BY DEF Setting, Sizes
<1>1. PICK h : PartSums(c, DirectoryCapacity, h)
  BY <1>SumsExist, Zenon
<1>2. Sums(c, h)
  BY <1>0, <1>1 DEF PartSums, Sums, Cells, Sources
<1> DEFINE g == CHOOSE f : Sums(c, f)
<1>3. Sums(c, g)
  BY <1>2, Zenon
<1>4. Total(c) = g[DirectoryCapacity]
  BY Zenon DEF Total, Sums
<1>5. PartSums(c, DirectoryCapacity, g)
  <2> HIDE DEF g
  <2>1. g = [n \in 0 .. DirectoryCapacity |-> IF n = 0 THEN 0 ELSE g[n - 1] + c[n]]
    BY <1>3, Zenon DEF Sums
  <2>2. 0 \in 0 .. DirectoryCapacity /\ \A n \in 1 .. DirectoryCapacity : n \in 0 .. DirectoryCapacity /\ n # 0
    BY <1>0
  <2>3. g[0] = 0
    BY <2>1, <2>2, Zenon
  <2>4. \A n \in 1 .. DirectoryCapacity : g[n] = g[n - 1] + c[n]
    BY <2>1, <2>2, Zenon
  <2> DEFINE T == {n \in 0 .. DirectoryCapacity : g[n] \in Nat}
  <2>5. 0 \in T
    BY <2>2, <2>3
  <2>6. ASSUME NEW n \in 1 .. DirectoryCapacity, n - 1 \in T PROVE n \in T
    <3>1. g[n - 1] \in Nat /\ c[n] \in Nat /\ n \in 0 .. DirectoryCapacity
      BY <2>2, <2>6, Zenon DEF Cells, Sources
    <3>2. g[n] \in Nat
      BY <2>4, <3>1
    <3> QED BY <3>1, <3>2, Zenon
  <2>7. \A n \in 0 .. DirectoryCapacity : n \in T
    <3> HIDE DEF T
    <3> QED BY <1>0, <2>5, <2>6, UpTo, Zenon
  <2>8. g \in [0 .. DirectoryCapacity -> Nat]
    BY <2>1, <2>7, Zenon
  <2> QED BY <2>3, <2>4, <2>8, Zenon DEF PartSums
<1> QED BY <1>4, <1>5, Zenon

\* An owner that has not reported is told apart from one that has.
LEMMA NoneIsNoReport ==
None \notin Reports /\ None.phase = "none"
<1>1. None.phase = "none" /\ \A p \in Reports : p.phase = "progress"
  BY Zenon DEF None, Reports
<1> QED BY <1>1, Zenon

\* The numbers of a report.
LEMMA ReportNumbers ==
    ASSUME NEW p \in Progresses, p # None
    PROVE  p.time \in Nat /\ p.write \in Nat
BY Zenon DEF Progresses, Reports

\* The numbers of the rows in a ring.
LEMMA RowNumbers ==
    ASSUME NEW w \in Seq(Row)
    PROVE  Len(w) \in Nat /\ \A k \in 1 .. Len(w) : w[k] \in Row /\ w[k].arrival \in Nat /\ w[k].source \in 1 .. DirectoryCapacity
<1>1. Len(w) \in Nat /\ \A k \in 1 .. Len(w) : w[k] \in Row
  OBVIOUS
<1> QED BY <1>1, Zenon DEF Row

\* A ring that stays as it is counts as grown.
LEMMA GrownSame ==
    ASSUME NEW w \in Seq(Row), NEW r \in Nat, NEW p \in Progresses
    PROVE  Grown(w, r, p, w, r, p)
<1>1. Len(w) \in Nat
  OBVIOUS
<1>2. Len(w) <= Len(w) /\ r <= r /\ \A k \in Len(w) + 1 .. Len(w) : FALSE
  BY <1>1
<1>3. p # None => p.write <= p.write /\ p.time <= p.time
  <2>1. p # None => p.time \in Nat /\ p.write \in Nat
    BY ReportNumbers, Zenon
  <2>2. \A n \in Nat : n <= n
    OBVIOUS
  <2> QED BY <2>1, <2>2, Zenon
<1> QED BY <1>2, <1>3, Zenon DEF Grown

\* A row goes into a ring.
LEMMA RowCommitted ==
    ASSUME NEW w \in Seq(Row), NEW x \in Row, NEW l, NEW m, NEW p \in Progresses, NEW r \in Nat,
           NEW now \in Nat, Timed(w, l, p, now), m.phase # "row",
           x.arrival <= now, \A k \in 1 .. Len(w) : w[k].arrival <= x.arrival,
           p # None => p.time <= x.arrival
    PROVE  Timed(Append(w, x), m, p, now) /\ Grown(w, r, p, Append(w, x), r, p)
<1> DEFINE v == Append(w, x)
<1>1. /\ Len(w) \in Nat /\ \A k \in 1 .. Len(w) : w[k].arrival \in Nat
      /\ x.arrival \in Nat
  BY RowNumbers, Zenon DEF Row
<1>2. /\ Len(v) = Len(w) + 1 /\ \A k \in 1 .. Len(w) : v[k] = w[k]
      /\ v[Len(w) + 1] = x /\ \A k \in 1 .. Len(v) : k \in 1 .. Len(w) \/ k = Len(w) + 1
  <2>1. /\ Len(v) = Len(w) + 1 /\ \A k \in 1 .. Len(w) : v[k] = w[k]
        /\ v[Len(w) + 1] = x /\ \A k \in 1 .. Len(w) + 1 : k \in 1 .. Len(w) \/ k = Len(w) + 1
    OBVIOUS
  <2> HIDE DEF v
  <2> QED BY <2>1, Zenon
<1> HIDE DEF v
<1>3. /\ \A k \in 1 .. Len(w) : w[k].arrival <= now
      /\ \A j, k \in 1 .. Len(w) : j <= k => w[j].arrival <= w[k].arrival
      /\ p # None =>
           /\ p.time <= now /\ p.write <= Len(w)
           /\ \A k \in p.write + 1 .. Len(w) : p.time <= w[k].arrival
  BY Zenon DEF Timed
<1>4. \A k \in 1 .. Len(v) : v[k].arrival <= now
  BY <1>2, <1>3, Zenon
<1>5. ASSUME NEW j \in 1 .. Len(v), NEW k \in 1 .. Len(v), j <= k
      PROVE  v[j].arrival <= v[k].arrival
  <2>1. CASE k \in 1 .. Len(w)
    <3>1. j \in 1 .. Len(w)
      BY <1>1, <1>5, <2>1
    <3> QED BY <1>2, <1>3, <1>5, <2>1, <3>1, Zenon
  <2>2. CASE k = Len(w) + 1 /\ j \in 1 .. Len(w)
    BY <1>2, <2>2, Zenon
  <2>3. CASE k = Len(w) + 1 /\ j = Len(w) + 1
    <3>1. x.arrival <= x.arrival
      BY <1>1
    <3> QED BY <1>2, <2>3, <3>1, Zenon
  <2> QED BY <1>2, <2>1, <2>2, <2>3, Zenon
<1>6. ASSUME p # None
      PROVE  /\ p.write <= Len(v) /\ \A k \in p.write + 1 .. Len(v) : p.time <= v[k].arrival
             /\ \A k \in Len(w) + 1 .. Len(v) : p.time <= v[k].arrival
  <2>1. p.write \in Nat /\ p.time \in Nat
    BY <1>6, ReportNumbers, Zenon
  <2>2. p.write <= Len(v)
    BY <1>1, <1>2, <1>3, <1>6, <2>1
  <2>3. ASSUME NEW k \in p.write + 1 .. Len(v) PROVE (k \in p.write + 1 .. Len(w) /\ k \in 1 .. Len(w)) \/ k = Len(w) + 1
    BY <1>1, <1>2, <2>1
  <2>4. \A k \in p.write + 1 .. Len(v) : p.time <= v[k].arrival
    BY <1>2, <1>3, <1>6, <2>3, Zenon
  <2>5. \A k \in Len(w) + 1 .. Len(v) : k = Len(w) + 1
    BY <1>1, <1>2
  <2> QED BY <1>2, <1>6, <2>2, <2>4, <2>5, Zenon
<1>7. Timed(v, m, p, now)
  BY <1>3, <1>4, <1>5, <1>6, Zenon DEF Timed
<1>8. Len(w) <= Len(v) /\ r <= r
  BY <1>1, <1>2
<1>9. p # None => p.write <= p.write /\ p.time <= p.time
  <2>1. p # None => p.time \in Nat /\ p.write \in Nat
    BY ReportNumbers, Zenon
  <2>2. \A n \in Nat : n <= n
    OBVIOUS
  <2> QED BY <2>1, <2>2, Zenon
<1>10. Grown(w, r, p, v, r, p)
  BY <1>2, <1>6, <1>8, <1>9, Zenon DEF Grown
<1> QED BY <1>7, <1>10, Zenon DEF v

\* The types of what a shard owns in the arena.
LEMMA ArenaTypes ==
    ASSUME NEW a \in Arenas, NEW s \in Shards
    PROVE  /\ a.written[s] \in Seq(Row) /\ a.read[s] \in Nat
           /\ a.lease[s] \in Leases /\ a.progress[s] \in Progresses
BY Zenon DEF Arenas, Rings, Counters, Held, Told, Progresses

\* No ring and no row moves.
LEMMA RingStill ==
    ASSUME RingInv, arena' = arena, sink'.rows = sink.rows, client'.sources = client.sources,
           sink'.catalog = sink.catalog
    PROVE  RingInv'
BY Zenon DEF RingInv, RowsExactlyOnce

\* The types of what the directory is made of.
LEMMA DirectoryTypes ==
    ASSUME TypeInv
    PROVE  DirectoryNumbers
BY Zenon DEF TypeInv, Arenas, ClientStates, Sinks, DirectoryNumbers

\* Steps that leave the directory alone.
LEMMA DirectoryStill ==
    ASSUME DirectoryInv, arena'.count = arena.count, arena'.generation = arena.generation,
           arena'.written = arena.written, arena'.lease = arena.lease, arena'.cells = arena.cells,
           client'.sources <= arena.count, 1 <= client'.sources, client'.known <= arena.generation,
           sink'.directory <= client'.known
    PROVE  DirectoryInv'
<1>1. ASSUME NEW n PROVE HasRow(n) => HasRow(n)'
  BY Zenon DEF HasRow
<1>2. \A s \in Shards : Announcing(s)' <=> Announcing(s)
  BY Zenon DEF Announcing
<1>3. \A s \in Shards : Leased(s)' => arena'.lease[s].row.source <= arena'.count
  BY Zenon DEF Leased, DirectoryInv
<1>4. arena'.count + 1 = arena.count + 1
  BY Zenon
<1>5. \A s \in Shards : Announcing(s)' => arena'.count < DirectoryCapacity /\ HasRow(arena.count + 1)'
  BY <1>1, <1>2, <1>4, Zenon DEF DirectoryInv
<1>6. \A n \in 2 .. arena'.count : HasRow(n)'
  BY <1>1, Zenon DEF DirectoryInv
<1>7. \A s, t \in Shards : Announcing(s)' /\ Announcing(t)' => s = t
  BY <1>2, Zenon DEF DirectoryInv
<1> QED BY <1>3, <1>5, <1>6, <1>7, Zenon DEF DirectoryInv

\* Finitely many losses are in progress.
LEMMA LosingFinite ==
    ASSUME Setting, NEW h
    PROVE  IsFiniteSet(Losing(h)) /\ Cardinality(Losing(h)) \in Nat
<1>1. IsFiniteSet(Shards)
  BY FiniteInterval DEF Shards, Setting, Sizes
<1>2. IsFiniteSet(Losing(h))
  BY <1>1, FiniteSubset, Zenon DEF Losing
<1> QED BY <1>2, CountIsNatural, Zenon

\* The types of the loss ledger.
LEMMA LossTypes ==
    ASSUME NEW a \in Arenas
    PROVE  a.started \in Nat /\ a.lost \in Nat /\ a.cells \in Cells /\ a.lease \in Held
BY Zenon DEF Arenas

\* The types of what the sink holds.
LEMMA SinkTypes ==
    ASSUME TypeInv
    PROVE  /\ sink.safe \in Nat /\ sink.losses \in Nat /\ sink.directory \in Nat
           /\ sink.emitted \in Outputs /\ sink.rows \in Rings
           /\ \A s \in Shards : sink.sequences[s] \in Nat /\ sink.rows[s] \in Seq(Row)
BY Zenon DEF TypeInv, Sinks, Counters, Rings

\* The types of a snapshot.
LEMMA SnapTypes ==
    ASSUME NEW c \in Snaps
    PROVE  /\ c.safe \in Nat /\ c.revision \in Nat /\ c.cells \in Cells /\ c.sequences \in Counters
           /\ c.phase \in SnapPhases /\ c.available \in BOOLEAN
           /\ \A s \in Shards : c.sequences[s] \in Nat
BY Zenon DEF Snaps, Counters

\* A promise is kept as the rings grow and are read.
LEMMA PromisesKept ==
    \A s \in Shards : \A q \in Nat : \A safe \in Nat : TypeInv /\ RingInv /\ Growth /\
      Promised(s, q, safe) =>
        Promise(arena'.written[s], arena'.read[s], arena'.progress[s], q, safe)
\* A promise outlives the growth of its ring.
<1>PromiseKept. ASSUME NEW w \in Seq(Row), NEW v \in Seq(Row), NEW r \in Nat, NEW q \in Nat,
                       NEW p \in Progresses, NEW o \in Progresses, NEW sequence \in Nat, NEW safe \in Nat,
                       r <= Len(w), Promise(w, r, p, sequence, safe), Grown(w, r, p, v, q, o)
                PROVE  Promise(v, q, o, sequence, safe)
  <2> USE <1>PromiseKept
  <2>1. /\ Len(w) \in Nat /\ Len(v) \in Nat /\ \A k \in 1 .. Len(w) : w[k].arrival \in Nat
        /\ \A k \in 1 .. Len(v) : v[k].arrival \in Nat
    BY RowNumbers, Zenon
  <2>2. /\ sequence <= r /\ r <= q /\ Len(w) <= Len(v) /\ \A k \in 1 .. Len(w) : v[k] = w[k]
        /\ \A k \in sequence + 1 .. Len(w) : safe <= w[k].arrival
    BY Zenon DEF Promise, Grown
  <2>3. sequence <= q
    BY <2>2
  <2>4. ASSUME NEW k \in sequence + 1 .. Len(v) PROVE safe <= v[k].arrival
    <3>1. CASE k \in sequence + 1 .. Len(w)
      <4>1. k \in 1 .. Len(w)
        BY <2>1, <3>1
      <4> QED BY <2>2, <3>1, <4>1, Zenon
    <3>2. CASE k \in Len(w) + 1 .. Len(v)
      <4>1. v[k].arrival \in Nat
        BY <2>1, <3>2
      <4>2. CASE p = None
        <5>1. safe = 0
          BY <4>2, Zenon DEF Promise
        <5> QED BY <4>1, <5>1
      <4>3. CASE p # None
        <5>1. p.time \in Nat /\ safe <= p.time /\ p.time <= v[k].arrival
          BY <3>2, <4>3, ReportNumbers, Zenon DEF Promise, Grown
        <5> QED BY <4>1, <5>1
      <4> QED BY <4>2, <4>3, Zenon
    <3>3. k \in sequence + 1 .. Len(w) \/ k \in Len(w) + 1 .. Len(v)
      BY <2>1, <2>2
    <3> QED BY <3>1, <3>2, <3>3, Zenon
  <2>5. o = None => sequence = 0 /\ safe = 0
    BY Zenon DEF Promise, Grown
  <2>6. ASSUME o # None PROVE sequence <= o.write /\ safe <= o.time
    <3>1. o.write \in Nat /\ o.time \in Nat
      BY <2>6, ReportNumbers, Zenon
    <3>2. CASE p = None
      <4>1. sequence = 0 /\ safe = 0
        BY <3>2, Zenon DEF Promise
      <4> QED BY <3>1, <4>1
    <3>3. CASE p # None
      <4>1. /\ p.write \in Nat /\ p.time \in Nat /\ sequence <= p.write /\ safe <= p.time
            /\ p.write <= o.write /\ p.time <= o.time
        BY <3>3, ReportNumbers, Zenon DEF Promise, Grown
      <4> QED BY <3>1, <4>1
    <3> QED BY <3>2, <3>3, Zenon
  <2> QED BY <2>3, <2>4, <2>5, <2>6, Zenon DEF Promise
<1> SUFFICES ASSUME TypeInv, RingInv, Growth, NEW s \in Shards, NEW q \in Nat, NEW safe \in Nat, Promised(s, q, safe)
             PROVE  Promise(arena'.written[s], arena'.read[s], arena'.progress[s], q, safe)
  BY Zenon
<1>1. /\ arena.written[s] \in Seq(Row) /\ arena.read[s] \in Nat /\ arena.progress[s] \in Progresses
      /\ arena'.written[s] \in Seq(Row) /\ arena'.read[s] \in Nat /\ arena'.progress[s] \in Progresses
      /\ arena.read[s] <= Len(arena.written[s])
      /\ Promise(arena.written[s], arena.read[s], arena.progress[s], q, safe)
      /\ Grown(arena.written[s], arena.read[s], arena.progress[s],
               arena'.written[s], arena'.read[s], arena'.progress[s])
  BY ArenaTypes, Zenon DEF TypeInv, Growth, RingInv, GrownAt, Promised
<1> QED BY <1>1, <1>PromiseKept, Zenon

\* The last report stays true as the rings grow and are read.
LEMMA SinkGrows ==
    ASSUME TypeInv, RingInv, SinkInv, Growth, SameReport, arena.lost <= arena'.lost
    PROVE  SinkInv'
<1>1. \A s \in Shards : Promise(arena'.written[s], arena'.read[s], arena'.progress[s], sink.sequences[s], sink.safe)
  BY SinkTypes, PromisesKept, Zenon DEF SinkInv
<1>2. sink.losses <= arena'.lost
  <2>1. /\ sink.losses \in Nat /\ arena.lost \in Nat /\ arena'.lost \in Nat /\ sink.losses <= arena.lost
        /\ arena.lost <= arena'.lost
    BY SinkTypes, LossTypes, Zenon DEF TypeInv, Growth, SinkInv
  <2> QED BY <2>1
<1> QED BY <1>1, <1>2, Zenon DEF SinkInv, SameReport, Promised

\* So does what a snapshot has read so far, ...
LEMMA SnapGrows ==
    Setting /\ TypeInv /\ RingInv /\ LossInv /\ SnapInv /\ Growth /\ SameReport /\
      (client' = client) /\ (arena.lost <= arena'.lost) /\ (arena.started <= arena'.started) /\
      (arena'.cells = arena.cells \/ arena.started > arena.lost) =>
        SnapInv'
\* A moment at which both halves of the epoch agree: no loss is being counted.
<1>StartedLost. ASSUME Setting, TypeInv, LossInv
                PROVE  arena.lost <= arena.started
  <2> USE <1>StartedLost
  <2>1. arena.lost \in Nat /\ arena.started = arena.lost + Cardinality(Losing(arena.lease))
    BY LossTypes, Zenon DEF TypeInv, LossInv
  <2>2. Cardinality(Losing(arena.lease)) \in Nat
    BY LosingFinite, Zenon
  <2> QED BY <2>1, <2>2
<1> SUFFICES ASSUME Setting, TypeInv, RingInv, LossInv, SnapInv, Growth, SameReport, client' = client,
                    arena.lost <= arena'.lost, arena.started <= arena'.started,
                    arena'.cells = arena.cells \/ arena.started > arena.lost
             PROVE  SnapInv'
  BY Zenon
<1> SUFFICES ASSUME InSnapshot' PROVE SnapInv'
  BY Zenon DEF SnapInv
<1>1. InSnapshot /\ client.snap \in Snaps
  BY Zenon DEF InSnapshot, TypeInv
<1>2. PICK c : c = client.snap
  BY Zenon
<1>3. /\ c \in Snaps /\ c.revision <= arena.lost /\ sink.losses <= c.revision
      /\ c.available => \A s \in Shards : Visited(s) => Promised(s, c.sequences[s], c.safe)
      /\ arena.started = c.revision =>
           \A n \in Sources : c.cells[n] = IF c.phase = "cells" /\ n < client.at THEN arena.cells[n] ELSE 0
  BY <1>1, <1>2, Zenon DEF SnapInv
<1>4. /\ arena.started \in Nat /\ arena.lost \in Nat /\ arena'.started \in Nat /\ arena'.lost \in Nat
      /\ c.revision \in Nat /\ arena.lost <= arena.started
  BY <1>3, LossTypes, SnapTypes, <1>StartedLost, Zenon DEF TypeInv, Growth
<1>5. /\ c.revision <= arena'.lost
      /\ arena'.started = c.revision => arena.started = c.revision /\ ~(arena.started > arena.lost)
  BY <1>3, <1>4
<1>6. arena'.started = c.revision =>
           \A n \in Sources : c.cells[n] = IF c.phase = "cells" /\ n < client.at THEN arena'.cells[n] ELSE 0
  <2> SUFFICES ASSUME arena'.started = c.revision
               PROVE  \A n \in Sources : c.cells[n] = IF c.phase = "cells" /\ n < client.at THEN arena'.cells[n] ELSE 0
    BY Zenon
  <2>1. arena'.cells = arena.cells /\ arena.started = c.revision
    BY <1>5, Zenon
  <2>2. \A n \in Sources : c.cells[n] = IF c.phase = "cells" /\ n < client.at THEN arena.cells[n] ELSE 0
    BY <1>3, <2>1, Zenon
  <2> QED BY <2>1, <2>2
<1>7. c.available => \A s \in Shards : Visited(s) =>
         Promise(arena'.written[s], arena'.read[s], arena'.progress[s], c.sequences[s], c.safe)
  BY <1>3, SnapTypes, PromisesKept, Zenon
<1>8. \A s \in Shards : Visited(s)' <=> Visited(s)
  BY Zenon DEF Visited
<1>9. /\ client.at >= 1
      /\ c.phase = "shards" => client.at <= ShardCount /\ c.available
      /\ c.available => /\ sink.safe <= c.safe
                        /\ \A s \in Shards : Visited(s) => sink.sequences[s] <= c.sequences[s]
  BY <1>1, <1>2, Zenon DEF SnapInv
<1>10. client'.snap = c /\ client'.at = client.at /\ sink'.safe = sink.safe /\ sink'.sequences = sink.sequences
       /\ sink'.losses = sink.losses
  BY <1>2, Zenon DEF SameReport
<1>11. c.available => \A s \in Shards : Visited(s)' =>
               /\ Promise(arena'.written[s], arena'.read[s], arena'.progress[s], c.sequences[s], c.safe)
               /\ sink'.sequences[s] <= c.sequences[s]
  BY <1>7, <1>8, <1>9, <1>10, Zenon
<1> HIDE DEF Visited
<1> QED BY <1>3, <1>5, <1>6, <1>9, <1>10, <1>11, Zenon DEF SnapInv, Promised

\* How many rows of a shard were emitted is a natural number.
LEMMA CountType ==
    ASSUME Setting, NEW out \in Outputs, NEW s
    PROVE  /\ Count(out, s) \in Nat /\ DOMAIN out = 1 .. Len(out) /\ Len(out) \in Nat
           /\ IsFiniteSet({i \in DOMAIN out : out[i].shard = s})
<1>1. DOMAIN out = 1 .. Len(out) /\ Len(out) \in Nat
  BY DEF Outputs
<1>2. IsFiniteSet(1 .. Len(out))
  BY <1>1, FiniteInterval
<1>3. IsFiniteSet({i \in DOMAIN out : out[i].shard = s})
  BY <1>1, <1>2, FiniteSubset, Zenon
<1> QED BY <1>1, <1>3, CountIsNatural, Zenon DEF Count

\* A row committed later is at or past the safe time, so after all that was emitted.
LEMMA EmitGrows ==
    ASSUME Setting, TypeInv, RingInv, SinkInv, EmitInv, Growth, SameReport, SinkInv', sink'.emitted = sink.emitted
    PROVE  EmitInv'
<1>1. PICK out : out = sink.emitted /\ out \in Outputs
  BY SinkTypes, Zenon
<1>2. ASSUME NEW i \in DOMAIN out, NEW s \in Shards, NEW k \in Count(out, s) + 1 .. Len(arena'.written[s])
      PROVE  NotAfter(out[i], arena'.written[s][k].arrival, s)
  <2>1. PICK w, v, q : w = arena.written[s] /\ v = arena'.written[s] /\ q = sink.sequences[s]
    BY Zenon
  <2>2. /\ w \in Seq(Row) /\ v \in Seq(Row) /\ q \in Nat /\ Count(out, s) \in Nat
        /\ Len(w) <= Len(v) /\ \A j \in 1 .. Len(w) : v[j] = w[j]
        /\ q <= arena.read[s] /\ arena.read[s] <= Len(w) /\ arena.read[s] \in Nat
        /\ \A j \in q + 1 .. Len(v) : sink.safe <= v[j].arrival
        /\ \A j \in Count(out, s) + 1 .. Len(w) : NotAfter(out[i], w[j].arrival, s)
        /\ out[i].arrival < sink.safe /\ sink.safe \in Nat
    BY <1>1, <2>1, ArenaTypes, SinkTypes, CountType, Zenon
       DEF TypeInv, Growth, GrownAt, Grown, RingInv, SinkInv, SameReport, Promised, Promise, EmitInv
  <2>3. CASE k \in 1 .. Len(w)
    <3>1. k \in Count(out, s) + 1 .. Len(w)
      BY <2>1, <2>2, <2>3
    <3> QED BY <2>1, <2>2, <2>3, <3>1, Zenon
  <2>4. CASE k \notin 1 .. Len(w)
    <3>1. k \in q + 1 .. Len(v) /\ k \in 1 .. Len(v)
      <4>1. PICK a, b, c : a = Len(w) /\ b = Len(v) /\ c = Count(out, s)
        BY Zenon
      <4>2. a \in Nat /\ b \in Nat
        BY <2>2, <4>1
      <4>3. /\ q \in Nat /\ c \in Nat /\ arena.read[s] \in Nat /\ q <= arena.read[s] /\ arena.read[s] <= a
            /\ k \in c + 1 .. b /\ k \notin 1 .. a
        BY <2>1, <2>2, <2>4, <4>1, Zenon
      <4>4. k \in q + 1 .. b /\ k \in 1 .. b
        BY <4>2, <4>3
      <4> QED BY <4>1, <4>4, Zenon
    <3>2. sink.safe <= v[k].arrival /\ v[k].arrival \in Nat
      BY <2>2, <3>1, RowNumbers, Zenon
    <3>3. out[i].arrival \in Nat
      <4>1. out[i] \in Emissions
        BY <1>1 DEF Outputs
      <4> QED BY <4>1, Zenon DEF Emissions
    <3>4. out[i].arrival < v[k].arrival
      BY <2>2, <3>2, <3>3
    <3> QED BY <2>1, <3>4, Zenon DEF NotAfter
  <2> QED BY <2>3, <2>4, Zenon
<1>3. sink'.emitted = out /\ sink'.safe = sink.safe /\ sink'.sequences = sink.sequences
  BY <1>1, Zenon DEF SameReport
<1>4. \A i \in DOMAIN sink'.emitted : sink'.emitted[i].arrival < sink'.safe
  BY <1>1, <1>3, Zenon DEF EmitInv
<1>5. \A s \in Shards : Count(sink'.emitted, s) <= sink'.sequences[s]
  BY <1>1, <1>3, Zenon DEF EmitInv
<1>6. \A i \in DOMAIN sink'.emitted : \A s \in Shards :
         \A k \in Count(sink'.emitted, s) + 1 .. Len(arena'.written[s]) :
            NotAfter(sink'.emitted[i], arena'.written[s][k].arrival, s)
  BY <1>2, <1>3, Zenon
<1>7. MergedByArrival'
  <2>1. MergedByArrival
    BY Zenon DEF EmitInv
  <2>2. sink'.emitted = sink.emitted
    BY <1>1, <1>3, Zenon
  <2> QED BY <2>1, <2>2, Zenon DEF MergedByArrival
<1> QED BY <1>4, <1>5, <1>6, <1>7, Zenon DEF EmitInv

\* An arena that stays as it is counts as grown.
LEMMA StillGrows ==
    ASSUME TypeInv, arena' = arena
    PROVE  Growth
<1>1. ASSUME NEW t \in Shards PROVE GrownAt(t)
  <2>1. /\ arena.written[t] \in Seq(Row) /\ arena.read[t] \in Nat /\ arena.progress[t] \in Progresses
    BY ArenaTypes, Zenon DEF TypeInv
  <2> QED BY <2>1, GrownSame, Zenon DEF GrownAt
<1> QED BY <1>1, Zenon DEF Growth, TypeInv

\* A snapshot whose revisions still hold has read the whole ledger.
LEMMA SnapComplete ==
    ASSUME Setting, TypeInv, DirectoryInv, LossInv, SnapInv, client.pc = "snapshot",
           client.snap.phase = "cells", client.at > client.sources, SameCut
    PROVE  client.snap.cells = arena.cells /\ Total(client.snap.cells) = client.snap.revision
<1>1. PICK c : c = client.snap /\ c \in Snaps
  BY Zenon DEF TypeInv, InSnapshot
<1>2. /\ c.cells \in Cells /\ arena.cells \in Cells /\ arena.lost = c.revision
      /\ arena.started = c.revision /\ arena.count = client.sources
  BY <1>1, LossTypes, SnapTypes, Zenon DEF TypeInv, SameCut
<1>3. \A n \in Sources : c.cells[n] = IF c.phase = "cells" /\ n < client.at THEN arena.cells[n] ELSE 0
  BY <1>1, <1>2, Zenon DEF SnapInv, InSnapshot
<1>4. \A n \in Sources : n < client.at \/ n > arena.count
  <2>1. client.at \in Nat /\ client.sources \in Nat /\ client.at > client.sources
    BY Zenon DEF TypeInv, ClientStates
  <2> QED BY <1>2, <2>1 DEF Sources
<1>5. \A n \in Sources : c.cells[n] = arena.cells[n]
  <2>1. ASSUME NEW n \in Sources PROVE c.cells[n] = arena.cells[n]
    <3>1. CASE n < client.at
      BY <1>1, <1>3, <3>1, Zenon
    <3>2. CASE ~(n < client.at)
      <4>1. arena.cells[n] = 0
        BY <1>4, <3>2, Zenon DEF DirectoryInv
      <4>2. c.cells[n] = 0
        BY <1>3, <3>2, Zenon
      <4> QED BY <4>1, <4>2, Zenon
    <3> QED BY <3>1, <3>2, Zenon
  <2> QED BY <2>1, Zenon
<1>6. c.cells = arena.cells
  BY <1>2, <1>5 DEF Cells
<1> QED BY <1>1, <1>2, <1>6, Zenon DEF LossInv

\* Rings that are drained hold no row of a source the client has not copied.
LEMMA DrainedIsCopied ==
    ASSUME Setting, TypeInv, RingInv, DirectoryInv, \A s \in Shards : Pending(s) = 0
    PROVE  /\ arena.count = client.sources
           /\ \A s \in Shards : arena.read[s] = Len(arena.written[s])
<1>1. ASSUME NEW s \in Shards PROVE arena.read[s] = Len(arena.written[s])
  <2>1. /\ arena.written[s] \in Seq(Row) /\ arena.read[s] \in Nat /\ Len(arena.written[s]) - arena.read[s] = 0
    BY ArenaTypes, Zenon DEF TypeInv, Pending
  <2>2. Len(arena.written[s]) \in Nat
    BY <2>1, RowNumbers, Zenon
  <2> QED BY <2>1, <2>2
<1>2. /\ arena.count \in Nat /\ client.sources \in Nat /\ client.sources <= arena.count
      /\ 1 <= client.sources /\ arena.count \in Sources
  BY DirectoryTypes, Zenon DEF DirectoryInv, DirectoryNumbers
<1>3. CASE arena.count \in 2 .. arena.count
  <2>1. PICK t \in Shards : \E k \in 1 .. Len(arena.written[t]) : arena.written[t][k].source = arena.count
    BY <1>3, Zenon DEF DirectoryInv, HasRow
  <2>2. PICK k \in 1 .. Len(arena.written[t]) : arena.written[t][k].source = arena.count
    BY <2>1, Zenon
  <2>3. k \in 1 .. arena.read[t]
    BY <1>1, <2>2, Zenon
  <2>4. arena.count <= client.sources
    BY <2>2, <2>3, Zenon DEF RingInv
  <2>5. arena.count = client.sources
    BY <1>2, <2>4
  <2> QED BY <1>1, <2>5, Zenon
<1>4. CASE arena.count \notin 2 .. arena.count
  <2>1. arena.count = client.sources
    BY <1>2, <1>4
  <2> QED BY <1>1, <2>1, Zenon
<1> QED BY <1>3, <1>4, Zenon

\* With no lease held no loss is being counted.
LEMMA QuietIsCounted ==
    ASSUME Setting, TypeInv, LossInv, \A s \in Shards : Quiet(s)
    PROVE  arena.started = arena.lost
<1>1. Losing(arena.lease) = {}
  <2>1. \A s \in Shards : arena.lease[s].phase # "loss"
    BY NoneIsNoReport, Zenon DEF Quiet
  <2> QED BY <2>1, Zenon DEF Losing
<1>2. Cardinality(Losing(arena.lease)) = 0
  BY <1>1, CountOfEmpty, Zenon
<1>3. arena.lost \in Nat /\ arena.started = arena.lost + 0
  BY <1>2, LossTypes, Zenon DEF TypeInv, LossInv
<1> QED BY <1>3

\* The client goes on elsewhere, or inside the same snapshot.
LEMMA StopStill ==
    ASSUME StopInv, arena'.lease = arena.lease, SameDoor, SameDirectory,
           client'.how = "stop" => client.how = "stop",
           client.how = "stop" => client'.known = arena.generation, ~Sealing'
    PROVE  StopInv'
<1> SUFFICES ASSUME client'.how = "stop" PROVE StopInv'
  BY Zenon DEF StopInv
<1>1. ~arena'.attached /\ client'.known = arena'.generation
  BY Zenon DEF StopInv, SameDoor, SameDirectory
<1>2. (\A s \in Shards : Quiet(s))'
  BY Zenon DEF StopInv, Quiet
<1>3. client'.pc # "sealed"
  BY Zenon DEF Sealing
<1> QED BY <1>1, <1>2, <1>3, Zenon DEF StopInv

\* It holds of a mapped arena with one source and of a client that has done nothing.
LEMMA InitHolds ==
    Setting /\ Init => IInv
\* No cell counts anything: the sum is 0.
<1>TotalOfNone. ASSUME Setting
                PROVE  NoCells \in Cells /\ Total(NoCells) = 0
  <2> USE <1>TotalOfNone
  <2>0. DirectoryCapacity \in Nat
    BY DEF Setting, Sizes
  <2>1. NoCells \in Cells /\ \A n \in 1 .. DirectoryCapacity : NoCells[n] = 0
    BY DEF NoCells, Cells, Sources
  <2>2. PICK f : PartSums(NoCells, DirectoryCapacity, f) /\ Total(NoCells) = f[DirectoryCapacity]
    BY <2>1, TotalIsSum, Zenon
  <2> DEFINE T == {n \in Nat : f[n] = 0}
  <2>3. 0 \in T
    BY <2>2, Zenon DEF PartSums
  <2>4. ASSUME NEW n \in 1 .. DirectoryCapacity, n - 1 \in T PROVE n \in T
    <3>1. f[n] = f[n - 1] + NoCells[n]
      BY <2>2, <2>4, Zenon DEF PartSums
    <3>2. f[n - 1] = 0 /\ NoCells[n] = 0
      BY <2>1, <2>4, Zenon
    <3>3. f[n] = 0 + 0
      BY <3>1, <3>2, Zenon
    <3>4. 0 + 0 = 0 /\ n \in Nat
      BY <2>0
    <3> QED BY <3>3, <3>4, Zenon
  <2>5. \A n \in 0 .. DirectoryCapacity : n \in T
    <3> HIDE DEF T
    <3> QED BY <2>0, <2>3, <2>4, UpTo, Zenon
  <2>6. DirectoryCapacity \in 0 .. DirectoryCapacity
    BY <2>0
  <2> QED BY <2>1, <2>2, <2>5, <2>6, Zenon
<1> SUFFICES ASSUME Setting, Init
             PROVE  IInv
  BY Zenon
<1>1. /\ 1 \in Sources /\ 1 \in Shards /\ 0 \in Nat /\ 1 \in Nat
      /\ \A n \in 2 .. 1 : FALSE
      /\ \A k \in 1 .. 0 : FALSE
      /\ 0 <= 0 /\ 1 <= 1 /\ 0 <= 1 /\ 1 <= MaxClock + 1 /\ 0 + 0 = 0
      /\ \A r \in Nat : r + 1 >= 1
  BY DEF Sources, Shards, Setting, Sizes
<1>2. <<>> \in Seq(Row) /\ Len(<<>>) = 0 /\ <<>> \in Outputs /\ SubSeq(<<>>, 1, 0) = <<>> /\ DOMAIN <<>> = {}
  BY DEF Outputs
<1>3. /\ [s \in Shards |-> <<>>] \in Rings /\ [s \in Shards |-> 0] \in Counters
      /\ [s \in Shards |-> None] \in Held /\ [s \in Shards |-> None] \in Told
      /\ NoCells \in Cells /\ Total(NoCells) = 0 /\ None \in SnapOrNone
  BY <1>1, <1>2, <1>TotalOfNone, Zenon DEF Rings, Counters, Held, Told, Leases, SnapOrNone
<1>4. /\ arena.written = [s \in Shards |-> <<>>] /\ arena.read = [s \in Shards |-> 0]
      /\ arena.lease = [s \in Shards |-> None] /\ arena.progress = [s \in Shards |-> None]
      /\ arena.generation = 1 /\ arena.count = 1 /\ arena.started = 0 /\ arena.lost = 0
      /\ arena.cells = NoCells /\ arena \in Arenas
  BY <1>1, <1>3, Zenon DEF Init, Arenas, NoCells
<1>5. /\ client.pc = "idle" /\ client.known = 1 /\ client.sources = 1 /\ client.how = "running"
      /\ client \in ClientStates /\ clock = 1
  BY <1>1, <1>3, Zenon DEF Init, ClientStates, Places, Hows
<1>6. /\ sink.rows = [s \in Shards |-> <<>>] /\ sink.catalog = 1 /\ sink.safe = 0
      /\ sink.sequences = [s \in Shards |-> 0] /\ sink.losses = 0 /\ sink.directory = 0
      /\ sink.refused = FALSE /\ sink.emitted = <<>> /\ sink \in Sinks
  BY <1>1, <1>2, <1>3, Zenon DEF Init, Sinks, NoCells
<1>7. ~InSnapshot /\ ~Sealing
  BY <1>5, Zenon DEF InSnapshot, Sealing
<1>8. \A s \in Shards : /\ arena.written[s] = <<>> /\ arena.read[s] = 0 /\ arena.lease[s] = None
                        /\ arena.progress[s] = None /\ sink.rows[s] = <<>> /\ sink.sequences[s] = 0
  BY <1>4, <1>6, Zenon
<1>9. None.phase = "none" /\ None.phase # "row" /\ None.phase # "announced" /\ None.phase # "loss"
      /\ None.phase \notin {"row", "loss"}
  BY NoneIsNoReport, Zenon
<1>10. TypeInv
  BY <1>1, <1>4, <1>5, <1>6, <1>7, Zenon DEF TypeInv
<1>11. RingInv
  BY <1>1, <1>2, <1>5, <1>6, <1>8, Zenon DEF RingInv, RowsExactlyOnce
<1>12. DirectoryInv
  <2>1. \A n \in Sources : n > 1 => NoCells[n] = 0
    BY Zenon DEF NoCells, Sources
  <2>2. \A s \in Shards : ~Announcing(s) /\ ~Leased(s)
    BY <1>8, <1>9, Zenon DEF Announcing, Leased
  <2> QED BY <1>1, <1>4, <1>5, <1>6, <2>1, <2>2, Zenon DEF DirectoryInv
<1>13. LossInv
  <2>1. Losing(arena.lease) = {}
    BY <1>8, <1>9, Zenon DEF Losing
  <2>2. Cardinality(Losing(arena.lease)) = 0
    BY <2>1, CountOfEmpty, Zenon
  <2> QED BY <1>1, <1>3, <1>4, <2>2, Zenon DEF LossInv
<1>14. ArrivalInv
  BY <1>1, <1>2, <1>5, <1>8, <1>9, Zenon DEF ArrivalInv, Timed
<1>15. SinkInv
  <2>1. \A k \in 0 + 1 .. 0 : FALSE
    OBVIOUS
  <2>2. Promise(<<>>, 0, None, 0, 0)
    BY <1>1, <1>2, <2>1, Zenon DEF Promise
  <2> QED BY <1>1, <1>4, <1>6, <1>8, <2>2, Zenon DEF SinkInv, Promised
<1>16. EmitInv
  <2>1. ASSUME NEW s \in Shards PROVE Count(<<>>, s) = 0
    <3>1. {i \in DOMAIN <<>> : <<>>[i].shard = s} = {}
      BY <1>2, Zenon
    <3> QED BY <3>1, CountOfEmpty, Zenon DEF Count
  <2> QED BY <1>1, <1>2, <1>6, <1>8, <2>1, Zenon DEF EmitInv, MergedByArrival
<1>17. SnapInv /\ StopInv
  BY <1>5, <1>7, Zenon DEF SnapInv, StopInv
<1> QED BY <1>10, <1>11, <1>12, <1>13, <1>14, <1>15, <1>16, <1>17, Zenon DEF IInv

\* The steps of the producers and of their clock.
LEMMA ProducerKeeps ==
    Setting /\ IInv /\ Producer => IInv'
\* A lease is taken.
<1>LeaseStep. ASSUME TypeInv, NEW s \in Shards, NEW n \in Sources, Lease(s, n)
              PROVE  /\ arena.attached /\ arena.lease[s] = None /\ n <= arena.count
                     /\ arena'.lease = [arena.lease EXCEPT ![s] = LeaseOf(n)]
                     /\ SameRings /\ SameReports /\ SameDirectory /\ SameLosses /\ SameDoor /\ SameOthers
                     /\ arena' \in Arenas
  <2> USE <1>LeaseStep
  <2>1. arena \in Arenas /\ clock \in Nat
    BY Zenon DEF TypeInv
  <2>2. /\ arena.attached /\ arena.lease[s] = None /\ n \in 1 .. arena.count
        /\ arena' = [arena EXCEPT !.tries = @ + 1, !.lease[s] = LeaseOf(n)] /\ SameOthers
    BY Zenon DEF Lease, Quiet, LeaseOf, SameOthers
  <2>3. arena.count \in Nat /\ arena.tries \in Nat /\ arena.lease \in Held
    BY <2>1, Zenon DEF Arenas
  <2>4. n <= arena.count /\ arena.tries + 1 \in Nat /\ 0 \in Nat
    BY <2>2, <2>3
  <2>5. LeaseOf(n) \in Leases
    BY <2>1, <2>4, Zenon DEF LeaseOf, Leases, RowLeases, Row, Sources
  <2>6. [arena.lease EXCEPT ![s] = LeaseOf(n)] \in Held
    BY <2>3, <2>5, Zenon DEF Held
  <2>7. arena' = [arena EXCEPT !.tries = arena.tries + 1, !.lease = [arena.lease EXCEPT ![s] = LeaseOf(n)]]
    BY <2>1, <2>2, Zenon DEF Arenas
  <2>8. arena' \in Arenas
    BY <2>1, <2>4, <2>6, <2>7, Zenon DEF Arenas
  <2>9. /\ arena'.lease = [arena.lease EXCEPT ![s] = LeaseOf(n)]
        /\ SameRings /\ SameReports /\ SameDirectory /\ SameLosses /\ SameDoor
    BY <2>1, <2>7, Zenon DEF Arenas, SameRings, SameReports, SameDirectory, SameLosses, SameDoor
  <2> QED BY <2>2, <2>4, <2>8, <2>9, Zenon
\* A leased row goes into its ring, or becomes a loss in progress.
<1>CommitStep. ASSUME TypeInv, NEW s \in Shards, Commit(s)
               PROVE  /\ arena.lease[s].phase = "row" /\ arena.lease[s] \in RowLeases /\ arena.lease[s].row \in Row
                      /\ \/ /\ arena'.written = [arena.written EXCEPT ![s] = Append(@, arena.lease[s].row)]
                            /\ arena'.lease = [arena.lease EXCEPT ![s] = None]
                            /\ arena'.started = arena.started
                         \/ /\ arena'.written = arena.written
                            /\ arena'.lease = [arena.lease EXCEPT ![s] = [phase |-> "loss", row |-> arena.lease[s].row]]
                            /\ arena'.started = arena.started + 1
                      /\ arena'.read = arena.read /\ SameReports /\ SameDirectory /\ SameDoor /\ SameOthers
                      /\ arena'.lost = arena.lost /\ arena'.cells = arena.cells /\ arena' \in Arenas
  \* Changing the phase of a lease keeps its row.
  <2>LossOf. ASSUME NEW l \in RowLeases
             PROVE  [l EXCEPT !.phase = "loss"] = [phase |-> "loss", row |-> l.row]
    BY <2>LossOf, SMT DEF RowLeases
  <2> USE <1>CommitStep
  <2>1. /\ arena \in Arenas /\ arena.lease \in Held /\ arena.written \in Rings /\ arena.started \in Nat
    BY Zenon DEF TypeInv, Arenas
  <2>2. arena.lease[s].phase = "row" /\ arena.lease[s] \in Leases /\ arena.written[s] \in Seq(Row)
    BY <2>1, Zenon DEF Commit, Held, Rings
  <2>3. arena.lease[s] \in RowLeases /\ arena.lease[s].row \in Row
    <3>1. None.phase # "row" /\ \A l \in [phase : {"announced"}] : l.phase # "row"
      BY Zenon DEF None
    <3> QED BY <2>2, <3>1, Zenon DEF Leases, RowLeases
  <2>4. PICK r : r = arena.lease[s].row /\ r \in Row
    BY <2>3, Zenon
  <2>5. Append(arena.written[s], r) \in Seq(Row) /\ arena.started + 1 \in Nat
    BY <2>1, <2>2, <2>4
  <2>6. [arena.lease[s] EXCEPT !.phase = "loss"] = [phase |-> "loss", row |-> r]
    BY <2>3, <2>4, <2>LossOf, Zenon
  <2>7. [phase |-> "loss", row |-> r] \in Leases /\ None \in Leases
    BY <2>4, Zenon DEF Leases, RowLeases
  <2>8. /\ [arena.written EXCEPT ![s] = Append(@, r)] \in Rings
        /\ [arena.lease EXCEPT ![s] = None] \in Held
        /\ [arena.lease EXCEPT ![s] = [phase |-> "loss", row |-> r]] \in Held
    BY <2>1, <2>5, <2>7, Zenon DEF Rings, Held
  <2>9. \/ arena' = [arena EXCEPT !.written = [arena.written EXCEPT ![s] = Append(@, r)],
                                  !.lease = [arena.lease EXCEPT ![s] = None]]
        \/ arena' = [arena EXCEPT !.started = arena.started + 1,
                                  !.lease = [arena.lease EXCEPT ![s] = [phase |-> "loss", row |-> r]]]
    BY <2>1, <2>4, <2>6, Zenon DEF Commit, Arenas, Held
  <2>10. arena' \in Arenas
    BY <2>1, <2>5, <2>8, <2>9, Zenon DEF Arenas
  <2>11. /\ arena'.read = arena.read /\ SameReports /\ SameDirectory /\ SameDoor
         /\ arena'.lost = arena.lost /\ arena'.cells = arena.cells
    BY <2>1, <2>9, Zenon DEF Arenas, SameReports, SameDirectory, SameDoor
  <2>12. \/ /\ arena'.written = [arena.written EXCEPT ![s] = Append(@, r)]
            /\ arena'.lease = [arena.lease EXCEPT ![s] = None]
            /\ arena'.started = arena.started
         \/ /\ arena'.written = arena.written
            /\ arena'.lease = [arena.lease EXCEPT ![s] = [phase |-> "loss", row |-> r]]
            /\ arena'.started = arena.started + 1
    BY <2>1, <2>9, Zenon DEF Arenas
  <2>13. SameOthers
    BY Zenon DEF Commit, SameOthers
  <2> QED BY <2>2, <2>3, <2>4, <2>10, <2>11, <2>12, <2>13, Zenon
\* A loss in progress is counted in the cell of its source and in the epoch.
<1>CountLossStep. ASSUME TypeInv, NEW s \in Shards, CountLoss(s)
                  PROVE  /\ arena.lease[s].phase = "loss" /\ arena.lease[s].row.source \in Sources
                         /\ arena'.lease = [arena.lease EXCEPT ![s] = None]
                         /\ arena'.cells = [arena.cells EXCEPT ![arena.lease[s].row.source] = @ + 1]
                         /\ arena'.lost = arena.lost + 1 /\ arena'.started = arena.started
                         /\ SameRings /\ SameReports /\ SameDirectory /\ SameDoor /\ SameOthers
                         /\ arena' \in Arenas
  <2> USE <1>CountLossStep
  <2>1. /\ arena \in Arenas /\ arena.lease \in Held /\ arena.cells \in Cells /\ arena.lost \in Nat
    BY Zenon DEF TypeInv, Arenas
  <2>2. arena.lease[s].phase = "loss" /\ arena.lease[s] \in Leases
    BY <2>1, Zenon DEF CountLoss, Held
  <2>3. arena.lease[s].row \in Row
    <3>1. None.phase # "loss" /\ \A l \in [phase : {"announced"}] : l.phase # "loss"
      BY Zenon DEF None
    <3> QED BY <2>2, <3>1, Zenon DEF Leases, RowLeases
  <2>4. PICK n : n = arena.lease[s].row.source /\ n \in Sources
    BY <2>3, Zenon DEF Row, Sources
  <2>5. arena.cells[n] \in Nat
    BY <2>1, <2>4, Zenon DEF Cells
  <2>6. arena.cells[n] + 1 \in Nat /\ arena.lost + 1 \in Nat
    BY <2>1, <2>5
  <2>7. [arena.cells EXCEPT ![n] = @ + 1] \in Cells /\ [arena.lease EXCEPT ![s] = None] \in Held
    BY <2>1, <2>4, <2>6, Zenon DEF Cells, Held, Leases
  <2>8. arena' = [arena EXCEPT !.cells = [arena.cells EXCEPT ![n] = @ + 1], !.lost = arena.lost + 1,
                               !.lease = [arena.lease EXCEPT ![s] = None]]
    BY <2>1, <2>4, Zenon DEF CountLoss, Arenas
  <2>9. arena' \in Arenas
    BY <2>1, <2>6, <2>7, <2>8, Zenon DEF Arenas
  <2>10. /\ arena'.lease = [arena.lease EXCEPT ![s] = None]
         /\ arena'.cells = [arena.cells EXCEPT ![n] = @ + 1]
         /\ arena'.lost = arena.lost + 1 /\ arena'.started = arena.started
         /\ SameRings /\ SameReports /\ SameDirectory /\ SameDoor
    BY <2>1, <2>8, Zenon DEF Arenas, SameRings, SameReports, SameDirectory, SameDoor
  <2>11. SameOthers
    BY Zenon DEF CountLoss, SameOthers
  <2> QED BY <2>2, <2>4, <2>9, <2>10, <2>11, Zenon
\* A membership row goes into a ring before the directory lists its source.
<1>AnnounceStep. ASSUME Setting, TypeInv, arena.count \in Sources, NEW s \in Shards, Announce(s)
                 PROVE  /\ arena.attached /\ arena.lease[s] = None /\ arena.count < DirectoryCapacity
                        /\ \A t \in Shards : arena.lease[t].phase # "announced"
                        /\ NewSource \in Row
                        /\ arena'.written = [arena.written EXCEPT ![s] = Append(@, NewSource)]
                        /\ arena'.lease = [arena.lease EXCEPT ![s] = [phase |-> "announced"]]
                        /\ arena'.read = arena.read /\ SameReports /\ SameDirectory /\ SameLosses /\ SameDoor
                        /\ SameOthers /\ arena' \in Arenas
  <2> USE <1>AnnounceStep
  <2>1. /\ arena \in Arenas /\ arena.lease \in Held /\ arena.written \in Rings /\ arena.tries \in Nat
        /\ arena.generation \in Nat /\ clock \in Nat
    BY Zenon DEF TypeInv, Arenas
  <2>2. /\ arena.attached /\ arena.lease[s] = None /\ arena.count < DirectoryCapacity
        /\ \A t \in Shards : arena.lease[t].phase # "announced"
        /\ arena' = [arena EXCEPT !.tries = @ + 1, !.lease[s] = [phase |-> "announced"],
                                  !.written[s] = Append(@, NewSource)]
        /\ SameOthers
    BY Zenon DEF Announce, Quiet, NewSource, SameOthers
  <2>3. arena.count + 1 \in 1 .. DirectoryCapacity /\ arena.generation + 1 \in Nat /\ arena.tries + 1 \in Nat
    <3>1. arena.count \in 1 .. DirectoryCapacity /\ DirectoryCapacity \in Nat /\ arena.count < DirectoryCapacity
      BY <2>2, Zenon DEF Sources, Setting, Sizes
    <3> QED BY <2>1, <3>1
  <2>4. NewSource \in Row
    BY <2>1, <2>3, Zenon DEF NewSource, Row
  <2>5. PICK r : r = NewSource /\ r \in Row
    BY <2>4, Zenon
  <2>6. arena.written[s] \in Seq(Row)
    BY <2>1, Zenon DEF Rings
  <2>7. Append(arena.written[s], r) \in Seq(Row)
    BY <2>5, <2>6
  <2>8. /\ [arena.written EXCEPT ![s] = Append(@, r)] \in Rings
        /\ [arena.lease EXCEPT ![s] = [phase |-> "announced"]] \in Held
    BY <2>1, <2>7, Zenon DEF Rings, Held, Leases
  <2>9. arena' = [arena EXCEPT !.tries = arena.tries + 1,
                               !.lease = [arena.lease EXCEPT ![s] = [phase |-> "announced"]],
                               !.written = [arena.written EXCEPT ![s] = Append(@, r)]]
    BY <2>1, <2>2, <2>5, Zenon DEF Arenas
  <2>10. arena' \in Arenas
    BY <2>1, <2>3, <2>8, <2>9, Zenon DEF Arenas
  <2>11. /\ arena'.written = [arena.written EXCEPT ![s] = Append(@, r)]
         /\ arena'.lease = [arena.lease EXCEPT ![s] = [phase |-> "announced"]]
         /\ arena'.read = arena.read /\ SameReports /\ SameDirectory /\ SameLosses /\ SameDoor
    BY <2>1, <2>9, Zenon DEF Arenas, SameReports, SameDirectory, SameLosses, SameDoor
  <2> QED BY <2>2, <2>5, <2>10, <2>11, Zenon
\* The directory lists the announced source.
<1>ReleaseStep. ASSUME TypeInv, NEW s \in Shards, Release(s)
                PROVE  /\ arena.lease[s].phase = "announced"
                       /\ arena'.lease = [arena.lease EXCEPT ![s] = None]
                       /\ arena'.generation = arena.generation + 1 /\ arena'.count = arena.count + 1
                       /\ SameRings /\ SameReports /\ SameLosses /\ SameDoor /\ SameOthers /\ arena' \in Arenas
  <2> USE <1>ReleaseStep
  <2>1. arena \in Arenas /\ arena.lease \in Held /\ arena.generation \in Nat /\ arena.count \in Nat
    BY Zenon DEF TypeInv, Arenas
  <2>2. arena.generation + 1 \in Nat /\ arena.count + 1 \in Nat
    BY <2>1
  <2>3. [arena.lease EXCEPT ![s] = None] \in Held
    BY <2>1, Zenon DEF Held, Leases
  <2>4. arena' = [arena EXCEPT !.generation = arena.generation + 1, !.count = arena.count + 1,
                               !.lease = [arena.lease EXCEPT ![s] = None]]
    BY <2>1, Zenon DEF Release, Arenas
  <2>5. arena' \in Arenas
    BY <2>1, <2>2, <2>3, <2>4, Zenon DEF Arenas
  <2>6. /\ arena'.lease = [arena.lease EXCEPT ![s] = None]
        /\ arena'.generation = arena.generation + 1 /\ arena'.count = arena.count + 1
        /\ SameRings /\ SameReports /\ SameLosses /\ SameDoor
    BY <2>1, <2>4, Zenon DEF Arenas, SameRings, SameReports, SameLosses, SameDoor
  <2> QED BY <2>5, <2>6, Zenon DEF Release, SameOthers
\* A shard that holds no lease reports how far it has come.
<1>OwnerStep. ASSUME TypeInv, NEW s \in Shards, OwnerProgress(s)
              PROVE  /\ arena.attached /\ arena.lease[s] = None /\ Report(s) \in Reports
                     /\ arena'.progress = [arena.progress EXCEPT ![s] = Report(s)]
                     /\ SameRings /\ SameLeases /\ SameDirectory /\ SameLosses /\ SameDoor /\ SameOthers
                     /\ arena' \in Arenas
  <2> USE <1>OwnerStep
  <2>1. /\ arena \in Arenas /\ arena.written \in Rings /\ arena.progress \in Told /\ clock \in Nat
        /\ arena.lost \in Nat /\ arena.generation \in Nat
    BY Zenon DEF TypeInv, Arenas
  <2>2. arena.written[s] \in Seq(Row)
    BY <2>1, Zenon DEF Rings
  <2>3. Len(arena.written[s]) \in Nat
    BY <2>2
  <2>4. Report(s) \in Reports
    BY <2>1, <2>3, Zenon DEF Report, Reports
  <2>5. [arena.progress EXCEPT ![s] = Report(s)] \in Told
    BY <2>1, <2>4, Zenon DEF Told
  <2>6. /\ arena.attached /\ arena.lease[s] = None /\ SameOthers
        /\ arena' = [arena EXCEPT !.progress = [arena.progress EXCEPT ![s] = Report(s)]]
    BY <2>1, Zenon DEF OwnerProgress, Quiet, Report, Arenas, SameOthers
  <2>7. arena' \in Arenas
    BY <2>1, <2>5, <2>6, Zenon DEF Arenas
  <2>8. /\ arena'.progress = [arena.progress EXCEPT ![s] = Report(s)]
        /\ SameRings /\ SameLeases /\ SameDirectory /\ SameLosses /\ SameDoor
    BY <2>1, <2>6, Zenon DEF Arenas, SameRings, SameLeases, SameDirectory, SameLosses, SameDoor
  <2> QED BY <2>4, <2>6, <2>7, <2>8, Zenon
\* Admission closes and the socket goes: nothing else changes.
<1>DoorStep. ASSUME TypeInv, CloseAdmission \/ LoseSocket
             PROVE  /\ SameRings /\ SameLeases /\ SameReports /\ SameDirectory /\ SameLosses /\ SameOthers
                    /\ arena'.attached = arena.attached \/ ~arena'.attached
                    /\ arena' \in Arenas
  <2> USE <1>DoorStep
  <2>1. arena \in Arenas
    BY Zenon DEF TypeInv
  <2>2. arena' = [arena EXCEPT !.attached = FALSE] \/ arena' = [arena EXCEPT !.socket = FALSE]
    BY Zenon DEF CloseAdmission, LoseSocket
  <2>3. arena' \in Arenas
    BY <2>1, <2>2, Zenon DEF Arenas
  <2>4. /\ SameRings /\ SameLeases /\ SameReports /\ SameDirectory /\ SameLosses
        /\ arena'.attached = arena.attached \/ ~arena'.attached
    BY <2>1, <2>2, Zenon DEF Arenas, SameRings, SameLeases, SameReports, SameDirectory, SameLosses
  <2> QED BY <2>3, <2>4, Zenon DEF CloseAdmission, LoseSocket, SameOthers
\* Producers only add to the rings, and add nothing older than what was promised.
<1>ProducerGrows. ASSUME Setting, TypeInv, ArrivalInv, RingInv, arena.count \in Sources, Producer
                  PROVE  /\ ArrivalInv' /\ \A t \in Shards : GrownAt(t)
                         /\ arena' \in Arenas /\ clock' \in Nat /\ client' = client /\ sink' = sink
                         /\ arena'.read = arena.read
  \* A shard the step does not touch, or whose lease it only ends.
  <2>RingLeft. ASSUME TypeInv, ArrivalInv, NEW s \in Shards, clock' = clock,
                      arena'.written[s] = arena.written[s], arena'.read[s] = arena.read[s],
                      arena'.progress[s] = arena.progress[s],
                      arena'.lease[s] = arena.lease[s] \/ arena'.lease[s].phase # "row"
               PROVE  RingOf(s)' /\ GrownAt(s)
    <3> USE <2>RingLeft
    <3>1. /\ arena.written[s] \in Seq(Row) /\ arena.read[s] \in Nat /\ arena.progress[s] \in Progresses
      BY ArenaTypes, Zenon DEF TypeInv
    <3>2. GrownAt(s)
      BY <3>1, GrownSame, Zenon DEF GrownAt
    <3>3. RingOf(s)
      BY Zenon DEF ArrivalInv, RingOf
    <3>4. RingOf(s)'
      BY <3>3, Zenon DEF RingOf, Timed
    <3> QED BY <3>2, <3>4, Zenon
  \* What holds shard by shard holds of the arena.
  <2>ArrivalFrom. ASSUME ArrivalInv, clock' = clock, \A s \in Shards : RingOf(s)' /\ GrownAt(s)
                  PROVE  ArrivalInv' /\ \A s \in Shards : GrownAt(s)
    BY <2>ArrivalFrom, Zenon DEF ArrivalInv, RingOf
  \* Committing a row that is not older than what its shard has promised.
  <2>ArrivalCommitted. ASSUME TypeInv, ArrivalInv, NEW s \in Shards, NEW x \in Row, clock' = clock,
                              arena'.written = [arena.written EXCEPT ![s] = Append(@, x)],
                              arena'.read = arena.read, SameReports, NEW m, m.phase # "row",
                              arena'.lease = [arena.lease EXCEPT ![s] = m],
                              x.arrival <= clock, \A k \in 1 .. Len(arena.written[s]) : arena.written[s][k].arrival <= x.arrival,
                              arena.progress[s] # None => arena.progress[s].time <= x.arrival
                       PROVE  ArrivalInv' /\ \A t \in Shards : GrownAt(t)
    <3> USE <2>ArrivalCommitted
    <3>1. /\ arena.written[s] \in Seq(Row) /\ arena.read[s] \in Nat /\ arena.progress[s] \in Progresses
          /\ clock \in Nat /\ arena.written \in Rings /\ arena.lease \in Held
      BY ArenaTypes, Zenon DEF TypeInv, Arenas
    <3>2. /\ arena'.written[s] = Append(arena.written[s], x) /\ arena'.lease[s] = m
          /\ \A t \in Shards : t # s => arena'.written[t] = arena.written[t] /\ arena'.lease[t] = arena.lease[t]
      BY <3>1, Zenon DEF Rings, Held
    <3>3. Timed(arena.written[s], arena.lease[s], arena.progress[s], clock)
      BY Zenon DEF ArrivalInv
    <3>4. /\ Timed(Append(arena.written[s], x), m, arena.progress[s], clock)
          /\ Grown(arena.written[s], arena.read[s], arena.progress[s],
                   Append(arena.written[s], x), arena.read[s], arena.progress[s])
      BY <3>1, <3>3, RowCommitted, Zenon
    <3>5. RingOf(s)' /\ GrownAt(s)
      BY <3>2, <3>4, Zenon DEF RingOf, GrownAt, SameReports
    <3>6. ASSUME NEW t \in Shards, t # s PROVE RingOf(t)' /\ GrownAt(t)
      BY <3>2, <3>6, <2>RingLeft, Zenon DEF SameReports
    <3> QED BY <3>5, <3>6, <2>ArrivalFrom, Zenon
  \* The producer steps one by one: a lease, ...
  <2>ArrivalLease. ASSUME TypeInv, ArrivalInv, NEW s \in Shards, NEW n \in Sources, Lease(s, n)
                   PROVE  ArrivalInv' /\ \A t \in Shards : GrownAt(t)
    <3> USE <2>ArrivalLease
    <3>1. /\ SameRings /\ SameReports /\ clock' = clock
          /\ arena'.lease = [arena.lease EXCEPT ![s] = LeaseOf(n)] /\ arena.lease \in Held
      BY <1>LeaseStep, Zenon DEF SameOthers, TypeInv, Arenas
    <3>2. /\ arena'.lease[s] = LeaseOf(n) /\ LeaseOf(n).row.arrival = clock
          /\ \A t \in Shards : t # s => arena'.lease[t] = arena.lease[t]
      BY <3>1, Zenon DEF Held, LeaseOf
    <3>3. ASSUME NEW t \in Shards, t # s PROVE RingOf(t)' /\ GrownAt(t)
      BY <3>1, <3>2, <3>3, <2>RingLeft, Zenon DEF SameReports, SameRings
    <3>4. GrownAt(s)
      <4>1. /\ arena.written[s] \in Seq(Row) /\ arena.read[s] \in Nat /\ arena.progress[s] \in Progresses
        BY ArenaTypes, Zenon DEF TypeInv
      <4> QED BY <3>1, <4>1, GrownSame, Zenon DEF GrownAt, SameRings, SameReports
    <3>5. RingOf(s)'
      <4>1. RingOf(s) /\ clock <= clock
        <5>1. clock <= clock
          BY DEF TypeInv
        <5> QED BY <5>1, Zenon DEF ArrivalInv, RingOf
      <4>2. PICK l : l = LeaseOf(n) /\ l.row.arrival = clock
        BY <3>2, Zenon
      <4>3. Timed(arena.written[s], l, arena.progress[s], clock)
        BY <4>1, <4>2, Zenon DEF RingOf, Timed
      <4> QED BY <3>1, <3>2, <4>2, <4>3, Zenon DEF RingOf, SameRings, SameReports
    <3> QED BY <3>1, <3>3, <3>4, <3>5, <2>ArrivalFrom, Zenon
  \* ... a report, ...
  <2>ArrivalOwner. ASSUME TypeInv, ArrivalInv, RingInv, NEW s \in Shards, OwnerProgress(s)
                   PROVE  ArrivalInv' /\ \A t \in Shards : GrownAt(t)
    <3> USE <2>ArrivalOwner
    <3>1. /\ SameRings /\ SameLeases /\ clock' = clock /\ arena.lease[s] = None /\ Report(s) \in Reports
          /\ arena'.progress = [arena.progress EXCEPT ![s] = Report(s)] /\ arena.progress \in Told
      BY <1>OwnerStep, Zenon DEF SameOthers, TypeInv, Arenas
    <3>2. /\ arena'.progress[s] = Report(s)
          /\ \A t \in Shards : t # s => arena'.progress[t] = arena.progress[t]
      BY <3>1, Zenon DEF Told
    <3>3. ASSUME NEW t \in Shards, t # s PROVE RingOf(t)' /\ GrownAt(t)
      BY <3>1, <3>2, <3>3, <2>RingLeft, Zenon DEF SameLeases, SameRings
    <3>4. PICK w, p, o : w = arena.written[s] /\ p = arena.progress[s] /\ o = Report(s)
      BY Zenon
    <3>5. /\ w \in Seq(Row) /\ arena.read[s] \in Nat /\ p \in Progresses /\ clock \in Nat
          /\ o.write = Len(w) /\ o.time = clock /\ o # None
      BY <3>1, <3>4, ArenaTypes, NoneIsNoReport, Zenon DEF TypeInv, Report
    <3>6. Len(w) \in Nat /\ Len(w) <= Len(w) /\ arena.read[s] <= arena.read[s] /\ clock <= clock
          /\ \A k \in Len(w) + 1 .. Len(w) : FALSE
      BY <3>5
    <3>7. Timed(w, arena.lease[s], p, clock) /\ arena.lease[s].phase # "row"
      BY <3>1, <3>4, NoneIsNoReport, Zenon DEF ArrivalInv
    <3>8. Timed(w, arena.lease[s], o, clock)
      BY <3>5, <3>6, <3>7, Zenon DEF Timed
    <3>9. RingOf(s)'
      BY <3>1, <3>2, <3>4, <3>8, Zenon DEF RingOf, SameRings, SameLeases
    <3>10. Grown(w, arena.read[s], p, w, arena.read[s], o)
      BY <3>5, <3>6, <3>7, Zenon DEF Grown, Timed
    <3>11. GrownAt(s)
      BY <3>1, <3>2, <3>4, <3>10, Zenon DEF GrownAt, SameRings
    <3> QED BY <3>1, <3>3, <3>9, <3>11, <2>ArrivalFrom, Zenon
  \* ... the clock, ...
  <2>ArrivalTick. ASSUME Setting, TypeInv, ArrivalInv, Tick
                  PROVE  ArrivalInv' /\ arena' = arena /\ clock' \in Nat /\ \A t \in Shards : GrownAt(t)
    <3> USE <2>ArrivalTick
    <3>1. arena' = arena /\ clock' = clock + 1 /\ clock < MaxClock /\ clock \in Nat /\ MaxClock \in Nat
          /\ arena \in Arenas
      BY Zenon DEF Tick, TypeInv, Setting, Sizes
    <3>2. clock' \in Nat /\ clock' <= MaxClock + 1 /\ clock <= clock'
      BY <3>1
    <3>3. \A n \in Nat : n <= clock => n <= clock'
      BY <3>1, <3>2
    <3>4. ASSUME NEW s \in Shards PROVE RingOf(s)' /\ GrownAt(s)
      <4>1. PICK w, l, p : w = arena.written[s] /\ l = arena.lease[s] /\ p = arena.progress[s]
        BY Zenon
      <4>2. w \in Seq(Row) /\ l \in Leases /\ p \in Progresses /\ arena.read[s] \in Nat
        BY <3>1, <4>1, ArenaTypes, Zenon
      <4>3. Timed(w, l, p, clock)
        BY <4>1, Zenon DEF ArrivalInv
      <4>4. \A k \in 1 .. Len(w) : w[k].arrival \in Nat
        BY <4>2, RowNumbers, Zenon
      <4>5. p # None => p.time \in Nat
        BY <4>2, ReportNumbers, Zenon
      <4>6. l.phase = "row" => l.row.arrival \in Nat
        <5>1. None.phase # "row" /\ \A m \in [phase : {"announced"}] : m.phase # "row"
          BY Zenon DEF None
        <5> QED BY <4>2, <5>1, Zenon DEF Leases, RowLeases, Row
      <4>7. Timed(w, l, p, clock')
        BY <3>3, <4>3, <4>4, <4>5, <4>6, Zenon DEF Timed
      <4>8. RingOf(s)'
        BY <3>1, <4>1, <4>7, Zenon DEF RingOf
      <4>9. Grown(w, arena.read[s], p, w, arena.read[s], p)
        BY <4>2, GrownSame, Zenon
      <4> QED BY <3>1, <4>1, <4>8, <4>9, Zenon DEF GrownAt
    <3> QED BY <3>1, <3>2, <3>4, Zenon DEF ArrivalInv, RingOf
  \* ... a commit, ...
  <2>ArrivalCommit. ASSUME TypeInv, ArrivalInv, NEW s \in Shards, Commit(s)
                    PROVE  ArrivalInv' /\ \A t \in Shards : GrownAt(t)
    <3> USE <2>ArrivalCommit
    <3>1. PICK x : x = arena.lease[s].row
      BY Zenon
    <3>2. /\ arena.lease[s].phase = "row" /\ x \in Row /\ arena'.read = arena.read /\ SameReports /\ clock' = clock
          /\ arena.lease \in Held
      BY <3>1, <1>CommitStep, Zenon DEF SameOthers, TypeInv, Arenas
    <3>3. Timed(arena.written[s], arena.lease[s], arena.progress[s], clock)
      BY Zenon DEF ArrivalInv
    <3>4. /\ x.arrival <= clock /\ \A k \in 1 .. Len(arena.written[s]) : arena.written[s][k].arrival <= x.arrival
          /\ arena.progress[s] # None => arena.progress[s].time <= x.arrival
      BY <3>1, <3>2, <3>3, Zenon DEF Timed
    <3>5. CASE /\ arena'.written = [arena.written EXCEPT ![s] = Append(@, x)]
               /\ arena'.lease = [arena.lease EXCEPT ![s] = None]
      BY <3>2, <3>4, <3>5, <2>ArrivalCommitted, NoneIsNoReport, Zenon
    <3>6. CASE /\ arena'.written = arena.written
               /\ arena'.lease = [arena.lease EXCEPT ![s] = [phase |-> "loss", row |-> x]]
      <4>1. /\ arena'.lease[s].phase = "loss" /\ \A t \in Shards : t # s => arena'.lease[t] = arena.lease[t]
        <5>1. [phase |-> "loss", row |-> x].phase = "loss"
          OBVIOUS
        <5> QED BY <3>2, <3>6, <5>1, Zenon DEF Held
      <4>2. \A t \in Shards : RingOf(t)' /\ GrownAt(t)
        BY <3>2, <3>6, <4>1, <2>RingLeft, Zenon DEF SameReports
      <4> QED BY <3>2, <4>2, <2>ArrivalFrom, Zenon
    <3> QED BY <3>1, <3>5, <3>6, <1>CommitStep, Zenon
  \* ... a membership row, ...
  <2>ArrivalAnnounce. ASSUME Setting, TypeInv, ArrivalInv, arena.count \in Sources, NEW s \in Shards, Announce(s)
                      PROVE  ArrivalInv' /\ \A t \in Shards : GrownAt(t)
    <3> USE <2>ArrivalAnnounce
    <3>1. PICK x : x = NewSource
      BY Zenon
    <3>2. /\ x \in Row /\ arena'.read = arena.read /\ SameReports /\ clock' = clock
          /\ arena'.written = [arena.written EXCEPT ![s] = Append(@, x)]
          /\ arena'.lease = [arena.lease EXCEPT ![s] = [phase |-> "announced"]]
      BY <3>1, <1>AnnounceStep, Zenon DEF SameOthers
    <3>3. Timed(arena.written[s], arena.lease[s], arena.progress[s], clock) /\ x.arrival = clock
      BY <3>1, Zenon DEF ArrivalInv, NewSource
    <3>4. clock <= clock
      BY DEF TypeInv
    <3>5. /\ x.arrival <= clock /\ \A k \in 1 .. Len(arena.written[s]) : arena.written[s][k].arrival <= x.arrival
          /\ arena.progress[s] # None => arena.progress[s].time <= x.arrival
      BY <3>3, <3>4, Zenon DEF Timed
    <3>6. [phase |-> "announced"].phase # "row"
      BY Zenon
    <3> QED BY <3>2, <3>5, <3>6, <2>ArrivalCommitted, Zenon
  \* Steps that end a lease, close admission or lose the socket.
  <2>ArrivalLeft. ASSUME TypeInv, ArrivalInv,
                         \/ \E s \in Shards : CountLoss(s) \/ Release(s)
                         \/ CloseAdmission \/ LoseSocket
                  PROVE  ArrivalInv' /\ \A t \in Shards : GrownAt(t)
    <3> USE <2>ArrivalLeft
    <3>1. /\ SameRings /\ SameReports /\ clock' = clock
          /\ SameLeases \/ \E s \in Shards : arena'.lease = [arena.lease EXCEPT ![s] = None]
      BY <1>CountLossStep, <1>ReleaseStep, <1>DoorStep, Zenon DEF SameOthers
    <3>2. \A t \in Shards : arena'.lease[t] = arena.lease[t] \/ arena'.lease[t].phase # "row"
      BY <3>1, NoneIsNoReport, Zenon DEF SameLeases, TypeInv, Arenas, Held
    <3>3. \A t \in Shards : RingOf(t)' /\ GrownAt(t)
      BY <3>1, <3>2, <2>RingLeft, Zenon DEF SameReports, SameRings
    <3> QED BY <3>1, <3>3, <2>ArrivalFrom, Zenon
  <2> USE <1>ProducerGrows
  <2>1. ASSUME NEW s \in Shards, NEW n \in 1 .. DirectoryCapacity, Lease(s, n)
        PROVE  /\ ArrivalInv' /\ \A t \in Shards : GrownAt(t)
               /\ arena' \in Arenas /\ clock' = clock /\ client' = client /\ sink' = sink
               /\ arena'.read = arena.read
    <3>1. n \in Sources
      BY Zenon DEF Sources
    <3> QED BY <2>1, <3>1, <2>ArrivalLease, <1>LeaseStep, Zenon DEF SameOthers, SameRings
  <2>2. ASSUME NEW s \in Shards, Commit(s)
        PROVE  /\ ArrivalInv' /\ \A t \in Shards : GrownAt(t)
               /\ arena' \in Arenas /\ clock' = clock /\ client' = client /\ sink' = sink
               /\ arena'.read = arena.read
    BY <2>2, <2>ArrivalCommit, <1>CommitStep, Zenon DEF SameOthers
  <2>3. ASSUME NEW s \in Shards, Announce(s)
        PROVE  /\ ArrivalInv' /\ \A t \in Shards : GrownAt(t)
               /\ arena' \in Arenas /\ clock' = clock /\ client' = client /\ sink' = sink
               /\ arena'.read = arena.read
    BY <2>3, <2>ArrivalAnnounce, <1>AnnounceStep, Zenon DEF SameOthers
  <2>4. ASSUME NEW s \in Shards, OwnerProgress(s)
        PROVE  /\ ArrivalInv' /\ \A t \in Shards : GrownAt(t)
               /\ arena' \in Arenas /\ clock' = clock /\ client' = client /\ sink' = sink
               /\ arena'.read = arena.read
    BY <2>4, <2>ArrivalOwner, <1>OwnerStep, Zenon DEF SameOthers, SameRings
  <2>5. ASSUME \/ \E s \in Shards : CountLoss(s) \/ Release(s)
               \/ CloseAdmission \/ LoseSocket
        PROVE  /\ ArrivalInv' /\ \A t \in Shards : GrownAt(t)
               /\ arena' \in Arenas /\ clock' = clock /\ client' = client /\ sink' = sink
               /\ arena'.read = arena.read
    BY <2>5, <2>ArrivalLeft, <1>CountLossStep, <1>ReleaseStep, <1>DoorStep, Zenon DEF SameOthers, SameRings
  <2>6. CASE Tick
    BY <2>6, <2>ArrivalTick, Zenon DEF Tick, TypeInv
  <2>7. clock \in Nat
    BY Zenon DEF TypeInv
  <2> QED BY <2>1, <2>2, <2>3, <2>4, <2>5, <2>6, <2>7, Zenon DEF Producer
\* What was handed over stays what the rings start with, whatever the producers do.
<1>RingProducer. ASSUME Setting, TypeInv, ArrivalInv, RingInv, arena.count \in Sources, Producer
                 PROVE  RingInv'
  \* A longer ring starts the same.
  <2>SameStart. ASSUME NEW w \in Seq(Row), NEW v \in Seq(Row), NEW r \in Nat, r <= Len(w), Len(w) <= Len(v),
                       \A k \in 1 .. Len(w) : v[k] = w[k]
                PROVE  /\ SubSeq(v, 1, r) = SubSeq(w, 1, r) /\ r <= Len(v)
                       /\ \A k \in 1 .. r : v[k] = w[k]
    <3> USE <2>SameStart
    <3>1. /\ \A k \in 1 .. r : k \in 1 .. Len(w)
          /\ r <= Len(v)
      OBVIOUS
    <3>2. \A k \in 1 .. r : v[k] = w[k]
      BY <3>1, Zenon
    <3>3. /\ SubSeq(v, 1, r) \in Seq(Row) /\ SubSeq(w, 1, r) \in Seq(Row)
          /\ Len(SubSeq(v, 1, r)) = r /\ Len(SubSeq(w, 1, r)) = r
          /\ \A k \in 1 .. r : SubSeq(v, 1, r)[k] = v[k]
          /\ \A k \in 1 .. r : SubSeq(w, 1, r)[k] = w[k]
      BY <3>1
    <3>4. SubSeq(v, 1, r) = SubSeq(w, 1, r)
      <4>1. PICK x, y : x = SubSeq(v, 1, r) /\ y = SubSeq(w, 1, r)
        BY Zenon
      <4>2. x \in Seq(Row) /\ y \in Seq(Row) /\ Len(x) = r /\ Len(y) = r /\ \A k \in 1 .. r : x[k] = y[k]
        BY <3>2, <3>3, <4>1, Zenon
      <4>3. x = y
        BY <4>2
      <4> QED BY <4>1, <4>3, Zenon
    <3> QED BY <3>1, <3>2, <3>4, Zenon
  <2> USE <1>RingProducer
  <2>1. /\ \A t \in Shards : GrownAt(t)
        /\ arena' \in Arenas /\ client' = client /\ sink' = sink /\ arena'.read = arena.read
    BY <1>ProducerGrows, Zenon
  <2>2. ASSUME NEW s \in Shards
        PROVE  /\ SubSeq(arena'.written[s], 1, arena.read[s]) = SubSeq(arena.written[s], 1, arena.read[s])
               /\ arena.read[s] <= Len(arena'.written[s])
               /\ \A k \in 1 .. arena.read[s] : arena'.written[s][k] = arena.written[s][k]
    <3>1. /\ arena.written[s] \in Seq(Row) /\ arena.read[s] \in Nat /\ arena'.written[s] \in Seq(Row)
          /\ arena.read[s] <= Len(arena.written[s])
      BY <2>1, ArenaTypes, Zenon DEF TypeInv, RingInv
    <3>2. /\ Len(arena.written[s]) <= Len(arena'.written[s])
          /\ \A k \in 1 .. Len(arena.written[s]) : arena'.written[s][k] = arena.written[s][k]
      BY <2>1, Zenon DEF GrownAt, Grown
    <3> QED BY <3>1, <3>2, <2>SameStart, Zenon
  <2> QED BY <2>1, <2>2, Zenon DEF RingInv, RowsExactlyOnce
\* Whatever the producers do, a listed source has its membership row in a ring.
<1>DirectoryProducer. ASSUME Setting, TypeInv, ArrivalInv, RingInv, DirectoryInv, Producer
                      PROVE  DirectoryInv'
  \* A row that is in a ring stays there.
  <2>RowsStay. ASSUME TypeInv, \A t \in Shards : GrownAt(t), arena' \in Arenas, NEW n, HasRow(n)
               PROVE  HasRow(n)'
    <3> USE <2>RowsStay
    <3>1. PICK t \in Shards : \E k \in 1 .. Len(arena.written[t]) : arena.written[t][k].source = n
      BY Zenon DEF HasRow
    <3>2. PICK k \in 1 .. Len(arena.written[t]) : arena.written[t][k].source = n
      BY <3>1, Zenon
    <3>3. /\ Len(arena.written[t]) <= Len(arena'.written[t])
          /\ \A j \in 1 .. Len(arena.written[t]) : arena'.written[t][j] = arena.written[t][j]
          /\ arena.written[t] \in Seq(Row) /\ arena'.written[t] \in Seq(Row)
      BY ArenaTypes, Zenon DEF GrownAt, Grown, TypeInv
    <3>4. k \in 1 .. Len(arena'.written[t])
      BY <3>3
    <3> QED BY <3>2, <3>3, <3>4, Zenon DEF HasRow
  \* Nothing but the leases and the ends of the rings has changed.
  <2>DirectoryLeft. ASSUME TypeInv, DirectoryInv, \A t \in Shards : GrownAt(t), arena' \in Arenas,
                           SameDirectory, arena'.cells = arena.cells, client' = client, sink' = sink,
                           \A s \in Shards : Announcing(s)' => Announcing(s),
                           \A s \in Shards : Leased(s)' => arena'.lease[s].row.source <= arena.count
                    PROVE  DirectoryInv'
    <3> USE <2>DirectoryLeft
    <3>1. \A n : HasRow(n) => HasRow(n)'
      BY <2>RowsStay, Zenon
    <3>2. \A n \in 2 .. arena'.count : HasRow(n)'
      BY <3>1, Zenon DEF DirectoryInv, SameDirectory
    <3>3. \A s \in Shards : Announcing(s)' => arena'.count < DirectoryCapacity /\ HasRow(arena.count + 1)'
      BY <3>1, Zenon DEF DirectoryInv, SameDirectory
    <3>4. \A s \in Shards : Announcing(s)' => arena'.count < DirectoryCapacity /\ HasRow(arena.count + 1)'
                              /\ arena'.count + 1 = arena.count + 1
      BY <3>3, Zenon DEF SameDirectory
    <3>5. \A s, t \in Shards : Announcing(s)' /\ Announcing(t)' => s = t
      BY Zenon DEF DirectoryInv
    <3> QED BY <3>2, <3>4, <3>5, Zenon DEF DirectoryInv, SameDirectory
  \* The producer steps one by one: a lease, ...
  <2>DirectoryLease. ASSUME TypeInv, DirectoryInv, \A t \in Shards : GrownAt(t), NEW s \in Shards, NEW n \in Sources, Lease(s, n)
                     PROVE  DirectoryInv'
    <3> USE <2>DirectoryLease
    <3>1. /\ \A t \in Shards : GrownAt(t)
          /\ arena' \in Arenas /\ SameDirectory /\ arena'.cells = arena.cells /\ client' = client /\ sink' = sink
          /\ n <= arena.count /\ arena'.lease = [arena.lease EXCEPT ![s] = LeaseOf(n)] /\ arena.lease \in Held
      BY <1>LeaseStep, DirectoryTypes, Zenon DEF SameOthers, SameLosses, DirectoryNumbers
    <3>2. PICK l : l = LeaseOf(n) /\ l.phase = "row" /\ l.row.source = n
      <4>1. LeaseOf(n).phase = "row" /\ LeaseOf(n).row.source = n
        BY Zenon DEF LeaseOf
      <4> QED BY <4>1, Zenon
    <3>3. arena'.lease[s] = l /\ \A t \in Shards : t # s => arena'.lease[t] = arena.lease[t]
      BY <3>1, <3>2, Zenon DEF Held
    <3>4. ASSUME NEW t \in Shards PROVE Announcing(t)' => Announcing(t)
      BY <3>2, <3>3, Zenon DEF Announcing
    <3>5. ASSUME NEW t \in Shards, Leased(t)' PROVE arena'.lease[t].row.source <= arena.count
      BY <3>1, <3>2, <3>3, <3>5, Zenon DEF Leased, DirectoryInv
    <3> QED BY <3>1, <3>4, <3>5, <2>DirectoryLeft, Zenon
  \* ... a commit, ...
  <2>DirectoryCommit. ASSUME TypeInv, DirectoryInv, \A t \in Shards : GrownAt(t), NEW s \in Shards, Commit(s)
                      PROVE  DirectoryInv'
    <3> USE <2>DirectoryCommit
    <3>1. /\ \A t \in Shards : GrownAt(t)
          /\ arena' \in Arenas /\ SameDirectory /\ arena'.cells = arena.cells /\ client' = client /\ sink' = sink
          /\ arena.lease[s].phase = "row" /\ arena.lease \in Held
      BY <1>CommitStep, DirectoryTypes, Zenon DEF SameOthers, DirectoryNumbers
    <3>2. PICK l : l = [phase |-> "loss", row |-> arena.lease[s].row] /\ l.phase = "loss" /\ l.row = arena.lease[s].row
      <4>1. LET l == [phase |-> "loss", row |-> arena.lease[s].row]
            IN  l.phase = "loss" /\ l.row = arena.lease[s].row
        BY Zenon
      <4> QED BY <4>1, Zenon
    <3>3. arena'.lease = [arena.lease EXCEPT ![s] = None] \/ arena'.lease = [arena.lease EXCEPT ![s] = l]
      BY <3>2, <1>CommitStep, Zenon
    <3>4. /\ arena'.lease[s] = None \/ arena'.lease[s] = l
          /\ \A t \in Shards : t # s => arena'.lease[t] = arena.lease[t]
      BY <3>1, <3>3, Zenon DEF Held
    <3>5. None.phase = "none"
      BY NoneIsNoReport, Zenon
    <3>6. ASSUME NEW t \in Shards PROVE Announcing(t)' => Announcing(t)
      BY <3>2, <3>4, <3>5, Zenon DEF Announcing
    <3>7. ASSUME NEW t \in Shards, Leased(t)' PROVE arena'.lease[t].row.source <= arena.count
      BY <3>1, <3>2, <3>4, <3>5, <3>7, Zenon DEF Leased, DirectoryInv
    <3> QED BY <3>1, <3>6, <3>7, <2>DirectoryLeft, Zenon
  \* ... a report or a closed door, ...
  <2>DirectoryOwner. ASSUME TypeInv, DirectoryInv, \A t \in Shards : GrownAt(t),
                            (\E s \in Shards : OwnerProgress(s)) \/ CloseAdmission \/ LoseSocket
                     PROVE  DirectoryInv'
    <3> USE <2>DirectoryOwner
    <3>1. /\ \A t \in Shards : GrownAt(t)
          /\ arena' \in Arenas /\ SameDirectory /\ arena'.cells = arena.cells /\ client' = client /\ sink' = sink
          /\ arena'.lease = arena.lease
      BY <1>OwnerStep, <1>DoorStep, Zenon DEF SameOthers, SameLosses, SameLeases
    <3>2. \A s \in Shards : Announcing(s)' => Announcing(s)
      BY <3>1, Zenon DEF Announcing
    <3>3. \A s \in Shards : Leased(s)' => arena'.lease[s].row.source <= arena.count
      BY <3>1, Zenon DEF Leased, DirectoryInv
    <3> QED BY <3>1, <3>2, <3>3, <2>DirectoryLeft, Zenon
  \* ... a counted loss, ...
  <2>DirectoryCountLoss. ASSUME TypeInv, DirectoryInv, \A t \in Shards : GrownAt(t), NEW s \in Shards, CountLoss(s)
                         PROVE  DirectoryInv'
    <3> USE <2>DirectoryCountLoss
    <3>1. /\ \A t \in Shards : GrownAt(t)
          /\ arena' \in Arenas /\ SameDirectory /\ client' = client /\ sink' = sink
          /\ arena.lease[s].phase = "loss" /\ arena.lease \in Held /\ arena.lease[s].row.source \in Sources
          /\ arena'.lease = [arena.lease EXCEPT ![s] = None]
          /\ arena'.cells = [arena.cells EXCEPT ![arena.lease[s].row.source] = @ + 1]
          /\ arena.cells \in Cells
      BY <1>CountLossStep, DirectoryTypes, Zenon DEF SameOthers, DirectoryNumbers
    <3>2. arena'.lease[s] = None /\ None.phase = "none" /\ \A t \in Shards : t # s => arena'.lease[t] = arena.lease[t]
      BY <3>1, NoneIsNoReport, Zenon DEF Held
    <3>3. PICK m : m = arena.lease[s].row.source /\ m <= arena.count /\ m \in Sources
      BY <3>1, Zenon DEF DirectoryInv, Leased
    <3>4. \A n \in Sources : n > arena.count => arena'.cells[n] = 0
      <4>1. \A n \in Sources : n > arena.count => n # m
        BY <3>3, DirectoryTypes DEF DirectoryNumbers, Sources
      <4>2. \A n \in Sources : n # m => arena'.cells[n] = arena.cells[n]
        BY <3>1, <3>3, Zenon DEF Cells
      <4> QED BY <4>1, <4>2, Zenon DEF DirectoryInv
    <3>5. \A t \in Shards : Announcing(t)' => Announcing(t)
      BY <3>2, Zenon DEF Announcing
    <3>6. \A t \in Shards : Leased(t)' => arena'.lease[t].row.source <= arena.count
      BY <3>2, Zenon DEF Leased, DirectoryInv
    <3>7. \A n : HasRow(n) => HasRow(n)'
      BY <3>1, <2>RowsStay, Zenon
    <3>8. arena'.count = arena.count /\ arena'.generation = arena.generation /\ arena'.count + 1 = arena.count + 1
      BY <3>1, Zenon DEF SameDirectory
    <3>9. \A t, u \in Shards : Announcing(t)' /\ Announcing(u)' => t = u
      BY <3>5, Zenon DEF DirectoryInv
    <3>10. \A t \in Shards : Announcing(t)' => arena'.count < DirectoryCapacity /\ HasRow(arena.count + 1)'
      BY <3>5, <3>7, <3>8, Zenon DEF DirectoryInv
    <3>11. \A n \in 2 .. arena'.count : HasRow(n)'
      BY <3>7, <3>8, Zenon DEF DirectoryInv
    <3> QED BY <3>1, <3>4, <3>6, <3>8, <3>9, <3>10, <3>11, Zenon DEF DirectoryInv
  \* ... a membership row, ...
  <2>DirectoryAnnounce. ASSUME Setting, TypeInv, DirectoryInv, \A t \in Shards : GrownAt(t), NEW s \in Shards, Announce(s)
                        PROVE  DirectoryInv'
    <3> USE <2>DirectoryAnnounce
    <3>0. arena.count \in Sources
      BY Zenon DEF DirectoryInv
    <3>1. /\ \A t \in Shards : GrownAt(t)
          /\ arena' \in Arenas /\ SameDirectory /\ client' = client /\ sink' = sink
          /\ arena.lease \in Held /\ arena'.cells = arena.cells
          /\ arena.count < DirectoryCapacity /\ \A t \in Shards : ~Announcing(t)
          /\ arena'.written = [arena.written EXCEPT ![s] = Append(@, NewSource)]
          /\ arena'.lease = [arena.lease EXCEPT ![s] = [phase |-> "announced"]]
          /\ arena.written \in Rings /\ NewSource \in Row
      BY <3>0, <1>AnnounceStep, DirectoryTypes, Zenon
         DEF SameOthers, SameLosses, DirectoryNumbers, Announcing, TypeInv, Arenas
    <3>2. PICK l : l = [phase |-> "announced"] /\ l.phase = "announced"
      <4>1. [phase |-> "announced"].phase = "announced"
        BY Zenon
      <4> QED BY <4>1, Zenon
    <3>3. arena'.lease[s] = l /\ \A t \in Shards : t # s => arena'.lease[t] = arena.lease[t]
      BY <3>1, <3>2, Zenon DEF Held
    <3>6. arena'.count = arena.count /\ arena'.generation = arena.generation /\ arena'.count + 1 = arena.count + 1
      BY <3>1, Zenon DEF SameDirectory
    <3>4. HasRow(arena.count + 1)'
      <4>0. NewSource.source = arena'.count + 1 /\ arena.written[s] \in Seq(Row)
        BY <3>1, <3>6, Zenon DEF NewSource, Rings
      <4>1. PICK x, w : x = NewSource /\ x \in Row /\ x.source = arena'.count + 1 /\ w = arena.written[s] /\ w \in Seq(Row)
        BY <3>1, <4>0, Zenon
      <4>2. arena'.written[s] = Append(w, x)
        BY <3>1, <4>1, Zenon DEF Rings
      <4>3. Len(w) + 1 \in 1 .. Len(Append(w, x)) /\ Append(w, x)[Len(w) + 1] = x
        BY <4>1
      <4> QED BY <4>1, <4>2, <4>3, Zenon DEF HasRow
    <3>5. \A n : HasRow(n) => HasRow(n)'
      BY <3>1, <2>RowsStay, Zenon
    <3>7. \A t, u \in Shards : Announcing(t)' /\ Announcing(u)' => t = u
      BY <3>1, <3>3, Zenon DEF Announcing
    <3>8. \A t \in Shards : Leased(t)' => arena'.lease[t].row.source <= arena.count
      BY <3>2, <3>3, Zenon DEF Leased, DirectoryInv
    <3>9. \A n \in 2 .. arena'.count : HasRow(n)'
      BY <3>5, <3>6, Zenon DEF DirectoryInv
    <3> QED BY <3>1, <3>4, <3>6, <3>7, <3>8, <3>9, Zenon DEF DirectoryInv
  \* ... and the source it announced.
  <2>DirectoryRelease. ASSUME Setting, TypeInv, DirectoryInv, \A t \in Shards : GrownAt(t), NEW s \in Shards, Release(s)
                       PROVE  DirectoryInv'
    <3> USE <2>DirectoryRelease
    <3>1. /\ \A t \in Shards : GrownAt(t)
          /\ arena' \in Arenas /\ client' = client /\ sink' = sink
          /\ arena.lease \in Held /\ arena'.cells = arena.cells /\ Announcing(s)
          /\ arena'.lease = [arena.lease EXCEPT ![s] = None]
          /\ arena'.generation = arena.generation + 1 /\ arena'.count = arena.count + 1
      BY <1>ReleaseStep, DirectoryTypes, Zenon
         DEF SameOthers, SameLosses, DirectoryNumbers, Announcing
    <3>2. arena'.lease[s] = None /\ None.phase = "none" /\ \A t \in Shards : t # s => arena'.lease[t] = arena.lease[t]
      BY <3>1, NoneIsNoReport, Zenon DEF Held
    <3>3. \A t \in Shards : ~Announcing(t)'
      <4>1. ASSUME NEW t \in Shards, t # s PROVE ~Announcing(t)
        BY <3>1, <4>1, Zenon DEF DirectoryInv
      <4> QED BY <3>2, <4>1, Zenon DEF Announcing
    <3>4. \A n : HasRow(n) => HasRow(n)'
      BY <3>1, <2>RowsStay, Zenon
    <3>5. /\ arena.count \in Sources /\ client.sources <= arena.count /\ client.known <= arena.generation
          /\ arena.count < DirectoryCapacity /\ HasRow(arena.count + 1) /\ \A n \in 2 .. arena.count : HasRow(n)
      BY <3>1, Zenon DEF DirectoryInv
    <3>6. /\ arena'.count \in Sources /\ client.sources <= arena'.count /\ client.known <= arena'.generation
          /\ \A n \in 2 .. arena'.count : n \in 2 .. arena.count \/ n = arena.count + 1
          /\ \A n \in Nat : n <= arena.count => n <= arena'.count
          /\ \A n \in Sources : n > arena'.count => n > arena.count
      <4>1. /\ arena.count \in Sources /\ client.sources <= arena.count /\ client.known <= arena.generation
            /\ arena.count < DirectoryCapacity /\ arena'.generation = arena.generation + 1
            /\ arena'.count = arena.count + 1
            /\ arena.count \in Nat /\ arena.generation \in Nat /\ client.sources \in Nat /\ client.known \in Nat
            /\ DirectoryCapacity \in Nat
        BY <3>1, <3>5, DirectoryTypes, Zenon DEF DirectoryNumbers, Setting, Sizes
      <4> QED BY <4>1 DEF Sources
    <3>7. \A n \in 2 .. arena'.count : HasRow(n)'
      BY <3>4, <3>5, <3>6, Zenon
    <3>8. ASSUME NEW t \in Shards, Leased(t)' PROVE arena'.lease[t].row.source <= arena'.count
      <4>1. t # s /\ arena'.lease[t] = arena.lease[t]
        BY <3>2, <3>8, Zenon DEF Leased
      <4>2. arena.lease[t].row.source <= arena.count /\ arena.lease[t] \in Leases /\ Leased(t)
        BY <3>1, <3>8, <4>1, Zenon DEF Leased, DirectoryInv, Held
      <4>3. arena.lease[t].row \in Row
        <5>1. None.phase \notin {"row", "loss"} /\ \A m \in [phase : {"announced"}] : m.phase \notin {"row", "loss"}
          BY Zenon DEF None
        <5> QED BY <4>2, <5>1, Zenon DEF Leases, RowLeases, Leased
      <4>4. arena.lease[t].row.source \in 1 .. DirectoryCapacity
        BY <4>3, Zenon DEF Row
      <4>5. arena.lease[t].row.source \in Nat
        BY <4>4
      <4> QED BY <3>6, <4>1, <4>2, <4>5, Zenon
    <3> QED BY <3>1, <3>3, <3>6, <3>7, <3>8, Zenon DEF DirectoryInv
  <2> USE <1>DirectoryProducer
  <2>0. \A t \in Shards : GrownAt(t)
    BY <1>ProducerGrows, Zenon DEF DirectoryInv
  <2>1. ASSUME NEW s \in Shards, NEW n \in 1 .. DirectoryCapacity, Lease(s, n) PROVE DirectoryInv'
    <3>1. n \in Sources
      BY Zenon DEF Sources
    <3> QED BY <2>0, <2>1, <3>1, <2>DirectoryLease, Zenon
  <2>2. ASSUME Tick PROVE DirectoryInv'
    BY <2>2, Zenon DEF Tick, DirectoryInv, HasRow, Announcing, Leased
  <2> QED BY <2>0, <2>1, <2>2, <2>DirectoryCommit, <2>DirectoryCountLoss, <2>DirectoryAnnounce, <2>DirectoryRelease,
             <2>DirectoryOwner, Zenon DEF Producer
\* Whatever the producers do, the ledger adds up.
<1>LossProducer. ASSUME Setting, TypeInv, LossInv, arena.count \in Sources, Producer
                 PROVE  LossStep
  \* One more loss being counted, and one less.
  <2>LosingMore. ASSUME Setting, NEW h \in Held, NEW g \in Held, NEW s \in Shards, h[s].phase # "loss",
                        g[s].phase = "loss", \A t \in Shards : t # s => g[t] = h[t]
                 PROVE  Cardinality(Losing(g)) = Cardinality(Losing(h)) + 1
    <3> USE <2>LosingMore
    <3>1. Losing(g) = Losing(h) \cup {s} /\ s \notin Losing(h)
      BY DEF Losing
    <3>2. IsFiniteSet(Losing(h))
      BY LosingFinite, Zenon
    <3> QED BY <3>1, <3>2, CountOfAdded, Zenon
  \* Steps that leave the ledger alone.
  <2>LossLeft. ASSUME TypeInv, LossInv, SameLosses,
                      \A t \in Shards : arena'.lease[t].phase = "loss" <=> arena.lease[t].phase = "loss"
               PROVE  LossStep
    \* The losses in progress depend on the phases of the leases alone.
    <3>LosingSame. ASSUME NEW h, NEW g, \A t \in Shards : g[t].phase = "loss" <=> h[t].phase = "loss"
                   PROVE  Losing(g) = Losing(h)
      BY <3>LosingSame, Zenon DEF Losing
    <3> USE <2>LossLeft
    <3>1. Losing(arena.lease)' = Losing(arena.lease)
      BY <3>LosingSame, Zenon
    <3>2. arena.lost <= arena.lost /\ arena.started <= arena.started
      BY LossTypes DEF TypeInv
    <3> QED BY <3>1, <3>2, Zenon DEF LossInv, LossStep, SameLosses
  \* A commit that finds its ring full starts a loss.
  <2>LossCommit. ASSUME Setting, TypeInv, LossInv, NEW s \in Shards, Commit(s)
                 PROVE  LossStep
    <3> USE <2>LossCommit
    <3>1. /\ arena.lease[s].phase = "row" /\ arena'.lost = arena.lost /\ arena'.cells = arena.cells
          /\ arena.lease \in Held /\ arena.started \in Nat /\ arena.lost \in Nat /\ arena'.lease \in Held
      BY <1>CommitStep, LossTypes, Zenon DEF TypeInv
    <3>2. CASE /\ arena'.lease = [arena.lease EXCEPT ![s] = None] /\ arena'.started = arena.started
      <4>1. \A t \in Shards : arena'.lease[t].phase = "loss" <=> arena.lease[t].phase = "loss"
        BY <3>1, <3>2, NoneIsNoReport, Zenon DEF Held
      <4> QED BY <3>1, <3>2, <4>1, <2>LossLeft, Zenon DEF SameLosses
    <3>3. CASE /\ arena'.lease = [arena.lease EXCEPT ![s] = [phase |-> "loss", row |-> arena.lease[s].row]]
               /\ arena'.started = arena.started + 1
      <4>1. PICK l : l = [phase |-> "loss", row |-> arena.lease[s].row] /\ l.phase = "loss"
        <5>1. [phase |-> "loss", row |-> arena.lease[s].row].phase = "loss"
          BY Zenon
        <5> QED BY <5>1, Zenon
      <4>2. arena'.lease[s].phase = "loss" /\ \A t \in Shards : t # s => arena'.lease[t] = arena.lease[t]
        BY <3>1, <3>3, <4>1, Zenon DEF Held
      <4>3. Cardinality(Losing(arena'.lease)) = Cardinality(Losing(arena.lease)) + 1
        BY <3>1, <4>2, <2>LosingMore, Zenon
      <4>4. Cardinality(Losing(arena.lease)) \in Nat
        BY LosingFinite, Zenon
      <4>5. arena.started = arena.lost + Cardinality(Losing(arena.lease)) /\ Total(arena.cells) = arena.lost
        BY Zenon DEF LossInv
      <4>6. PICK a, b, c, d : a = Cardinality(Losing(arena.lease)) /\ b = Cardinality(Losing(arena'.lease))
                           /\ c = arena.started /\ d = arena.lost
        BY Zenon
      <4>7. b = a + 1 /\ a \in Nat /\ c = d + a /\ c \in Nat /\ d \in Nat
        BY <3>1, <4>3, <4>4, <4>5, <4>6, Zenon
      <4>8. c + 1 = d + b /\ d <= d /\ c <= c + 1
        BY <4>7
      <4> QED BY <3>1, <3>3, <4>5, <4>6, <4>8, Zenon DEF LossInv, LossStep
    <3> QED BY <3>2, <3>3, <1>CommitStep, Zenon
  \* Counting a loss ends it.
  <2>LossCounted. ASSUME Setting, TypeInv, LossInv, NEW s \in Shards, CountLoss(s)
                  PROVE  LossStep
    \* One more in one cell is one more in the sum.
    <3>TotalOfMore. ASSUME Setting, NEW c \in Cells, NEW m \in Sources
                    PROVE  /\ [c EXCEPT ![m] = @ + 1] \in Cells /\ Total(c) \in Nat
                           /\ Total([c EXCEPT ![m] = @ + 1]) = Total(c) + 1
      <4> USE <3>TotalOfMore
      <4> DEFINE e == [c EXCEPT ![m] = @ + 1]
      <4>0. DirectoryCapacity \in Nat /\ m \in 1 .. DirectoryCapacity
        BY DEF Setting, Sizes, Sources
      <4>1. /\ e \in Cells /\ c[m] \in Nat /\ e[m] = c[m] + 1
            /\ \A n \in 1 .. DirectoryCapacity : c[n] \in Nat /\ (n # m => e[n] = c[n])
        BY DEF Cells, Sources
      <4> HIDE DEF e
      <4>2. PICK f : PartSums(c, DirectoryCapacity, f) /\ Total(c) = f[DirectoryCapacity]
        BY TotalIsSum, Zenon
      <4>3. PICK g : PartSums(e, DirectoryCapacity, g) /\ Total(e) = g[DirectoryCapacity]
        BY <4>1, TotalIsSum, Zenon
      <4>4. f \in [0 .. DirectoryCapacity -> Nat] /\ f[0] = 0 /\ \A n \in 1 .. DirectoryCapacity : f[n] = f[n - 1] + c[n]
        BY <4>2, Zenon DEF PartSums
      <4>5. g \in [0 .. DirectoryCapacity -> Nat] /\ g[0] = 0 /\ \A n \in 1 .. DirectoryCapacity : g[n] = g[n - 1] + e[n]
        BY <4>3, Zenon DEF PartSums
      <4> DEFINE T == {n \in 0 .. DirectoryCapacity : g[n] = IF n < m THEN f[n] ELSE f[n] + 1}
      <4>6. 0 \in T
        BY <4>0, <4>4, <4>5
      <4>7. ASSUME NEW n \in 1 .. DirectoryCapacity, n - 1 \in T PROVE n \in T
        <5>1. g[n - 1] = IF n - 1 < m THEN f[n - 1] ELSE f[n - 1] + 1
          BY <4>7, Zenon
        <5>2. /\ g[n] = g[n - 1] + e[n] /\ f[n] = f[n - 1] + c[n] /\ c[n] \in Nat
              /\ n - 1 \in 0 .. DirectoryCapacity /\ n \in 0 .. DirectoryCapacity
          <6>1. n - 1 \in 0 .. DirectoryCapacity /\ n \in 0 .. DirectoryCapacity
            BY <4>0
          <6> QED BY <4>1, <4>4, <4>5, <6>1, Zenon
        <5>3. f[n - 1] \in Nat /\ f[n] \in Nat
          BY <4>4, <5>2, Zenon
        <5>4. e[n] = IF n = m THEN c[n] + 1 ELSE c[n]
          BY <4>1, Zenon
        <5>5. g[n] = IF n < m THEN f[n] ELSE f[n] + 1
          BY <4>0, <5>1, <5>2, <5>3, <5>4
        <5> QED BY <5>2, <5>5, Zenon
      <4>8. \A n \in 0 .. DirectoryCapacity : n \in T
        <5> HIDE DEF T
        <5> QED BY <4>0, <4>6, <4>7, UpTo, Zenon
      <4>9. DirectoryCapacity \in 0 .. DirectoryCapacity /\ ~(DirectoryCapacity < m)
        BY <4>0
      <4>10. g[DirectoryCapacity] = f[DirectoryCapacity] + 1 /\ f[DirectoryCapacity] \in Nat
        BY <4>4, <4>8, <4>9, Zenon
      <4> QED BY <4>1, <4>2, <4>3, <4>10, Zenon DEF e
    <3> USE <2>LossCounted
    <3>1. /\ arena.lease[s].phase = "loss" /\ arena.lease[s].row.source \in Sources
          /\ arena'.lost = arena.lost + 1 /\ arena'.started = arena.started
          /\ arena'.cells = [arena.cells EXCEPT ![arena.lease[s].row.source] = @ + 1]
          /\ arena'.lease = [arena.lease EXCEPT ![s] = None]
          /\ arena.lease \in Held /\ arena.started \in Nat /\ arena.lost \in Nat /\ arena'.lease \in Held
          /\ arena.cells \in Cells
      BY <1>CountLossStep, LossTypes, Zenon DEF TypeInv
    <3>2. arena'.lease[s].phase # "loss" /\ \A t \in Shards : t # s => arena.lease[t] = arena'.lease[t]
      BY <3>1, NoneIsNoReport, Zenon DEF Held
    <3>3. Cardinality(Losing(arena.lease)) = Cardinality(Losing(arena'.lease)) + 1
      BY <3>1, <3>2, <2>LosingMore, Zenon
    <3>4. Cardinality(Losing(arena'.lease)) \in Nat
      BY LosingFinite, Zenon
    <3>5. arena.started = arena.lost + Cardinality(Losing(arena.lease)) /\ Total(arena.cells) = arena.lost
      BY Zenon DEF LossInv
    <3>6. Total(arena'.cells) = Total(arena.cells) + 1
      BY <3>1, <3>TotalOfMore, Zenon
    <3>7. PICK a, b, c, d : a = Cardinality(Losing(arena.lease)) /\ b = Cardinality(Losing(arena'.lease))
                         /\ c = arena.started /\ d = arena.lost
      BY Zenon
    <3>8. a = b + 1 /\ b \in Nat /\ c = d + a /\ c \in Nat /\ d \in Nat
      BY <3>1, <3>3, <3>4, <3>5, <3>7, Zenon
    <3>9. c = (d + 1) + b /\ d <= d + 1 /\ c <= c /\ c > d
      BY <3>8
    <3> QED BY <3>1, <3>5, <3>6, <3>7, <3>9, Zenon DEF LossInv, LossStep
  <2> USE <1>LossProducer
  <2>0. arena.lease \in Held
    BY LossTypes, Zenon DEF TypeInv
  <2>1. ASSUME NEW s \in Shards, NEW n \in 1 .. DirectoryCapacity, Lease(s, n) PROVE LossStep
    <3>1. n \in Sources /\ LeaseOf(n).phase = "row"
      BY Zenon DEF Sources, LeaseOf
    <3>2. SameLosses /\ arena.lease[s] = None /\ arena'.lease = [arena.lease EXCEPT ![s] = LeaseOf(n)]
      BY <2>1, <3>1, <1>LeaseStep, Zenon
    <3>3. \A t \in Shards : arena'.lease[t].phase = "loss" <=> arena.lease[t].phase = "loss"
      BY <2>0, <3>1, <3>2, NoneIsNoReport, Zenon DEF Held
    <3> QED BY <3>2, <3>3, <2>LossLeft, Zenon
  <2>2. ASSUME NEW s \in Shards, Announce(s) PROVE LossStep
    <3>1. [phase |-> "announced"].phase = "announced"
      BY Zenon
    <3>2. /\ SameLosses /\ arena.lease[s] = None
          /\ arena'.lease = [arena.lease EXCEPT ![s] = [phase |-> "announced"]]
      BY <2>2, <1>AnnounceStep, Zenon
    <3>3. \A t \in Shards : arena'.lease[t].phase = "loss" <=> arena.lease[t].phase = "loss"
      BY <2>0, <3>1, <3>2, NoneIsNoReport, Zenon DEF Held
    <3> QED BY <3>2, <3>3, <2>LossLeft, Zenon
  <2>3. ASSUME NEW s \in Shards, Release(s) PROVE LossStep
    <3>1. /\ SameLosses /\ arena.lease[s].phase = "announced"
          /\ arena'.lease = [arena.lease EXCEPT ![s] = None]
      BY <2>3, <1>ReleaseStep, Zenon
    <3>2. \A t \in Shards : arena'.lease[t].phase = "loss" <=> arena.lease[t].phase = "loss"
      BY <2>0, <3>1, NoneIsNoReport, Zenon DEF Held
    <3> QED BY <3>1, <3>2, <2>LossLeft, Zenon
  <2>4. ASSUME (\E s \in Shards : OwnerProgress(s)) \/ CloseAdmission \/ LoseSocket \/ Tick PROVE LossStep
    <3>1. SameLosses /\ arena'.lease = arena.lease
      BY <2>4, <1>OwnerStep, <1>DoorStep, Zenon DEF SameLeases, Tick, SameLosses
    <3> QED BY <3>1, <2>LossLeft, Zenon
  <2> QED BY <2>1, <2>2, <2>3, <2>4, <2>LossCommit, <2>LossCounted, Zenon DEF Producer
\* After an acknowledged stop no producer moves.
<1>StopProducer. ASSUME Setting, TypeInv, StopInv, arena.count \in Sources, Producer, client' = client, sink' = sink
                 PROVE  StopInv'
  <2> USE <1>StopProducer
  <2> SUFFICES ASSUME client'.how = "stop" PROVE StopInv'
    BY Zenon DEF StopInv
  <2>1. ~arena.attached /\ \A s \in Shards : arena.lease[s] = None /\ arena.lease[s].phase = "none"
    BY NoneIsNoReport, Zenon DEF StopInv, Quiet
  <2>2. Tick \/ LoseSocket
    BY <2>1, Zenon DEF Producer, Lease, Commit, CountLoss, Announce, Release, OwnerProgress, CloseAdmission
  <2>3. /\ arena'.written = arena.written /\ arena'.read = arena.read /\ arena'.lease = arena.lease
        /\ arena'.generation = arena.generation /\ arena'.count = arena.count
        /\ arena'.lost = arena.lost /\ ~arena'.attached
    <3>1. CASE Tick
      BY <2>1, <3>1, Zenon DEF Tick
    <3>2. CASE LoseSocket
      BY <2>1, <3>2, <1>DoorStep, Zenon DEF SameRings, SameLeases, SameDirectory, SameLosses
    <3> QED BY <2>2, <3>1, <3>2, Zenon
  <2>4. (\A s \in Shards : Quiet(s))'
    BY <2>1, <2>3, Zenon DEF Quiet
  <2> QED BY <2>3, <2>4, Zenon DEF StopInv, Sealing, InSnapshot
<1> SUFFICES ASSUME Setting, IInv, Producer
             PROVE  IInv'
  BY Zenon
<1>1. /\ TypeInv /\ RingInv /\ DirectoryInv /\ LossInv /\ ArrivalInv /\ SinkInv /\ SnapInv
      /\ EmitInv /\ StopInv /\ arena.count \in Sources
  BY Zenon DEF IInv, DirectoryInv
<1>2. /\ ArrivalInv' /\ Growth /\ clock' \in Nat /\ client' = client /\ sink' = sink
  BY <1>1, <1>ProducerGrows, Zenon DEF Growth
<1>3. TypeInv'
  BY <1>1, <1>2, Zenon DEF TypeInv, Growth, InSnapshot
<1>4. RingInv' /\ DirectoryInv' /\ StopInv'
  BY <1>1, <1>2, <1>RingProducer, <1>DirectoryProducer, <1>StopProducer, Zenon
<1>5. LossStep
  BY <1>1, <1>LossProducer, Zenon
<1>6. SameReport /\ sink'.emitted = sink.emitted
  BY <1>2, Zenon DEF SameReport
<1>7. LossInv' /\ SinkInv' /\ SnapInv'
  BY <1>1, <1>2, <1>5, <1>6, SinkGrows, SnapGrows, Zenon DEF LossStep
<1>8. EmitInv'
  BY <1>1, <1>2, <1>6, <1>7, EmitGrows, Zenon
<1> QED BY <1>2, <1>3, <1>4, <1>7, <1>8, Zenon DEF IInv

\* A client step that takes no row and reports nothing.
LEMMA StillKeeps ==
    ASSUME Setting, IInv, SameArena, sink' = sink, client' \in ClientStates,
           client'.sources = client.sources, client.known <= client'.known,
           client'.known <= arena.generation
    PROVE  /\ RingInv' /\ DirectoryInv' /\ LossInv' /\ ArrivalInv' /\ SinkInv' /\ EmitInv'
           /\ arena' \in Arenas /\ clock' \in Nat /\ sink' \in Sinks
<1>1. /\ TypeInv /\ RingInv /\ DirectoryInv /\ LossInv /\ ArrivalInv /\ SinkInv /\ EmitInv
      /\ arena' = arena /\ clock' = clock
  BY Zenon DEF IInv, SameArena
<1>2. sink'.directory <= client'.known
  <2>1. /\ sink.directory \in Nat /\ client.known \in Nat /\ client'.known \in Nat
        /\ sink.directory <= client.known
    BY <1>1, SinkTypes, Zenon DEF DirectoryInv, TypeInv, ClientStates
  <2> QED BY <2>1
<1>3. RingInv'
  BY <1>1, RingStill, Zenon
<1>4. DirectoryInv'
  <2>1. client'.sources <= arena.count /\ 1 <= client'.sources
    BY <1>1, Zenon DEF DirectoryInv
  <2> QED BY <1>1, <1>2, <2>1, DirectoryStill, Zenon
<1>5. LossInv' /\ ArrivalInv'
  BY <1>1, Zenon DEF LossInv, ArrivalInv
<1>6. SinkInv' /\ EmitInv'
  BY <1>1, Zenon DEF SinkInv, EmitInv, Promised, MergedByArrival
<1> QED BY <1>1, <1>3, <1>4, <1>5, <1>6, Zenon DEF TypeInv

\* A copy that stays as it is stays behind the directory.
LEMMA KnownStill ==
    ASSUME IInv, SameCopy
    PROVE  client'.sources = client.sources /\ client.known <= client'.known /\ client'.known <= arena.generation
<1>1. client.known \in Nat /\ client.known <= arena.generation
  BY Zenon DEF IInv, TypeInv, ClientStates, DirectoryInv
<1>2. client.known <= client.known
  BY <1>1
<1> QED BY <1>1, <1>2, Zenon DEF SameCopy

\* Steps that only move the client.
LEMMA MovesKeeps ==
    ASSUME Setting, IInv, Moves
    PROVE  IInv'
<1>1. /\ SameArena /\ sink' = sink /\ client' \in ClientStates /\ SameCopy /\ client'.pc # "snapshot"
      /\ client'.pc # "sealed"
  BY Zenon DEF Moves
<1>2. /\ RingInv' /\ DirectoryInv' /\ LossInv' /\ ArrivalInv' /\ SinkInv' /\ EmitInv'
      /\ arena' \in Arenas /\ clock' \in Nat /\ sink' \in Sinks
  BY <1>1, KnownStill, StillKeeps, Zenon
<1>3. ~InSnapshot' /\ ~Sealing'
  BY <1>1, Zenon DEF InSnapshot, Sealing
<1>4. TypeInv' /\ SnapInv'
  BY <1>1, <1>2, <1>3, Zenon DEF TypeInv, SnapInv
<1>5. /\ StopInv /\ arena'.lease = arena.lease /\ SameDoor /\ SameDirectory
      /\ client'.how = "stop" => client.how = "stop"
      /\ client.how = "stop" => client'.known = arena.generation
  BY <1>1, Zenon DEF IInv, StopInv, SameArena, SameDoor, SameDirectory, SameCopy, Moves
<1>6. StopInv'
  BY <1>3, <1>5, StopStill, Zenon
<1> QED BY <1>2, <1>4, <1>6, Zenon DEF IInv

\* The first half of a snapshot.
LEMMA BeginsKeeps ==
    \A sealing \in BOOLEAN : Setting /\ IInv /\ Begins(sealing) /\
      (sealing => \A s \in Shards : Pending(s) = 0) =>
        IInv'
\* A snapshot that has read nothing yet claims nothing.
<1>SnapBegins. ASSUME Setting, TypeInv, ArrivalInv, SinkInv, NEW sealing, Begins(sealing)
               PROVE  SnapInv'
  \* No promise reaches past the clock.
  <2>SafeIsPast. ASSUME Setting, TypeInv, ArrivalInv, SinkInv
                 PROVE  sink.safe <= MaxClock + 1
    <3> USE <2>SafeIsPast
    <3>1. 1 \in Shards
      BY DEF Setting, Sizes, Shards
    <3>2. PICK p : p = arena.progress[1] /\ p \in Progresses
      BY <3>1, ArenaTypes, Zenon DEF TypeInv
    <3>3. /\ p = None => sink.safe = 0
          /\ p # None => sink.safe <= p.time /\ p.time <= clock /\ p.time \in Nat
          /\ clock <= MaxClock + 1 /\ clock \in Nat /\ sink.safe \in Nat /\ MaxClock \in Nat
      BY <3>1, <3>2, SinkTypes, ReportNumbers, Zenon
         DEF SinkInv, ArrivalInv, Timed, Promised, Promise, TypeInv, Setting, Sizes
    <3> QED BY <3>3
  <2> USE <1>SnapBegins
  <2>1. PICK c : c = FirstSnap(sealing)
    BY Zenon
  <2>2. /\ c.revision = arena.lost /\ c.safe = MaxClock + 1 /\ c.phase = "shards" /\ c.available = TRUE
        /\ c.cells = NoCells
    BY <2>1, Zenon DEF FirstSnap
  <2>3. /\ client'.snap = c /\ client'.at = 1 /\ arena' = arena /\ sink' = sink
    BY <2>1, Zenon DEF Begins, SameArena
  <2>4. /\ arena.lost <= arena.lost /\ 1 >= 1 /\ 1 <= ShardCount /\ \A s \in Shards : ~(s < 1)
    BY LossTypes DEF TypeInv, Setting, Sizes, Shards
  <2>5. \A n \in Sources : c.cells[n] = 0
    BY <2>2, Zenon DEF NoCells, Sources
  <2>6. sink.safe <= c.safe /\ sink.losses <= arena.lost
    BY <2>2, <2>SafeIsPast, Zenon DEF SinkInv
  <2>7. c.phase # "cells"
    BY <2>2, Zenon
  <2>8. \A s \in Shards : ~Visited(s)'
    BY <2>3, <2>4, <2>7, Zenon DEF Visited
  <2>9. \A n \in Sources : c.cells[n] = IF c.phase = "cells" /\ n < client'.at THEN arena.cells[n] ELSE 0
    BY <2>5, <2>7, Zenon
  <2> QED BY <2>2, <2>3, <2>4, <2>6, <2>8, <2>9, Zenon DEF SnapInv
\* The last snapshot begins when everything is drained.
<1>StopBegins. ASSUME Setting, TypeInv, RingInv, DirectoryInv, StopInv, Begins(TRUE), \A s \in Shards : Pending(s) = 0
               PROVE  StopInv'
  <2> USE <1>StopBegins
  <2> SUFFICES ASSUME client'.how = "stop" PROVE StopInv'
    BY Zenon DEF StopInv
  <2>1. /\ arena' = arena /\ client.how = "stop" /\ client'.known = client.known /\ client'.pc = "snapshot"
        /\ client'.sources = client.sources /\ client'.snap = FirstSnap(TRUE)
    BY Zenon DEF Begins, SameArena, SameVerdict, SameCopy
  <2>2. arena.count = client.sources /\ \A s \in Shards : arena.read[s] = Len(arena.written[s])
    BY DrainedIsCopied, Zenon
  <2>3. FirstSnap(TRUE).revision = arena.lost
    BY Zenon DEF FirstSnap
  <2>4. (\A s \in Shards : Quiet(s))' /\ client'.pc # "sealed"
    BY <2>1, Zenon DEF StopInv, Quiet
  <2> QED BY <2>1, <2>2, <2>3, <2>4, Zenon DEF StopInv
<1> SUFFICES ASSUME Setting, IInv, NEW sealing \in BOOLEAN, Begins(sealing),
                    sealing => \A s \in Shards : Pending(s) = 0
             PROVE  IInv'
  BY Zenon
<1>1. /\ SameArena /\ sink' = sink /\ client' \in ClientStates /\ SameCopy /\ SameVerdict
      /\ client'.snap \in Snaps /\ client'.snap = FirstSnap(sealing) /\ client'.pc = "snapshot"
  BY Zenon DEF Begins
<1>2. /\ RingInv' /\ DirectoryInv' /\ LossInv' /\ ArrivalInv' /\ SinkInv' /\ EmitInv'
      /\ arena' \in Arenas /\ clock' \in Nat /\ sink' \in Sinks
  BY <1>1, KnownStill, StillKeeps, Zenon
<1>3. TypeInv /\ RingInv /\ DirectoryInv /\ ArrivalInv /\ SinkInv /\ StopInv
  BY Zenon DEF IInv
<1>4. TypeInv'
  BY <1>1, <1>2, Zenon DEF TypeInv
<1>5. SnapInv'
  BY <1>3, <1>SnapBegins, Zenon
<1>6. StopInv'
  <2>1. CASE sealing
    <3>1. sealing = TRUE
      BY <2>1, Zenon
    <3> QED BY <1>3, <3>1, <1>StopBegins, Zenon
  <2>2. CASE ~sealing
    <3>1. FirstSnap(sealing).sealing = sealing
      BY Zenon DEF FirstSnap
    <3>2. ~Sealing'
      BY <1>1, <2>2, <3>1, Zenon DEF Sealing, InSnapshot
    <3>3. /\ arena'.lease = arena.lease /\ SameDoor /\ SameDirectory
          /\ client'.how = "stop" => client.how = "stop"
          /\ client.how = "stop" => client'.known = arena.generation
      BY <1>1, <1>3, Zenon DEF StopInv, SameArena, SameDoor, SameDirectory, SameCopy, SameVerdict
    <3> QED BY <1>3, <3>2, <3>3, StopStill, Zenon
  <2> QED BY <2>1, <2>2, Zenon
<1> QED BY <1>2, <1>4, <1>5, <1>6, Zenon DEF IInv

\* appendFrozenLosses that cannot begin its snapshot: not after an acknowledged stop.
LEMMA ReturnsKeeps ==
    Setting /\ IInv /\ Returns(TRUE) /\ (~Current) /\ (\A s \in Shards : Pending(s) = 0) => IInv'
\* A stopped capture that is drained has nothing left to wait for.
<1>StopIsCurrent. ASSUME Setting, TypeInv, RingInv, DirectoryInv, LossInv, StopInv, client.how = "stop",
                         \A s \in Shards : Pending(s) = 0
                  PROVE  Current
  <2> USE <1>StopIsCurrent
  <2>1. arena.generation = client.known /\ \A s \in Shards : Quiet(s)
    BY Zenon DEF StopInv
  <2>2. arena.started = arena.lost
    BY <2>1, QuietIsCounted, Zenon
  <2> QED BY <2>1, <2>2, DrainedIsCopied, Zenon DEF Current
<1> SUFFICES ASSUME Setting, IInv, Returns(TRUE), ~Current, \A s \in Shards : Pending(s) = 0
             PROVE  IInv'
  BY Zenon
<1>1. /\ SameArena /\ sink' = sink /\ client' \in ClientStates /\ SameCopy /\ SameVerdict
      /\ client'.pc = "sealed"
  BY Zenon DEF Returns
<1>2. /\ RingInv' /\ DirectoryInv' /\ LossInv' /\ ArrivalInv' /\ SinkInv' /\ EmitInv'
      /\ arena' \in Arenas /\ clock' \in Nat /\ sink' \in Sinks
  BY <1>1, KnownStill, StillKeeps, Zenon
<1>3. ~InSnapshot'
  BY <1>1, Zenon DEF InSnapshot
<1>4. TypeInv' /\ SnapInv'
  BY <1>1, <1>2, <1>3, Zenon DEF TypeInv, SnapInv
<1>5. client.how # "stop"
  BY <1>StopIsCurrent, Zenon DEF IInv
<1>6. StopInv'
  BY <1>1, <1>5, Zenon DEF StopInv, SameVerdict
<1> QED BY <1>2, <1>4, <1>6, Zenon DEF IInv

\* Stop is acknowledged.
LEMMA AcknowledgedKeeps ==
    Setting /\ IInv /\ StopAcknowledged => IInv'
\* The acknowledgement of Stop comes after the producers have left.
<1>AcknowledgedStep. ASSUME TypeInv, StopAcknowledged
                     PROVE  /\ SameArena /\ sink' = sink /\ client' \in ClientStates
                            /\ client'.known = arena.generation /\ client'.sources = client.sources
                            /\ client'.pc = "idle" /\ ~arena.attached /\ \A s \in Shards : Quiet(s)
  <2> USE <1>AcknowledgedStep
  <2>1. arena \in Arenas /\ client \in ClientStates /\ arena.generation \in Nat /\ arena.lost \in Nat /\ 1 \in Nat
    BY Zenon DEF TypeInv, Arenas
  <2>2. /\ client' = [client EXCEPT !.pc = "idle", !.at = 1, !.how = "stop", !.final = arena.lost,
                                    !.known = arena.generation]
        /\ SameArena /\ sink' = sink /\ ~arena.attached /\ \A s \in Shards : Quiet(s)
    BY Zenon DEF StopAcknowledged, SameArena
  <2>3. client' \in ClientStates
    BY <2>1, <2>2, Zenon DEF ClientStates, Places, Hows
  <2> QED BY <2>1, <2>2, <2>3, Zenon DEF ClientStates
<1> SUFFICES ASSUME Setting, IInv, StopAcknowledged
             PROVE  IInv'
  BY Zenon
<1>1. /\ SameArena /\ sink' = sink /\ client' \in ClientStates
      /\ client'.known = arena.generation /\ client'.sources = client.sources
      /\ client'.pc = "idle" /\ ~arena.attached /\ \A s \in Shards : Quiet(s)
  BY <1>AcknowledgedStep, Zenon DEF IInv
<1>2. client.known <= client'.known /\ client'.known <= arena.generation
  <2>1. client.known <= arena.generation /\ arena.generation \in Nat
    BY Zenon DEF IInv, DirectoryInv, TypeInv, Arenas
  <2>2. arena.generation <= arena.generation
    BY <2>1
  <2> QED BY <1>1, <2>1, <2>2, Zenon
<1>3. /\ RingInv' /\ DirectoryInv' /\ LossInv' /\ ArrivalInv' /\ SinkInv' /\ EmitInv'
      /\ arena' \in Arenas /\ clock' \in Nat /\ sink' \in Sinks
  BY <1>1, <1>2, StillKeeps, Zenon
<1>4. ~InSnapshot' /\ ~Sealing' /\ client'.pc # "sealed"
  BY <1>1, Zenon DEF InSnapshot, Sealing
<1>5. TypeInv' /\ SnapInv'
  BY <1>1, <1>3, <1>4, Zenon DEF TypeInv, SnapInv
<1>6. StopInv'
  BY <1>1, <1>4, Zenon DEF StopInv, SameArena, Quiet
<1> QED BY <1>3, <1>5, <1>6, Zenon DEF IInv

\* drainTo copies the directory.
LEMMA DrainKeeps ==
    Setting /\ IInv /\ DrainBegin => IInv'
\* drainTo copies the directory and registers its sources with the sink.
<1>DrainStep. ASSUME TypeInv, DrainBegin
              PROVE  /\ SameArena /\ client' \in ClientStates /\ sink' \in Sinks
                     /\ client'.known = arena.generation /\ client'.sources = arena.count
                     /\ client'.pc = "scan" /\ SameVerdict
                     /\ sink' = [sink EXCEPT !.catalog = arena.count]
  <2> USE <1>DrainStep
  <2>1. /\ arena \in Arenas /\ client \in ClientStates /\ sink \in Sinks
        /\ arena.generation \in Nat /\ arena.count \in Nat
    BY Zenon DEF TypeInv, Arenas
  <2>2. /\ client' = [client EXCEPT !.known = arena.generation, !.sources = arena.count, !.pc = "scan"]
        /\ sink' = [sink EXCEPT !.catalog = arena.count] /\ SameArena
    BY <2>1, Zenon DEF DrainBegin, LoadDirectory, SameArena, ClientStates
  <2>3. client' \in ClientStates /\ sink' \in Sinks
    BY <2>1, <2>2, Zenon DEF ClientStates, Sinks, Places
  <2> QED BY <2>1, <2>2, <2>3, Zenon DEF ClientStates, SameVerdict
\* A newer copy of the directory registers no source less.
<1>RingDrain. ASSUME Setting, TypeInv, RingInv, DirectoryInv, DrainBegin
              PROVE  RingInv'
  <2> USE <1>RingDrain
  <2>1. /\ arena' = arena /\ client'.sources = arena.count /\ sink' = [sink EXCEPT !.catalog = arena.count]
        /\ sink \in Sinks
    BY <1>DrainStep, Zenon DEF SameArena, TypeInv
  <2>2. sink'.rows = sink.rows /\ sink'.catalog = arena.count
    BY <2>1, Zenon DEF Sinks
  <2>3. /\ arena.count \in Nat /\ client.sources \in Nat /\ client.sources <= arena.count /\ arena \in Arenas
    BY Zenon DEF TypeInv, Arenas, ClientStates, DirectoryInv
  <2>4. /\ arena.count <= arena.count
        /\ \A n \in Nat : n <= client.sources => n <= arena.count
    BY <2>3
  <2>5. \A s \in Shards : \A k \in 1 .. arena.read[s] : arena.written[s][k].source \in Nat
    <3>1. ASSUME NEW s \in Shards, NEW k \in 1 .. arena.read[s] PROVE arena.written[s][k].source \in Nat
      <4>1. arena.written[s] \in Seq(Row) /\ arena.read[s] \in Nat /\ arena.read[s] <= Len(arena.written[s])
        BY ArenaTypes, Zenon DEF TypeInv, RingInv
      <4>2. k \in 1 .. Len(arena.written[s])
        BY <4>1
      <4>3. arena.written[s][k].source \in 1 .. DirectoryCapacity
        BY <4>1, <4>2, RowNumbers, Zenon
      <4> QED BY <4>3
    <3> QED BY <3>1, Zenon
  <2>6. \A s \in Shards : \A k \in 1 .. arena.read[s] : arena.written[s][k].source <= arena.count
    BY <2>4, <2>5, Zenon DEF RingInv
  <2> QED BY <2>1, <2>2, <2>4, <2>6, Zenon DEF RingInv, RowsExactlyOnce
<1> SUFFICES ASSUME Setting, IInv, DrainBegin
             PROVE  IInv'
  BY Zenon
<1>1. /\ TypeInv /\ RingInv /\ DirectoryInv /\ LossInv /\ ArrivalInv /\ SinkInv /\ EmitInv /\ StopInv
  BY Zenon DEF IInv
<1>2. /\ arena' = arena /\ clock' = clock /\ client' \in ClientStates /\ sink' \in Sinks
      /\ client'.known = arena.generation /\ client'.sources = arena.count
      /\ client'.pc = "scan" /\ SameVerdict /\ sink' = [sink EXCEPT !.catalog = arena.count] /\ sink \in Sinks
  BY <1>1, <1>DrainStep, Zenon DEF SameArena, TypeInv
<1>3. /\ sink'.safe = sink.safe /\ sink'.sequences = sink.sequences /\ sink'.losses = sink.losses
      /\ sink'.refused = sink.refused /\ sink'.emitted = sink.emitted /\ sink'.directory = sink.directory
  BY <1>2, Zenon DEF Sinks
<1>4. /\ client'.sources <= arena.count /\ 1 <= client'.sources /\ client'.known <= arena.generation
      /\ sink'.directory <= client'.known
  <2>1. /\ arena.count \in Sources /\ arena.generation \in Nat /\ client.known \in Nat /\ sink.directory \in Nat
        /\ sink.directory <= client.known /\ client.known <= arena.generation
    BY <1>1, DirectoryTypes, Zenon DEF DirectoryInv, DirectoryNumbers
  <2>2. /\ arena.count <= arena.count /\ 1 <= arena.count /\ arena.generation <= arena.generation
        /\ sink.directory <= arena.generation
    BY <2>1 DEF Sources
  <2> QED BY <1>2, <1>3, <2>2, Zenon
<1>5. RingInv' /\ DirectoryInv'
  BY <1>1, <1>2, <1>4, <1>RingDrain, DirectoryStill, Zenon
<1>6. LossInv' /\ ArrivalInv' /\ SinkInv' /\ EmitInv'
  <2>1. LossInv' /\ ArrivalInv'
    BY <1>1, <1>2, Zenon DEF LossInv, ArrivalInv
  <2>2. SinkInv'
    BY <1>1, <1>2, <1>3, Zenon DEF SinkInv, Promised
  <2>3. EmitInv'
    BY <1>1, <1>2, <1>3, <2>2, StillGrows, EmitGrows, Zenon DEF SameReport
  <2> QED BY <2>1, <2>2, <2>3, Zenon
<1>7. ~InSnapshot' /\ ~Sealing'
  BY <1>2, Zenon DEF InSnapshot, Sealing
<1>8. TypeInv' /\ SnapInv'
  BY <1>1, <1>2, <1>7, Zenon DEF TypeInv, SnapInv
<1>9. StopInv'
  <2>1. /\ arena'.lease = arena.lease /\ SameDoor /\ SameDirectory
        /\ client'.how = "stop" => client.how = "stop"
        /\ client.how = "stop" => client'.known = arena.generation
    BY <1>2, Zenon DEF SameDoor, SameDirectory, SameVerdict
  <2> QED BY <1>1, <1>7, <2>1, StopStill, Zenon
<1> QED BY <1>5, <1>6, <1>8, <1>9, Zenon DEF IInv

\* drainTo hands over a row.
LEMMA TakeKeeps ==
    \A s \in Shards : Setting /\ IInv /\ Take(s) => IInv'
\* One row of a ring is handed to the sink and its read sequence advances.
<1>TakeStep. ASSUME TypeInv, NEW s \in Shards, Take(s)
             PROVE  /\ arena.read[s] < Len(arena.written[s])
                    /\ HeadRow(s).source <= client.sources
                    /\ arena' = [arena EXCEPT !.read = [arena.read EXCEPT ![s] = @ + 1]]
                    /\ sink' = [sink EXCEPT !.rows = [sink.rows EXCEPT ![s] = Append(@, HeadRow(s))]]
                    /\ arena' \in Arenas /\ sink' \in Sinks /\ clock' = clock /\ client' = client
  <2> USE <1>TakeStep
  <2>1. /\ arena \in Arenas /\ client \in ClientStates /\ sink \in Sinks
        /\ arena.read \in Counters /\ arena.written \in Rings /\ sink.rows \in Rings /\ client.sources \in Nat
    BY Zenon DEF TypeInv, Arenas, Sinks, ClientStates
  <2>2. arena.read[s] \in Nat /\ arena.written[s] \in Seq(Row) /\ sink.rows[s] \in Seq(Row)
    BY <2>1, Zenon DEF Counters, Rings
  <2>3. /\ Pending(s) > 0 /\ ~(HeadRow(s).source > client.sources)
        /\ sink' = [sink EXCEPT !.rows[s] = Append(@, HeadRow(s))]
        /\ arena' = [arena EXCEPT !.read[s] = @ + 1] /\ clock' = clock /\ client' = client
    BY Zenon DEF Take, First, Deferred
  <2>4. arena.read[s] < Len(arena.written[s]) /\ HeadRow(s) \in Row /\ arena.read[s] + 1 \in Nat
    BY <2>2, <2>3 DEF Pending, HeadRow
  <2>5. PICK r : r = HeadRow(s) /\ r \in Row
    BY <2>4, Zenon
  <2>6. r.source \in 1 .. DirectoryCapacity
    BY <2>5, Zenon DEF Row
  <2>7. r.source <= client.sources
    <3>1. ~(r.source > client.sources) /\ client.sources \in Nat
      BY <2>1, <2>3, <2>5, Zenon
    <3> QED BY <2>6, <3>1
  <2>8. Append(sink.rows[s], r) \in Seq(Row)
    BY <2>2, <2>5
  <2>9. [sink.rows EXCEPT ![s] = Append(@, r)] \in Rings /\ [arena.read EXCEPT ![s] = @ + 1] \in Counters
    BY <2>1, <2>4, <2>8, Zenon DEF Rings, Counters
  <2>10. /\ arena' = [arena EXCEPT !.read = [arena.read EXCEPT ![s] = @ + 1]]
         /\ sink' = [sink EXCEPT !.rows = [sink.rows EXCEPT ![s] = Append(@, r)]]
    BY <2>1, <2>3, <2>5, Zenon DEF Arenas, Sinks
  <2>11. arena' \in Arenas /\ sink' \in Sinks
    BY <2>1, <2>9, <2>10, Zenon DEF Arenas, Sinks
  <2> QED BY <2>3, <2>4, <2>5, <2>7, <2>10, <2>11, Zenon
\* The row that is taken is the next one, and its source is registered.
<1>RingTake. ASSUME TypeInv, RingInv, NEW s \in Shards, Take(s)
             PROVE  RingInv'
  \* Reading one row more appends it to what was read.
  <2>OneMore. ASSUME NEW w \in Seq(Row), NEW r \in Nat, r < Len(w)
              PROVE  SubSeq(w, 1, r + 1) = Append(SubSeq(w, 1, r), w[r + 1])
    <3> USE <2>OneMore
    <3>1. r + 1 \in 1 .. Len(w) /\ r <= Len(w) /\ r + 1 \in Nat /\ (\A k \in 1 .. r : k \in 1 .. Len(w))
          /\ \A k \in 1 .. r + 1 : k \in 1 .. Len(w) /\ (k \in 1 .. r \/ k = r + 1)
      OBVIOUS
    <3>2. PICK u, x : u = SubSeq(w, 1, r) /\ x = w[r + 1]
      BY Zenon
    <3>3. u \in Seq(Row) /\ Len(u) = r /\ x \in Row /\ \A k \in 1 .. r : u[k] = w[k]
      BY <3>1, <3>2
    <3>4. Append(u, x) \in Seq(Row) /\ Len(Append(u, x)) = r + 1 /\ Append(u, x)[r + 1] = x
          /\ \A k \in 1 .. r : Append(u, x)[k] = u[k]
      BY <3>3
    <3>5. PICK y, z : y = SubSeq(w, 1, r + 1) /\ z = Append(u, x)
      BY Zenon
    <3>6. y \in Seq(Row) /\ Len(y) = r + 1 /\ \A k \in 1 .. r + 1 : y[k] = w[k]
      BY <3>1, <3>5
    <3>7. \A k \in 1 .. r + 1 : z[k] = y[k]
      <4>1. z[r + 1] = x /\ \A k \in 1 .. r : z[k] = u[k]
        BY <3>4, <3>5, Zenon
      <4>2. ASSUME NEW k \in 1 .. r + 1 PROVE z[k] = y[k]
        <5>1. y[k] = w[k]
          BY <3>6, Zenon
        <5>2. CASE k \in 1 .. r
          BY <3>3, <4>1, <5>1, <5>2, Zenon
        <5>3. CASE k = r + 1
          BY <3>2, <4>1, <5>1, <5>3, Zenon
        <5>4. k \in 1 .. r \/ k = r + 1
          BY <3>1
        <5> QED BY <5>2, <5>3, <5>4, Zenon
      <4> QED BY <4>2, Zenon
    <3>8. z = y
      BY <3>4, <3>5, <3>6, <3>7
    <3> QED BY <3>2, <3>5, <3>8, Zenon
  <2> USE <1>RingTake
  <2>1. /\ arena.read[s] < Len(arena.written[s]) /\ HeadRow(s).source <= client.sources
        /\ arena' = [arena EXCEPT !.read = [arena.read EXCEPT ![s] = @ + 1]]
        /\ sink' = [sink EXCEPT !.rows = [sink.rows EXCEPT ![s] = Append(@, HeadRow(s))]]
        /\ client' = client /\ arena \in Arenas /\ sink \in Sinks
    BY <1>TakeStep, Zenon DEF TypeInv
  <2>2. /\ arena'.written = arena.written /\ arena'.read = [arena.read EXCEPT ![s] = @ + 1]
        /\ sink'.rows = [sink.rows EXCEPT ![s] = Append(@, HeadRow(s))] /\ sink'.catalog = sink.catalog
        /\ arena.read \in Counters /\ sink.rows \in Rings
    BY <2>1, Zenon DEF Arenas, Sinks
  <2>3. /\ arena'.read[s] = arena.read[s] + 1 /\ sink'.rows[s] = Append(sink.rows[s], HeadRow(s))
        /\ \A t \in Shards : t # s => arena'.read[t] = arena.read[t] /\ sink'.rows[t] = sink.rows[t]
    BY <2>2, Zenon DEF Counters, Rings
  <2>4. PICK w, r : w = arena.written[s] /\ r = arena.read[s] /\ w \in Seq(Row) /\ r \in Nat
    BY ArenaTypes, Zenon DEF TypeInv
  <2>5. r < Len(w) /\ HeadRow(s) = w[r + 1] /\ sink.rows[s] = SubSeq(w, 1, r)
    BY <2>1, <2>4, Zenon DEF HeadRow, RingInv, RowsExactlyOnce
  <2>6. r + 1 <= Len(w) /\ \A k \in 1 .. r + 1 : k \in 1 .. r \/ k = r + 1
    BY <2>4, <2>5
  <2>7. SubSeq(w, 1, r + 1) = Append(SubSeq(w, 1, r), w[r + 1])
    BY <2>4, <2>5, <2>OneMore, Zenon
  <2>8. /\ arena'.read[s] <= Len(arena'.written[s])
        /\ sink'.rows[s] = SubSeq(arena'.written[s], 1, arena'.read[s])
        /\ \A k \in 1 .. arena'.read[s] : arena'.written[s][k].source <= client.sources
    BY <2>1, <2>2, <2>3, <2>4, <2>5, <2>6, <2>7, Zenon DEF RingInv
  <2> QED BY <2>1, <2>2, <2>3, <2>8, Zenon DEF RingInv, RowsExactlyOnce
\* Taking a row leaves the ring itself as it is.
<1>TakeGrows. ASSUME TypeInv, NEW s \in Shards, Take(s)
              PROVE  /\ Growth /\ SameReport /\ sink'.emitted = sink.emitted /\ client' = client
                     /\ arena'.written = arena.written /\ arena'.lease = arena.lease
                     /\ arena'.progress = arena.progress /\ SameDirectory /\ SameLosses /\ SameDoor
                     /\ sink'.directory = sink.directory /\ sink'.gaps = sink.gaps
  <2> USE <1>TakeGrows
  <2>1. /\ arena' = [arena EXCEPT !.read = [arena.read EXCEPT ![s] = @ + 1]]
        /\ sink' = [sink EXCEPT !.rows = [sink.rows EXCEPT ![s] = Append(@, HeadRow(s))]]
        /\ client' = client /\ arena \in Arenas /\ sink \in Sinks /\ arena' \in Arenas
    BY <1>TakeStep, Zenon DEF TypeInv
  <2>2. /\ arena'.written = arena.written /\ arena'.lease = arena.lease /\ arena'.progress = arena.progress
        /\ SameDirectory /\ SameLosses /\ SameDoor /\ arena'.read = [arena.read EXCEPT ![s] = @ + 1]
    BY <2>1, Zenon DEF Arenas, SameDirectory, SameLosses, SameDoor
  <2>3. /\ SameReport /\ sink'.emitted = sink.emitted /\ sink'.directory = sink.directory
        /\ sink'.gaps = sink.gaps
    BY <2>1, Zenon DEF Sinks, SameReport
  <2>4. ASSUME NEW t \in Shards PROVE GrownAt(t)
    <3>1. /\ arena.written[t] \in Seq(Row) /\ arena.read[t] \in Nat /\ arena.progress[t] \in Progresses
          /\ arena.read \in Counters
      BY ArenaTypes, Zenon DEF TypeInv, Arenas
    <3>2. arena'.read[t] = arena.read[t] \/ arena'.read[t] = arena.read[t] + 1
      BY <2>2, <3>1, Zenon DEF Counters
    <3>3. arena.read[t] <= arena'.read[t]
      BY <3>1, <3>2
    <3>4. Grown(arena.written[t], arena.read[t], arena.progress[t], arena.written[t], arena.read[t], arena.progress[t])
      BY <3>1, GrownSame, Zenon
    <3> QED BY <2>2, <3>3, <3>4, Zenon DEF Grown, GrownAt
  <2> QED BY <2>1, <2>2, <2>3, <2>4, Zenon DEF Growth
<1> SUFFICES ASSUME Setting, IInv, NEW s \in Shards, Take(s)
             PROVE  IInv'
  BY Zenon
<1>1. /\ TypeInv /\ RingInv /\ DirectoryInv /\ LossInv /\ ArrivalInv /\ SinkInv /\ SnapInv /\ EmitInv /\ StopInv
  BY Zenon DEF IInv
<1>2. /\ Growth /\ SameReport /\ sink'.emitted = sink.emitted /\ client' = client
      /\ arena'.written = arena.written /\ arena'.lease = arena.lease
      /\ arena'.progress = arena.progress /\ SameDirectory /\ SameLosses /\ SameDoor
      /\ sink'.directory = sink.directory
  BY <1>1, <1>TakeGrows, Zenon
<1>3. arena' \in Arenas /\ sink' \in Sinks /\ clock' = clock /\ client.pc = "scan"
  BY <1>1, <1>TakeStep, Zenon DEF Take
<1>4. arena.lost <= arena'.lost /\ arena.started <= arena'.started /\ arena'.cells = arena.cells
  <2>1. arena.lost \in Nat /\ arena.started \in Nat
    BY <1>1, LossTypes, Zenon DEF TypeInv
  <2>2. arena.lost <= arena.lost /\ arena.started <= arena.started
    BY <2>1
  <2> QED BY <1>2, <2>2, Zenon DEF SameLosses
<1>5. RingInv' /\ SinkInv' /\ SnapInv'
  BY <1>1, <1>2, <1>4, <1>RingTake, SinkGrows, SnapGrows, Zenon
<1>6. EmitInv'
  BY <1>1, <1>2, <1>5, EmitGrows, Zenon
<1>7. DirectoryInv'
  <2>1. /\ client'.sources <= arena.count /\ 1 <= client'.sources /\ client'.known <= arena.generation
        /\ sink'.directory <= client'.known
    BY <1>1, <1>2, Zenon DEF DirectoryInv
  <2> QED BY <1>1, <1>2, <1>4, <2>1, DirectoryStill, Zenon DEF SameDirectory
<1>8. LossInv' /\ ArrivalInv'
  BY <1>1, <1>2, <1>3, Zenon DEF LossInv, ArrivalInv, SameLosses
<1>9. ~InSnapshot' /\ ~Sealing'
  BY <1>2, <1>3, Zenon DEF InSnapshot, Sealing
<1>10. TypeInv'
  BY <1>1, <1>2, <1>3, <1>9, Zenon DEF TypeInv
<1>11. StopInv'
  BY <1>1, <1>2, <1>9, StopStill, Zenon DEF StopInv
<1> QED BY <1>5, <1>6, <1>7, <1>8, <1>10, <1>11, Zenon DEF IInv

\* The cursor of the corpus cut.
LEMMA CursorKeeps ==
    Setting /\ IInv /\ CursorNext => IInv'
\* The cursor emits the first of the rows that no shard can still precede.
<1>CursorStep. ASSUME Setting, TypeInv, CursorNext
               PROVE  /\ SameArena /\ client' = client /\ sink' \in Sinks
                      /\ \E s \in Shards :
                           /\ Ready(s) /\ Safe(s) /\ \A t \in Shards \ {s} : Ready(t) => Before(s, t)
                           /\ [shard |-> s, arrival |-> Next1(s).arrival] \in Emissions
                           /\ sink' = [sink EXCEPT !.emitted =
                                         Append(sink.emitted, [shard |-> s, arrival |-> Next1(s).arrival])]
  <2> USE <1>CursorStep
  <2>1. sink \in Sinks /\ sink.rows \in Rings /\ sink.emitted \in Outputs
    BY Zenon DEF TypeInv, Sinks
  <2>2. SameArena /\ client' = client
    BY Zenon DEF CursorNext, SameArena
  <2>3. PICK s \in Shards :
          /\ Ready(s) /\ Safe(s) /\ \A t \in Shards \ {s} : Ready(t) => Before(s, t)
          /\ sink' = [sink EXCEPT !.emitted = Append(@, [shard |-> s, arrival |-> Next1(s).arrival])]
    BY Zenon DEF CursorNext
  <2>4. Emitted(s) \in Nat
    <3>1. IsFiniteSet(DOMAIN sink.emitted)
      <4>1. DOMAIN sink.emitted = 1 .. Len(sink.emitted) /\ Len(sink.emitted) \in Nat
        BY <2>1 DEF Outputs
      <4>2. 1 \in Int /\ Len(sink.emitted) \in Int
        BY <4>1
      <4> QED BY <4>1, <4>2, FiniteInterval, Zenon
    <3>2. IsFiniteSet({i \in DOMAIN sink.emitted : sink.emitted[i].shard = s})
      <4>1. {i \in DOMAIN sink.emitted : sink.emitted[i].shard = s} \in SUBSET (DOMAIN sink.emitted)
        BY Zenon
      <4> QED BY <3>1, <4>1, FiniteSubset, Zenon
    <3> QED BY <3>2, CountIsNatural, Zenon DEF Emitted
  <2>5. Next1(s) \in Row
    <3>1. sink.rows[s] \in Seq(Row) /\ Emitted(s) < Len(sink.rows[s])
      BY <2>1, <2>3, Zenon DEF Rings, Ready
    <3>2. Emitted(s) + 1 \in 1 .. Len(sink.rows[s])
      BY <2>4, <3>1
    <3> QED BY <3>1, <3>2 DEF Next1
  <2>6. [shard |-> s, arrival |-> Next1(s).arrival] \in Emissions
    BY <2>5, Zenon DEF Row, Emissions
  <2>7. PICK e : e = [shard |-> s, arrival |-> Next1(s).arrival] /\ e \in Emissions
    BY <2>6, Zenon
  <2>8. Append(sink.emitted, e) \in Outputs
    BY <2>1, <2>7 DEF Outputs
  <2>9. sink' = [sink EXCEPT !.emitted = Append(sink.emitted, e)]
    BY <2>1, <2>3, <2>7, Zenon DEF Sinks
  <2>10. sink' \in Sinks
    BY <2>1, <2>8, <2>9, Zenon DEF Sinks
  <2> QED BY <2>2, <2>3, <2>6, <2>7, <2>9, <2>10, Zenon
\* The row the cursor emits is not before any it has emitted.
<1>EmitNext. ASSUME Setting, TypeInv, RingInv, ArrivalInv, SinkInv, EmitInv, CursorNext
             PROVE  EmitInv' /\ SameReport /\ sink'.gaps = sink.gaps /\ sink'.rows = sink.rows
                    /\ sink'.catalog = sink.catalog /\ sink'.directory = sink.directory
  \* One more row emitted.
  <2>CountOfMore. ASSUME Setting, NEW out \in Outputs, NEW e \in Emissions, NEW t
                  PROVE  /\ e.shard = t => Count(Append(out, e), t) = Count(out, t) + 1
                         /\ e.shard # t => Count(Append(out, e), t) = Count(out, t)
    <3> USE <2>CountOfMore
    <3>1. PICK more, n : more = Append(out, e) /\ n = Len(out)
      BY Zenon
    <3>2. /\ n \in Nat /\ DOMAIN out = 1 .. n /\ DOMAIN more = 1 .. n + 1 /\ more[n + 1] = e
          /\ \A i \in 1 .. n : more[i] = out[i]
      BY <3>1 DEF Outputs
    <3>3. n + 1 \notin 1 .. n /\ n + 1 \in 1 .. n + 1 /\ \A i : i \in 1 .. n + 1 <=> i \in 1 .. n \/ i = n + 1
      BY <3>2
    <3>4. IsFiniteSet({i \in DOMAIN out : out[i].shard = t})
      BY CountType, Zenon
    <3>5. PICK S, T : S = {i \in DOMAIN out : out[i].shard = t} /\ T = {i \in DOMAIN more : more[i].shard = t}
      BY Zenon
    <3>6. \A i : i \in S <=> i \in 1 .. n /\ out[i].shard = t
      BY <3>2, <3>5, Zenon
    <3>7. \A i : i \in T <=> i \in 1 .. n + 1 /\ more[i].shard = t
      BY <3>2, <3>5, Zenon
    <3>8. \A i : i \in T <=> i \in S \/ (i = n + 1 /\ e.shard = t)
      <4>1. ASSUME NEW i PROVE i \in T <=> i \in S \/ (i = n + 1 /\ e.shard = t)
        <5>1. CASE i \in 1 .. n
          <6>1. i # n + 1 /\ i \in 1 .. n + 1 /\ more[i] = out[i]
            BY <3>2, <3>3, <5>1, Zenon
          <6> QED BY <3>6, <3>7, <5>1, <6>1, Zenon
        <5>2. CASE i = n + 1
          <6>1. i \notin 1 .. n /\ i \in 1 .. n + 1 /\ more[i] = e
            BY <3>2, <3>3, <5>2, Zenon
          <6> QED BY <3>6, <3>7, <5>2, <6>1, Zenon
        <5>3. CASE i \notin 1 .. n + 1
          BY <3>3, <3>6, <3>7, <5>3, Zenon
        <5> QED BY <3>3, <5>1, <5>2, <5>3, Zenon
      <4> QED BY <4>1, Zenon
    <3>9. CASE e.shard = t
      <4>1. T = S \cup {n + 1} /\ n + 1 \notin S
        BY <3>3, <3>6, <3>8, <3>9
      <4>2. Cardinality(T) = Cardinality(S) + 1
        BY <3>4, <3>5, <4>1, CountOfAdded, Zenon
      <4> QED BY <3>1, <3>5, <3>9, <4>2, Zenon DEF Count
    <3>10. CASE e.shard # t
      <4>1. T = S
        BY <3>8, <3>10
      <4> QED BY <3>1, <3>5, <3>10, <4>1, Zenon DEF Count
    <3> QED BY <3>9, <3>10, Zenon
  \* The row the cursor emits: it is not after any row that is left, be it in the
  \* sink, where it was compared, or still in a ring, where it is past the safe time.
  <2>NotAfterTheRest. ASSUME Setting, TypeInv, RingInv, ArrivalInv, SinkInv, EmitInv, NEW s \in Shards, NEW e \in Emissions,
                             Ready(s), Safe(s), \A t \in Shards \ {s} : Ready(t) => Before(s, t),
                             e.shard = s, e.arrival = Next1(s).arrival,
                             NEW t \in Shards, NEW k \in Count(Append(sink.emitted, e), t) + 1 .. Len(arena.written[t])
                      PROVE  NotAfter(e, arena.written[t][k].arrival, t)
    <3> USE <2>NotAfterTheRest
    <3>1. PICK w, v, c, d, r, q : w = arena.written[s] /\ v = arena.written[t] /\ c = Count(sink.emitted, s)
                               /\ d = Count(sink.emitted, t) /\ r = arena.read[t] /\ q = arena.read[s]
      BY Zenon
    <3>2. /\ w \in Seq(Row) /\ v \in Seq(Row) /\ c \in Nat /\ d \in Nat /\ r \in Nat /\ q \in Nat
          /\ r <= Len(v) /\ q <= Len(w) /\ sink.rows[s] = SubSeq(w, 1, q) /\ sink.rows[t] = SubSeq(v, 1, r)
      BY <3>1, ArenaTypes, CountType, SinkTypes, Zenon DEF TypeInv, RingInv, RowsExactlyOnce
    <3>3. /\ Len(SubSeq(w, 1, q)) = q /\ Len(SubSeq(v, 1, r)) = r
          /\ \A j \in 1 .. q : SubSeq(w, 1, q)[j] = w[j]
          /\ \A j \in 1 .. r : SubSeq(v, 1, r)[j] = v[j]
      BY <3>2
    <3>4. /\ Ready(s) <=> c < q
          /\ Ready(t) <=> d < r
          /\ Next1(s) = sink.rows[s][c + 1] /\ Next1(t) = sink.rows[t][d + 1]
      BY <3>1, <3>2, <3>3, Zenon DEF Ready, Next1, Emitted, Count
    <3>5. c + 1 \in 1 .. q /\ c + 1 \in 1 .. Len(w)
      BY <3>2, <3>4
    <3>6. Next1(s) = w[c + 1] /\ e.arrival = w[c + 1].arrival /\ w[c + 1].arrival \in Nat
      BY <3>2, <3>3, <3>4, <3>5, RowNumbers, Zenon
    <3>7. CASE t = s
      <4>1. Count(Append(sink.emitted, e), t) = c + 1
        BY <3>1, <3>7, <2>CountOfMore, SinkTypes, Zenon
      <4>2. k \in c + 1 + 1 .. Len(w) /\ w = v
        BY <3>1, <3>7, <4>1, Zenon
      <4>3. k \in 1 .. Len(w) /\ c + 1 <= k
        BY <3>2, <4>2
      <4>4. w[c + 1].arrival <= w[k].arrival /\ w[k].arrival \in Nat
        BY <3>1, <3>2, <3>5, <4>3, RowNumbers, Zenon DEF ArrivalInv, Timed
      <4>5. (w[c + 1].arrival < w[k].arrival \/ w[c + 1].arrival = w[k].arrival) /\ s <= s
        BY <3>6, <4>4 DEF Shards
      <4> QED BY <3>1, <3>6, <3>7, <4>5, Zenon DEF NotAfter
    <3>8. CASE t # s
      <4>1. Count(Append(sink.emitted, e), t) = d
        BY <3>1, <3>8, <2>CountOfMore, SinkTypes, Zenon
      <4>2. k \in d + 1 .. Len(v)
        BY <3>1, <4>1, Zenon
      <4>3. k \in 1 .. Len(v) /\ d + 1 <= k /\ (d < r \/ r <= d)
        BY <3>2, <4>2
      <4>4. v[k].arrival \in Nat
        BY <3>2, <4>3, RowNumbers, Zenon
      <4>5. CASE d < r
        <5>1. d + 1 \in 1 .. r /\ d + 1 \in 1 .. Len(v)
          BY <3>2, <4>5
        <5>2. Next1(t) = v[d + 1] /\ v[d + 1].arrival \in Nat /\ v[d + 1].arrival <= v[k].arrival
          <6>1. Next1(t) = v[d + 1]
            BY <3>2, <3>3, <3>4, <5>1, Zenon
          <6>2. v[d + 1].arrival \in Nat
            BY <3>2, <5>1, RowNumbers, Zenon
          <6>3. Timed(v, arena.lease[t], arena.progress[t], clock)
            BY <3>1, Zenon DEF ArrivalInv
          <6>4. v[d + 1].arrival <= v[k].arrival
            BY <4>3, <5>1, <6>3, Zenon DEF Timed
          <6> QED BY <6>1, <6>2, <6>4, Zenon
        <5>3. Before(s, t)
          BY <3>4, <3>8, <4>5, Zenon
        <5>4. e.arrival < v[d + 1].arrival \/ (e.arrival = v[d + 1].arrival /\ s < t)
          BY <3>6, <5>2, <5>3, Zenon DEF Before
        <5>5. e.arrival < v[k].arrival \/ (e.arrival = v[k].arrival /\ s <= t)
          <6>1. PICK a, b, x : a = e.arrival /\ b = v[d + 1].arrival /\ x = v[k].arrival
            BY Zenon
          <6>2. a \in Nat /\ b \in Nat /\ x \in Nat /\ b <= x /\ (a < b \/ (a = b /\ s < t))
            BY <3>6, <4>4, <5>2, <5>4, <6>1, Zenon
          <6>3. a < x \/ (a = x /\ s <= t)
            BY <6>2 DEF Shards
          <6> QED BY <6>1, <6>3, Zenon
        <5> QED BY <3>1, <5>5, Zenon DEF NotAfter
      <4>6. CASE r <= d
        <5>1. PICK o : o = sink.sequences[t] /\ o \in Nat
          BY SinkTypes, Zenon
        <5>2. /\ o <= r /\ \A j \in o + 1 .. Len(v) : sink.safe <= v[j].arrival
          BY <3>1, <5>1, Zenon DEF SinkInv, Promised, Promise
        <5>3. k \in o + 1 .. Len(v)
          BY <3>2, <4>2, <4>6, <5>1, <5>2
        <5>4. sink.safe <= v[k].arrival /\ e.arrival < sink.safe /\ sink.safe \in Nat /\ e.arrival \in Nat
          BY <3>6, <5>2, <5>3, SinkTypes, Zenon DEF Safe
        <5>5. e.arrival < v[k].arrival
          BY <4>4, <5>4
        <5> QED BY <3>1, <5>5, Zenon DEF NotAfter
      <4> QED BY <4>3, <4>5, <4>6, Zenon
    <3> QED BY <3>7, <3>8, Zenon
  <2> USE <1>EmitNext
  <2>1. PICK s \in Shards :
          /\ Ready(s) /\ Safe(s) /\ \A t \in Shards \ {s} : Ready(t) => Before(s, t)
          /\ [shard |-> s, arrival |-> Next1(s).arrival] \in Emissions
          /\ sink' = [sink EXCEPT !.emitted =
                        Append(sink.emitted, [shard |-> s, arrival |-> Next1(s).arrival])]
    BY <1>CursorStep, Zenon
  <2>2. PICK e : e = [shard |-> s, arrival |-> Next1(s).arrival] /\ e.shard = s /\ e.arrival = Next1(s).arrival
    <3>1. LET e == [shard |-> s, arrival |-> Next1(s).arrival]
          IN  e.shard = s /\ e.arrival = Next1(s).arrival
      BY Zenon
    <3> QED BY <3>1, Zenon
  <2>3. PICK out, more : out = sink.emitted /\ more = Append(out, e)
    BY Zenon
  <2>4. /\ sink'.emitted = more /\ SameReport /\ out \in Outputs /\ e \in Emissions /\ arena' = arena
        /\ sink'.gaps = sink.gaps /\ sink'.rows = sink.rows /\ sink'.catalog = sink.catalog
        /\ sink'.directory = sink.directory
    BY <2>1, <2>2, <2>3, SinkTypes, <1>CursorStep, Zenon DEF SameReport, TypeInv, Sinks, SameArena
  <2>5. PICK n : n = Len(out)
    BY Zenon
  <2>6. /\ n \in Nat /\ DOMAIN out = 1 .. n /\ DOMAIN more = 1 .. n + 1 /\ more[n + 1] = e
        /\ \A i \in 1 .. n : more[i] = out[i]
    BY <2>3, <2>4, <2>5 DEF Outputs
  <2>7. /\ \A i \in 1 .. n + 1 : i \in 1 .. n \/ i = n + 1
        /\ \A i, j \in 1 .. n + 1 : i < j => i \in 1 .. n
    BY <2>6
  <2>8. \A i \in DOMAIN more : more[i].arrival < sink.safe
    <3>1. \A i \in 1 .. n : out[i].arrival < sink.safe
      BY <2>3, <2>6, Zenon DEF EmitInv
    <3>2. e.arrival < sink.safe
      BY <2>1, <2>2, Zenon DEF Safe
    <3> QED BY <2>6, <2>7, <3>1, <3>2, Zenon
  <2>9. ASSUME NEW t \in Shards
        PROVE  /\ Count(more, t) <= sink.sequences[t] /\ Count(more, t) \in Nat /\ Count(out, t) \in Nat
               /\ Count(out, t) <= Count(more, t)
    <3>1. /\ e.shard = t => Count(more, t) = Count(out, t) + 1
          /\ e.shard # t => Count(more, t) = Count(out, t)
          /\ Count(out, t) \in Nat /\ Count(out, t) <= sink.sequences[t] /\ sink.sequences[t] \in Nat
      <4>1. /\ e.shard = t => Count(Append(out, e), t) = Count(out, t) + 1
            /\ e.shard # t => Count(Append(out, e), t) = Count(out, t)
        BY <2>4, <2>CountOfMore, Zenon
      <4>2. Count(out, t) \in Nat /\ sink.sequences[t] \in Nat
        BY <2>4, CountType, SinkTypes, Zenon
      <4>3. Count(out, t) <= sink.sequences[t]
        BY <2>3, Zenon DEF EmitInv
      <4> QED BY <2>3, <4>1, <4>2, <4>3, Zenon
    <3>2. CASE t = s
      <4>1. Count(out, t) + 1 <= sink.sequences[t]
        BY <2>1, <2>3, <3>2, Zenon DEF Safe, Emitted, Count
      <4>2. Count(more, t) = Count(out, t) + 1
        BY <2>2, <3>1, <3>2, Zenon
      <4> QED BY <3>1, <4>1, <4>2
    <3>3. CASE t # s
      <4>1. Count(more, t) = Count(out, t)
        BY <2>2, <3>1, <3>3, Zenon
      <4> QED BY <3>1, <4>1
    <3> QED BY <3>2, <3>3, Zenon
  <2>10. ASSUME NEW i \in DOMAIN more, NEW t \in Shards,
                NEW k \in Count(more, t) + 1 .. Len(arena.written[t])
         PROVE  NotAfter(more[i], arena.written[t][k].arrival, t)
    <3>1. CASE i \in 1 .. n
      <4>1. k \in Count(out, t) + 1 .. Len(arena.written[t])
        <5>1. PICK a, b, c : a = Count(out, t) /\ b = Count(more, t) /\ c = Len(arena.written[t])
          BY Zenon
        <5>2. a \in Nat /\ b \in Nat /\ a <= b /\ k \in b + 1 .. c /\ c \in Nat
          BY <2>9, <2>10, <5>1, ArenaTypes, RowNumbers, Zenon DEF TypeInv
        <5>3. k \in a + 1 .. c
          BY <5>2
        <5> QED BY <5>1, <5>3, Zenon
      <4>2. NotAfter(out[i], arena.written[t][k].arrival, t)
        BY <2>3, <2>6, <3>1, <4>1, Zenon DEF EmitInv
      <4> QED BY <2>6, <3>1, <4>2, Zenon
    <3>2. CASE i = n + 1
      <4>1. NotAfter(e, arena.written[t][k].arrival, t)
        BY <2>1, <2>2, <2>3, <2>4, <2>NotAfterTheRest, Zenon
      <4> QED BY <2>6, <3>2, <4>1, Zenon
    <3> QED BY <2>6, <2>7, <2>10, <3>1, <3>2, Zenon
  <2>11. ASSUME NEW i \in 1 .. n PROVE NotAfter(out[i], e.arrival, s)
    <3>1. PICK w, c, q : w = arena.written[s] /\ c = Count(out, s) /\ q = arena.read[s]
      BY Zenon
    <3>2. /\ w \in Seq(Row) /\ c \in Nat /\ q \in Nat /\ q <= Len(w) /\ sink.rows[s] = SubSeq(w, 1, q)
      BY <2>4, <3>1, ArenaTypes, CountType, Zenon DEF TypeInv, RingInv, RowsExactlyOnce
    <3>3. Len(SubSeq(w, 1, q)) = q /\ \A j \in 1 .. q : SubSeq(w, 1, q)[j] = w[j]
      BY <3>2
    <3>4. c < q /\ Next1(s) = sink.rows[s][c + 1]
      BY <2>1, <2>3, <3>1, <3>2, <3>3, Zenon DEF Ready, Next1, Emitted, Count
    <3>5. c + 1 \in 1 .. q /\ c + 1 \in c + 1 .. Len(w)
      BY <3>2, <3>4
    <3>6. e.arrival = w[c + 1].arrival
      BY <2>2, <3>2, <3>3, <3>4, <3>5, Zenon
    <3> QED BY <2>3, <2>6, <3>1, <3>5, <3>6, Zenon DEF EmitInv
  <2>12. ASSUME NEW i \in DOMAIN more, NEW j \in DOMAIN more, i < j
         PROVE  NotAfter(more[i], more[j].arrival, more[j].shard)
    <3>1. i \in 1 .. n
      BY <2>6, <2>7, <2>12, Zenon
    <3>2. CASE j \in 1 .. n
      <4>1. i \in DOMAIN out /\ j \in DOMAIN out /\ more[i] = out[i] /\ more[j] = out[j]
        BY <2>6, <3>1, <3>2, Zenon
      <4>2. NotAfter(out[i], out[j].arrival, out[j].shard)
        BY <2>3, <2>12, <4>1, Zenon DEF EmitInv, MergedByArrival, NotAfter
      <4> QED BY <4>1, <4>2, Zenon
    <3>3. CASE j = n + 1
      BY <2>2, <2>6, <2>11, <3>1, <3>3, Zenon
    <3> QED BY <2>6, <2>7, <2>12, <3>2, <3>3, Zenon
  <2>13. MergedByArrival'
    BY <2>4, <2>12, Zenon DEF MergedByArrival, NotAfter
  <2> QED BY <2>4, <2>8, <2>9, <2>10, <2>13, Zenon DEF EmitInv, SameReport
<1> SUFFICES ASSUME Setting, IInv, CursorNext
             PROVE  IInv'
  BY Zenon
<1>1. /\ TypeInv /\ RingInv /\ DirectoryInv /\ LossInv /\ ArrivalInv /\ SinkInv /\ SnapInv /\ EmitInv /\ StopInv
  BY Zenon DEF IInv
<1>2. arena' = arena /\ clock' = clock /\ client' = client /\ sink' \in Sinks
  BY <1>1, <1>CursorStep, Zenon DEF SameArena
<1>3. /\ EmitInv' /\ SameReport /\ sink'.gaps = sink.gaps /\ sink'.rows = sink.rows
      /\ sink'.catalog = sink.catalog /\ sink'.directory = sink.directory
  BY <1>1, <1>EmitNext, Zenon
<1>4. RingInv' /\ LossInv' /\ ArrivalInv'
  BY <1>1, <1>2, <1>3, RingStill, Zenon DEF LossInv, ArrivalInv
<1>5. DirectoryInv'
  <2>1. /\ client'.sources <= arena.count /\ 1 <= client'.sources /\ client'.known <= arena.generation
        /\ sink'.directory <= client'.known
    BY <1>1, <1>2, <1>3, Zenon DEF DirectoryInv
  <2> QED BY <1>1, <1>2, <2>1, DirectoryStill, Zenon
<1>6. SinkInv'
  BY <1>1, <1>2, <1>3, Zenon DEF SinkInv, Promised, SameReport
<1>7. SnapInv'
  <2>1. arena.lost <= arena'.lost /\ arena.started <= arena'.started
    BY <1>1, <1>2, LossTypes DEF TypeInv
  <2> QED BY <1>1, <1>2, <1>3, <2>1, StillGrows, SnapGrows, Zenon
<1>8. TypeInv'
  BY <1>1, <1>2, Zenon DEF TypeInv, InSnapshot
<1>9. StopInv'
  BY <1>1, <1>2, <1>3, Zenon DEF StopInv, Sealing, InSnapshot, Quiet
<1> QED BY <1>3, <1>4, <1>5, <1>6, <1>7, <1>8, <1>9, Zenon DEF IInv

====
