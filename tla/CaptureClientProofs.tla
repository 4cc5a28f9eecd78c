------------------------ MODULE CaptureClientProofs ------------------------
(***************************************************************************)
(* The theorems about ParserMarketCaptureClient, for any number of shards  *)
(* and sources and any ring: rows handed over once and in order, sources   *)
(* before their rows, reports the writer never refuses, a cursor that      *)
(* merges by arrival, and a stop that accounts for every row.  The steps   *)
(* of a snapshot are here; the invariant and the other steps are in        *)
(* CaptureClientSteps.                                                     *)
(***************************************************************************)
EXTENDS CaptureClientSteps, FiniteSetTheorems, WellFoundedInduction

Below == {p \in Nat \X Nat : p[1] < p[2]}

\* A shard or a cell is read.
LEMMA SnapKeeps ==
    Setting /\ IInv /\ (ReadShard \/ ReadCell) => IInv'
\* Reading a shard keeps the promise of the shards before it.
<1>SnapShard. ASSUME Setting, TypeInv, ArrivalInv, SinkInv, SnapInv, ReadShard
              PROVE  SnapInv' /\ SameSnap
  \* One shard is read: it promises nothing, or the promise is lowered to its own.
  <2>ShardStep. ASSUME TypeInv, client.at \in Shards, ReadShard
                PROVE  /\ SameSnap /\ client.snap.phase = "shards" /\ client'.snap.cells = client.snap.cells
                       /\ \/ ~client'.snap.available /\ client'.snap.phase = "cells" /\ client'.at = 1
                          \/ /\ OwnerReady(client.at) /\ arena.progress[client.at] \in Reports
                             /\ client'.snap.available = client.snap.available
                             /\ client'.snap.safe = SmallerOf(arena.progress[client.at].time, client.snap.safe)
                             /\ client'.snap.sequences =
                                  [client.snap.sequences EXCEPT ![client.at] = arena.progress[client.at].write]
                             /\ client'.snap.phase = IF client.at = ShardCount THEN "cells" ELSE "shards"
                             /\ client'.at = IF client.at = ShardCount THEN 1 ELSE client.at + 1
    <3> USE <2>ShardStep
    <3> DEFINE p == arena.progress[client.at]
    <3>1. /\ arena \in Arenas /\ client \in ClientStates /\ arena.progress \in Told /\ client.at \in Nat
          /\ client.pc = "snapshot" /\ client.snap \in Snaps /\ client.snap.phase = "shards"
          /\ client.snap.safe \in Nat /\ client.snap.sequences \in Counters
      BY Zenon DEF TypeInv, Arenas, ClientStates, ReadShard, InSnapshot, Snaps
    <3>2. SameArena /\ sink' = sink
      BY Zenon DEF ReadShard, SameArena
    <3>3. CASE ~OwnerReady(client.at)
      <4>1. client' = [client EXCEPT !.snap.available = FALSE, !.snap.phase = "cells", !.at = 1]
        BY <3>3, Zenon DEF ReadShard
      <4>2. PICK n : n = [client.snap EXCEPT !.available = FALSE, !.phase = "cells"]
        BY Zenon
      <4>3. client' = [client EXCEPT !.snap = n, !.at = 1]
        BY <3>1, <4>1, <4>2, Zenon DEF ClientStates
      <4>4. n \in Snaps
        BY <3>1, <4>2, Zenon DEF Snaps, SnapPhases
      <4>5. client' \in ClientStates /\ 1 \in Nat
        BY <3>1, <4>3, <4>4, Zenon DEF ClientStates, SnapOrNone
      <4>6. SameCopy /\ SameVerdict /\ client'.pc = "snapshot" /\ client'.snap = n /\ client'.at = 1
        BY <3>1, <4>3, Zenon DEF ClientStates, SameCopy, SameVerdict
      <4>7. /\ n.revision = client.snap.revision /\ n.sealing = client.snap.sealing
            /\ n.cells = client.snap.cells /\ ~n.available /\ n.phase = "cells"
        BY <3>1, <4>2, Zenon DEF Snaps
      <4> QED BY <3>1, <3>2, <4>4, <4>5, <4>6, <4>7, Zenon DEF SameSnap
    <3>4. CASE OwnerReady(client.at)
      <4>0. p \in Reports
        BY <3>1, <3>4, Zenon DEF OwnerReady, Told
      <4>1. p.time \in Nat /\ p.write \in Nat
        BY <4>0, Zenon DEF Reports
      <4>2. client' = [client EXCEPT !.snap.safe = SmallerOf(p.time, @),
                         !.snap.sequences[client.at] = p.write,
                         !.snap.phase = IF client.at = ShardCount THEN "cells" ELSE "shards",
                         !.at = IF client.at = ShardCount THEN 1 ELSE client.at + 1]
        BY <3>4, Zenon DEF ReadShard, SmallerOf
      <4> HIDE DEF p
      <4>3. PICK n : n = [client.snap EXCEPT !.safe = SmallerOf(p.time, client.snap.safe),
                            !.sequences = [client.snap.sequences EXCEPT ![client.at] = p.write],
                            !.phase = IF client.at = ShardCount THEN "cells" ELSE "shards"]
        BY Zenon
      <4>4. PICK m : m = IF client.at = ShardCount THEN 1 ELSE client.at + 1
        BY Zenon
      <4>5. client' = [client EXCEPT !.snap = n, !.at = m]
        BY <3>1, <4>2, <4>3, <4>4, Zenon DEF ClientStates, Snaps
      <4>6. /\ m \in Nat /\ SmallerOf(p.time, client.snap.safe) \in Nat
        BY <3>1, <4>1, <4>4 DEF SmallerOf
      <4>7. [client.snap.sequences EXCEPT ![client.at] = p.write] \in Counters
        BY <3>1, <4>1, Zenon DEF Counters
      <4>8. n \in Snaps
        BY <3>1, <4>3, <4>6, <4>7, Zenon DEF Snaps, SnapPhases
      <4>9. client' \in ClientStates
        BY <3>1, <4>5, <4>6, <4>8, Zenon DEF ClientStates, SnapOrNone
      <4>10. SameCopy /\ SameVerdict /\ client'.pc = "snapshot" /\ client'.snap = n /\ client'.at = m
        BY <3>1, <4>5, Zenon DEF ClientStates, SameCopy, SameVerdict
      <4>11. /\ n.revision = client.snap.revision /\ n.sealing = client.snap.sealing
             /\ n.cells = client.snap.cells /\ n.available = client.snap.available
             /\ n.safe = SmallerOf(p.time, client.snap.safe)
             /\ n.sequences = [client.snap.sequences EXCEPT ![client.at] = p.write]
             /\ n.phase = IF client.at = ShardCount THEN "cells" ELSE "shards"
        BY <3>1, <4>3, Zenon DEF Snaps
      <4>12. SameSnap
        BY <3>1, <3>2, <4>8, <4>9, <4>10, <4>11, Zenon DEF SameSnap
      <4> QED BY <3>1, <3>4, <4>0, <4>4, <4>10, <4>11, <4>12, Zenon DEF p
    <3> QED BY <3>3, <3>4, Zenon
  \* A promise up to some time is one up to an earlier time.
  <2>PromiseWeaker. ASSUME NEW w \in Seq(Row), NEW r, NEW p \in Progresses, NEW q \in Nat, NEW safe \in Nat,
                           NEW less \in Nat, less <= safe, Promise(w, r, p, q, safe)
                    PROVE  Promise(w, r, p, q, less)
    <3> USE <2>PromiseWeaker
    <3>1. \A k \in q + 1 .. Len(w) : less <= w[k].arrival
      <4>1. ASSUME NEW k \in q + 1 .. Len(w) PROVE less <= w[k].arrival
        <5>1. k \in 1 .. Len(w)
          OBVIOUS
        <5>2. w[k].arrival \in Nat /\ safe <= w[k].arrival
          BY <5>1, RowNumbers, Zenon DEF Promise
        <5> QED BY <5>2
      <4> QED BY <4>1, Zenon
    <3>2. /\ p = None => less = 0
          /\ p # None => less <= p.time
      <4>1. /\ p = None => safe = 0
            /\ p # None => safe <= p.time /\ p.time \in Nat
        BY ReportNumbers, Zenon DEF Promise
      <4> QED BY <4>1
    <3> QED BY <3>1, <3>2, Zenon DEF Promise
  \* The owner's own report is a promise, up to any earlier time.
  <2>OwnPromise. ASSUME NEW w \in Seq(Row), NEW l, NEW r, NEW p \in Reports, NEW now, Timed(w, l, p, now),
                        p.write <= r
                 PROVE  Promise(w, r, p, p.write, p.time)
    <3> USE <2>OwnPromise
    <3>1. p # None /\ p.write <= p.write /\ p.time <= p.time
      <4>1. p # None /\ p.write \in Nat /\ p.time \in Nat
        BY NoneIsNoReport, ReportNumbers, Zenon DEF Progresses
      <4> QED BY <4>1
    <3> QED BY <3>1, Zenon DEF Timed, Promise
  <2> USE <1>SnapShard
  <2>1. InSnapshot /\ client.snap.phase = "shards" /\ client.snap \in Snaps
    BY Zenon DEF ReadShard, InSnapshot, TypeInv
  <2>2. client.at \in Shards
    <3>1. client.at >= 1 /\ client.at <= ShardCount /\ client.at \in Nat /\ ShardCount \in Nat
      BY <2>1, Zenon DEF SnapInv, TypeInv, ClientStates, Setting, Sizes
    <3> QED BY <3>1 DEF Shards
  <2>3. PICK s, c, d, p : s = client.at /\ c = client.snap /\ d = client'.snap /\ p = arena.progress[client.at]
    BY Zenon
  <2>4. /\ SameSnap /\ arena' = arena /\ sink' = sink /\ d.revision = c.revision /\ d.cells = c.cells
        /\ d \in Snaps /\ c \in Snaps /\ p \in Progresses /\ s \in Shards
    BY <2>1, <2>2, <2>3, <2>ShardStep, ArenaTypes, Zenon DEF SameSnap, SameArena, TypeInv
  <2>5. /\ c.revision <= arena.lost /\ sink.losses <= c.revision /\ c.available
        /\ sink.safe <= c.safe
        /\ \A t \in Shards : t < s =>
              Promised(t, c.sequences[t], c.safe) /\ sink.sequences[t] <= c.sequences[t]
        /\ arena.started = c.revision => \A n \in Sources : c.cells[n] = 0
    <3>1. c.phase # "cells"
      BY <2>1, <2>3, Zenon
    <3> QED BY <2>1, <2>3, <3>1, Zenon DEF SnapInv, Visited
  <2>6. ASSUME ~d.available, d.phase = "cells", client'.at = 1 PROVE SnapInv'
    <3>1. 1 >= 1 /\ \A n \in Sources : ~(n < 1)
      BY DEF Sources
    <3>2. d.phase # "shards"
      BY <2>6, Zenon
    <3>3. arena'.started = d.revision =>
            \A n \in Sources : d.cells[n] = IF d.phase = "cells" /\ n < client'.at THEN arena.cells[n] ELSE 0
      BY <2>4, <2>5, <2>6, <3>1, Zenon
    <3> QED BY <2>3, <2>4, <2>5, <2>6, <3>1, <3>2, <3>3, Zenon DEF SnapInv
  <2>7. ASSUME OwnerReady(s), p \in Reports, d.available = c.available,
               d.safe = SmallerOf(p.time, c.safe), d.sequences = [c.sequences EXCEPT ![s] = p.write],
               d.phase = (IF s = ShardCount THEN "cells" ELSE "shards"),
               client'.at = (IF s = ShardCount THEN 1 ELSE s + 1)
        PROVE  SnapInv'
    <3>1. /\ p.time \in Nat /\ p.write \in Nat /\ c.safe \in Nat /\ p # None /\ d.safe \in Nat
          /\ c.sequences \in Counters /\ sink.safe \in Nat
      BY <2>4, <2>7, NoneIsNoReport, ReportNumbers, SnapTypes, SinkTypes, Zenon DEF Progresses
    <3>2. d.safe <= p.time /\ d.safe <= c.safe /\ (d.safe = p.time \/ d.safe = c.safe)
      BY <2>7, <3>1 DEF SmallerOf
    <3>3. /\ sink.sequences[s] <= p.write /\ sink.safe <= p.time
      BY <2>3, <2>4, <3>1, Zenon DEF SinkInv, Promised, Promise
    <3>4. sink.safe <= d.safe
      BY <2>5, <3>2, <3>3, Zenon
    <3>5. /\ d.sequences[s] = p.write /\ \A t \in Shards : t # s => d.sequences[t] = c.sequences[t]
      BY <2>4, <2>7, <3>1, Zenon DEF Counters
    <3>6. Promise(arena.written[s], arena.read[s], p, p.write, d.safe)
      <4>1. PICK w, r : w = arena.written[s] /\ r = arena.read[s] /\ w \in Seq(Row) /\ r \in Nat
        BY <2>4, ArenaTypes, Zenon DEF TypeInv
      <4>2. Timed(w, arena.lease[s], p, clock)
        BY <2>3, <2>4, <4>1, Zenon DEF ArrivalInv
      <4>3. r >= p.write
        BY <2>3, <2>7, <4>1, Zenon DEF OwnerReady
      <4>4. p.write <= r
        BY <3>1, <4>1, <4>3
      <4>5. Promise(w, r, p, p.write, p.time)
        BY <2>7, <4>1, <4>2, <4>4, <2>OwnPromise, Zenon
      <4> QED BY <2>4, <3>1, <3>2, <4>1, <4>5, <2>PromiseWeaker, Zenon
    <3>7. ASSUME NEW t \in Shards, t < s
          PROVE  Promised(t, d.sequences[t], d.safe) /\ sink.sequences[t] <= d.sequences[t]
      <4>1. t # s
        BY <2>4, <3>7 DEF Shards
      <4>2. /\ Promise(arena.written[t], arena.read[t], arena.progress[t], c.sequences[t], c.safe)
            /\ sink.sequences[t] <= c.sequences[t] /\ arena.written[t] \in Seq(Row) /\ arena.progress[t] \in Progresses
            /\ c.sequences[t] \in Nat
        BY <2>4, <2>5, <3>7, ArenaTypes, SnapTypes, Zenon DEF Promised, TypeInv
      <4>3. Promise(arena.written[t], arena.read[t], arena.progress[t], c.sequences[t], d.safe)
        BY <3>1, <3>2, <4>2, <2>PromiseWeaker, Zenon
      <4> QED BY <3>5, <4>1, <4>2, <4>3, Zenon DEF Promised
    <3>8. \A t \in Shards : Visited(t)' => t < s \/ t = s
      <4>1. ShardCount \in Nat /\ s \in Shards
        BY <2>4, Zenon DEF Setting, Sizes
      <4>2. CASE s = ShardCount
        <5>1. \A t \in Shards : t < s \/ t = s
          BY <4>1, <4>2 DEF Shards
        <5> QED BY <5>1, Zenon
      <4>3. CASE s # ShardCount
        <5>1. \A t \in Shards : t < s + 1 => t < s \/ t = s
          BY <4>1 DEF Shards
        <5>2. client'.snap.phase # "cells" /\ client'.at = s + 1
          BY <2>3, <2>7, <4>3, Zenon
        <5> QED BY <5>1, <5>2, Zenon DEF Visited
      <4> QED BY <4>2, <4>3, Zenon
    <3>9. Promised(s, d.sequences[s], d.safe) /\ sink.sequences[s] <= d.sequences[s]
      BY <2>3, <2>4, <3>3, <3>5, <3>6, Zenon DEF Promised
    <3>10. \A t \in Shards : Visited(t)' =>
             Promised(t, d.sequences[t], d.safe) /\ sink.sequences[t] <= d.sequences[t]
      BY <2>4, <3>7, <3>8, <3>9, Zenon
    <3>11. /\ client'.at >= 1
           /\ d.phase = "shards" => client'.at <= ShardCount
           /\ \A n \in Sources : ~(d.phase = "cells" /\ n < client'.at)
      <4>1. ShardCount \in Nat /\ s \in Shards
        BY <2>4, Zenon DEF Setting, Sizes
      <4>2. CASE s = ShardCount
        <5>1. client'.at = 1 /\ d.phase = "cells"
          BY <2>7, <4>2, Zenon
        <5>2. 1 >= 1 /\ \A n \in Sources : ~(n < 1)
          BY DEF Sources
        <5> QED BY <5>1, <5>2, Zenon
      <4>3. CASE s # ShardCount
        <5>1. client'.at = s + 1 /\ d.phase = "shards"
          BY <2>7, <4>3, Zenon
        <5>2. s + 1 >= 1 /\ s + 1 <= ShardCount
          BY <4>1, <4>3 DEF Shards
        <5> QED BY <5>1, <5>2, Zenon
      <4> QED BY <4>2, <4>3, Zenon
    <3>12. arena.started = d.revision =>
            \A n \in Sources : d.cells[n] = IF d.phase = "cells" /\ n < client'.at THEN arena.cells[n] ELSE 0
      BY <2>4, <2>5, <3>11, Zenon
    <3>13. d.available
      BY <2>5, <2>7, Zenon
    <3>14. \A t \in Shards : Visited(t)' =>
             /\ Promise(arena'.written[t], arena'.read[t], arena'.progress[t], d.sequences[t], d.safe)
             /\ sink'.sequences[t] <= d.sequences[t]
      BY <2>4, <3>10, Zenon DEF Promised
    <3> QED BY <2>3, <2>4, <2>5, <3>4, <3>11, <3>12, <3>13, <3>14, Zenon DEF SnapInv, Promised
  <2> QED BY <2>2, <2>3, <2>4, <2>6, <2>7, <2>ShardStep, Zenon
\* Reading a cell copies it, unless a loss was started meanwhile.
<1>SnapCell. ASSUME Setting, TypeInv, DirectoryInv, SnapInv, ReadCell
             PROVE  SnapInv' /\ SameSnap
  \* One cell of the loss ledger is read.
  <2>CellStep. ASSUME Setting, TypeInv, client.at >= 1, client.sources <= arena.count, arena.count \in Sources, ReadCell
               PROVE  /\ SameSnap /\ client.snap.phase = "cells" /\ client.at \in Sources
                      /\ client'.at = client.at + 1 /\ client'.snap.phase = "cells"
                      /\ client'.snap.available = client.snap.available /\ client'.snap.safe = client.snap.safe
                      /\ client'.snap.sequences = client.snap.sequences
                      /\ client'.snap.cells = [client.snap.cells EXCEPT ![client.at] = arena.cells[client.at]]
    <3> USE <2>CellStep
    <3>1. /\ arena \in Arenas /\ client \in ClientStates /\ arena.cells \in Cells /\ client.at \in Nat
          /\ client.pc = "snapshot" /\ client.snap \in Snaps /\ client.snap.phase = "cells"
          /\ client.snap.cells \in Cells /\ client.at <= client.sources /\ client.sources \in Nat
      BY Zenon DEF TypeInv, Arenas, ClientStates, ReadCell, InSnapshot, Snaps
    <3>2. SameArena /\ sink' = sink
      BY Zenon DEF ReadCell, SameArena
    <3>3. client.at \in Sources /\ client.at + 1 \in Nat
      <4>1. /\ client.at \in Nat /\ client.at >= 1 /\ client.at <= client.sources /\ client.sources \in Nat
            /\ client.sources <= arena.count /\ arena.count \in 1 .. DirectoryCapacity /\ DirectoryCapacity \in Nat
        BY <3>1, Zenon DEF Setting, Sizes, Sources
      <4> QED BY <4>1 DEF Sources
    <3>4. PICK n : n = [client.snap EXCEPT !.cells = [client.snap.cells EXCEPT ![client.at] = arena.cells[client.at]]]
      BY Zenon
    <3>5. client' = [client EXCEPT !.snap = n, !.at = client.at + 1]
      BY <3>1, <3>4, Zenon DEF ReadCell, ClientStates, Snaps
    <3>6. [client.snap.cells EXCEPT ![client.at] = arena.cells[client.at]] \in Cells
      BY <3>1, <3>3, Zenon DEF Cells
    <3>7. n \in Snaps
      BY <3>1, <3>4, <3>6, Zenon DEF Snaps
    <3>8. client' \in ClientStates
      BY <3>1, <3>3, <3>5, <3>7, Zenon DEF ClientStates, SnapOrNone
    <3>9. SameCopy /\ SameVerdict /\ client'.pc = "snapshot" /\ client'.snap = n /\ client'.at = client.at + 1
      BY <3>1, <3>5, Zenon DEF ClientStates, SameCopy, SameVerdict
    <3>10. /\ n.revision = client.snap.revision /\ n.sealing = client.snap.sealing /\ n.phase = "cells"
           /\ n.available = client.snap.available /\ n.safe = client.snap.safe
           /\ n.sequences = client.snap.sequences
           /\ n.cells = [client.snap.cells EXCEPT ![client.at] = arena.cells[client.at]]
      BY <3>1, <3>4, Zenon DEF Snaps
    <3> QED BY <3>1, <3>2, <3>3, <3>7, <3>8, <3>9, <3>10, Zenon DEF SameSnap
  <2> USE <1>SnapCell
  <2>1. InSnapshot /\ client.snap.phase = "cells" /\ client.snap \in Snaps
    BY Zenon DEF ReadCell, InSnapshot, TypeInv
  <2>2. client.at >= 1 /\ client.sources <= arena.count /\ arena.count \in Sources
    BY <2>1, Zenon DEF SnapInv, DirectoryInv
  <2>3. PICK m, c, d : m = client.at /\ c = client.snap /\ d = client'.snap
    BY Zenon
  <2>4. /\ SameSnap /\ arena' = arena /\ sink' = sink /\ d.revision = c.revision /\ m \in Sources
        /\ client'.at = m + 1 /\ d.phase = "cells" /\ d.available = c.available /\ d.safe = c.safe
        /\ d.sequences = c.sequences /\ d.cells = [c.cells EXCEPT ![m] = arena.cells[m]] /\ c.phase = "cells"
        /\ c \in Snaps /\ m >= 1
    BY <2>1, <2>2, <2>3, <2>CellStep, Zenon DEF SameSnap, SameArena
  <2>5. /\ c.revision <= arena.lost /\ sink.losses <= c.revision
        /\ c.available => /\ sink.safe <= c.safe
                          /\ \A s \in Shards : Promised(s, c.sequences[s], c.safe)
                                               /\ sink.sequences[s] <= c.sequences[s]
        /\ arena.started = c.revision => \A n \in Sources : c.cells[n] = IF n < m THEN arena.cells[n] ELSE 0
    BY <2>1, <2>3, <2>4, Zenon DEF SnapInv, Visited
  <2>6. \A n \in Sources : (n < m + 1 <=> n < m \/ n = m) /\ (n = m => ~(n < m))
    BY <2>4 DEF Sources
  <2>7. m + 1 >= 1 /\ "cells" # "shards"
    BY <2>4 DEF Sources
  <2>8. arena.started = d.revision => \A n \in Sources : d.cells[n] = IF n < m + 1 THEN arena.cells[n] ELSE 0
    <3> SUFFICES ASSUME arena.started = d.revision, NEW n \in Sources
                 PROVE  d.cells[n] = IF n < m + 1 THEN arena.cells[n] ELSE 0
      BY Zenon
    <3>1. c.cells \in Cells /\ c.cells[n] = IF n < m THEN arena.cells[n] ELSE 0
      BY <2>4, <2>5, SnapTypes, Zenon
    <3>2. CASE n = m
      BY <2>4, <2>6, <3>1, <3>2, Zenon DEF Cells
    <3>3. CASE n # m
      <4>1. d.cells[n] = c.cells[n]
        BY <2>4, <3>1, <3>3, Zenon DEF Cells
      <4> QED BY <2>6, <3>1, <3>3, <4>1, Zenon
    <3> QED BY <3>2, <3>3, Zenon
  <2>9. c.available => \A s \in Shards :
             /\ Promise(arena'.written[s], arena'.read[s], arena'.progress[s], d.sequences[s], d.safe)
             /\ sink'.sequences[s] <= d.sequences[s]
    BY <2>4, <2>5, Zenon DEF Promised
  <2>10. d.phase # "shards"
    BY <2>4, <2>7, Zenon
  <2>11. arena.started = d.revision =>
            \A n \in Sources : d.cells[n] = IF d.phase = "cells" /\ n < client'.at THEN arena.cells[n] ELSE 0
    BY <2>4, <2>8, Zenon
  <2> QED BY <2>3, <2>4, <2>5, <2>7, <2>9, <2>10, <2>11, Zenon DEF SnapInv, Promised
\* Reading on keeps what is known of a stopped arena.
<1>StopSnap. ASSUME StopInv, SameSnap
             PROVE  StopInv'
  BY <1>StopSnap, Zenon DEF StopInv, SameSnap, SameArena, SameCopy, SameVerdict, Sealing, InSnapshot, Quiet
<1> SUFFICES ASSUME Setting, IInv, ReadShard \/ ReadCell
             PROVE  IInv'
  BY Zenon
<1>1. SnapInv' /\ SameSnap
  BY <1>SnapShard, <1>SnapCell, Zenon DEF IInv
<1>2. /\ SameArena /\ sink' = sink /\ client' \in ClientStates /\ SameCopy /\ client'.snap \in Snaps
  BY <1>1, Zenon DEF SameSnap
<1>3. /\ RingInv' /\ DirectoryInv' /\ LossInv' /\ ArrivalInv' /\ SinkInv' /\ EmitInv'
      /\ arena' \in Arenas /\ clock' \in Nat /\ sink' \in Sinks
  BY <1>2, KnownStill, StillKeeps, Zenon
<1>4. TypeInv'
  BY <1>2, <1>3, Zenon DEF TypeInv
<1>5. StopInv'
  BY <1>1, <1>StopSnap, Zenon DEF IInv
<1> QED BY <1>1, <1>3, <1>4, <1>5, Zenon DEF IInv

\* The end of a snapshot.
LEMMA ReportKeeps ==
    Setting /\ IInv /\ PublishEnd => IInv'
\* The end of a snapshot: the ledger is reported, with the promise when it stands.
<1>ReportStep. ASSUME TypeInv, PublishEnd
               PROVE  /\ SameArena /\ client' \in ClientStates /\ sink' \in Sinks /\ SameCopy
                      /\ client'.how = client.how
                      /\ client.pc = "snapshot" /\ client.snap \in Snaps /\ client.snap.phase = "cells"
                      /\ client.at > client.sources
                      /\ client'.pc = IF client.snap.sealing THEN "sealed" ELSE "idle"
                      /\ \/ sink' = sink /\ ~SameCut
                         \/ sink' = sink /\ SameCut /\ Total(client.snap.cells) # client.snap.revision
                         \/ sink' = Reported(client.snap) /\ SameCut /\ Total(client.snap.cells) = client.snap.revision
  <2> USE <1>ReportStep
  <2>1. /\ client \in ClientStates /\ sink \in Sinks /\ client.known \in Nat
        /\ client.pc = "snapshot" /\ client.snap \in Snaps /\ client.snap.phase = "cells"
        /\ client.at > client.sources /\ SameArena
    BY Zenon DEF TypeInv, ClientStates, PublishEnd, InSnapshot, SameArena
  <2>2. /\ client.snap.cells \in Cells /\ client.snap.safe \in Nat /\ client.snap.sequences \in Counters
        /\ client.snap.revision \in Nat
    BY <2>1, Zenon DEF Snaps
  <2>3. /\ \/ client' = Return(client) \/ client' = [Return(client) EXCEPT !.failed = TRUE]
        /\ \/ sink' = sink /\ ~SameCut
           \/ sink' = sink /\ SameCut /\ Total(client.snap.cells) # client.snap.revision
           \/ sink' = Reported(client.snap) /\ SameCut /\ Total(client.snap.cells) = client.snap.revision
    <3>1. CASE ~SameCut
      BY <3>1, Zenon DEF PublishEnd
    <3>2. CASE SameCut /\ Total(client.snap.cells) # client.snap.revision
      BY <3>2, Zenon DEF PublishEnd
    <3>3. CASE SameCut /\ Total(client.snap.cells) = client.snap.revision
      BY <3>3, Zenon DEF PublishEnd, Reported
    <3> QED BY <3>1, <3>2, <3>3, Zenon
  <2>4. /\ client' \in ClientStates /\ SameCopy /\ client'.how = client.how
        /\ client'.pc = IF client.snap.sealing THEN "sealed" ELSE "idle"
    <3>1. \E b \in BOOLEAN : client' = [client EXCEPT !.pc = IF client.snap.sealing THEN "sealed" ELSE "idle",
                                                      !.at = 1, !.snap = None, !.failed = b]
      <4>1. client.failed \in BOOLEAN
        BY <2>1, Zenon DEF ClientStates
      <4>2. CASE client' = Return(client)
        <5>1. client' = [client EXCEPT !.pc = IF client.snap.sealing THEN "sealed" ELSE "idle",
                                       !.at = 1, !.snap = None, !.failed = client.failed]
          BY <2>1, <4>2, Zenon DEF Return, ClientStates
        <5> QED BY <4>1, <5>1, Zenon
      <4>3. CASE client' = [Return(client) EXCEPT !.failed = TRUE]
        BY <4>3, Zenon DEF Return
      <4> QED BY <2>3, <4>2, <4>3, Zenon
    <3>2. 1 \in Nat
      OBVIOUS
    <3>3. client' \in ClientStates
      BY <2>1, <3>1, <3>2, Zenon DEF ClientStates, Places, SnapOrNone
    <3> QED BY <2>1, <3>1, <3>3, Zenon DEF ClientStates, SameCopy
  <2>5. sink' \in Sinks
    BY <2>1, <2>2, <2>3, Zenon DEF Reported, Sinks
  <2> QED BY <2>1, <2>3, <2>4, <2>5, Zenon
\* A report that stands is one the sink accepts.
<1>ReportTaken. ASSUME TypeInv, RingInv, DirectoryInv, SnapInv, PublishEnd
                PROVE  /\ sink'.rows = sink.rows /\ sink'.catalog = sink.catalog /\ sink'.emitted = sink.emitted
                       /\ (SameReport /\ sink'.directory = sink.directory) \/ Taken
                       /\ Total(client.snap.cells) = client.snap.revision /\ SameCut => sink'.gaps = client.snap.cells
  <2> USE <1>ReportTaken
  <2>1. /\ InSnapshot /\ client.snap.phase = "cells" /\ client.snap \in Snaps /\ sink \in Sinks
    BY <1>ReportStep, Zenon DEF InSnapshot, TypeInv
  <2>2. PICK c : c = client.snap
    BY Zenon
  <2>3. CASE sink' = sink /\ ~(Total(client.snap.cells) = client.snap.revision /\ SameCut)
    BY <2>3, Zenon DEF SameReport
  <2>4. CASE sink' = Reported(c)
    <3>1. CASE ~c.available
      <4>1. sink' = [sink EXCEPT !.gaps = c.cells]
        BY <2>4, <3>1, Zenon DEF Reported
      <4>2. /\ sink'.rows = sink.rows /\ sink'.catalog = sink.catalog /\ sink'.emitted = sink.emitted
            /\ sink'.gaps = c.cells /\ sink'.directory = sink.directory /\ SameReport
        BY <2>1, <4>1, Zenon DEF Sinks, SameReport
      <4> QED BY <2>2, <4>2, Zenon
    <3>2. CASE c.available
      <4>1. /\ sink.safe <= c.safe /\ c.revision <= arena.lost /\ sink.losses <= c.revision
            /\ sink.directory <= client.known
            /\ \A s \in Shards : Promised(s, c.sequences[s], c.safe) /\ sink.sequences[s] <= c.sequences[s]
        BY <2>1, <2>2, <3>2, Zenon DEF SnapInv, Visited, DirectoryInv
      <4>2. \A s \in Shards : c.sequences[s] >= sink.sequences[s] /\ c.sequences[s] <= Len(sink.rows[s])
        <5> SUFFICES ASSUME NEW s \in Shards
                     PROVE  c.sequences[s] >= sink.sequences[s] /\ c.sequences[s] <= Len(sink.rows[s])
          BY Zenon
        <5>1. PICK w, r, q, o : w = arena.written[s] /\ r = arena.read[s] /\ q = c.sequences[s] /\ o = sink.sequences[s]
          BY Zenon
        <5>2. /\ w \in Seq(Row) /\ r \in Nat /\ q \in Nat /\ o \in Nat /\ q <= r /\ o <= q /\ r <= Len(w)
              /\ sink.rows[s] = SubSeq(w, 1, r)
          BY <2>1, <2>2, <4>1, <5>1, ArenaTypes, SnapTypes, SinkTypes, Zenon
             DEF TypeInv, Promised, Promise, RingInv, RowsExactlyOnce
        <5>3. q >= o /\ q <= Len(SubSeq(w, 1, r))
          BY <5>2
        <5> QED BY <5>1, <5>2, <5>3, Zenon
      <4>3. c.safe >= sink.safe /\ c.revision >= sink.losses /\ client.known >= sink.directory
        <5>1. /\ sink.safe <= c.safe /\ sink.losses <= c.revision /\ sink.directory <= client.known
              /\ sink.safe \in Nat /\ c.safe \in Nat /\ sink.losses \in Nat /\ c.revision \in Nat
              /\ sink.directory \in Nat /\ client.known \in Nat
          BY <2>1, <2>2, <4>1, SnapTypes, SinkTypes, Zenon DEF TypeInv, ClientStates
        <5> QED BY <5>1
      <4>4. Accepts(c)
        BY <4>2, <4>3, Zenon DEF Accepts
      <4>5. sink' = [sink EXCEPT !.gaps = c.cells, !.safe = c.safe, !.sequences = c.sequences,
                                 !.losses = c.revision, !.directory = client.known]
        BY <2>4, <3>2, <4>4, Zenon DEF Reported
      <4>6. /\ sink'.rows = sink.rows /\ sink'.catalog = sink.catalog /\ sink'.emitted = sink.emitted
            /\ sink'.gaps = c.cells /\ sink'.directory = client.known /\ sink'.refused = sink.refused
            /\ sink'.safe = c.safe /\ sink'.sequences = c.sequences /\ sink'.losses = c.revision
        BY <2>1, <4>5, Zenon DEF Sinks
      <4>7. Taken
        BY <2>2, <4>1, <4>6, Zenon DEF Taken
      <4> QED BY <2>2, <4>6, <4>7, Zenon
    <3> QED BY <3>1, <3>2, Zenon
  <2> QED BY <2>2, <2>3, <2>4, <1>ReportStep, Zenon
\* The sink after a report, ...
<1>SinkReport. ASSUME Setting, TypeInv, RingInv, DirectoryInv, SinkInv, SnapInv, PublishEnd
               PROVE  SinkInv'
  <2> USE <1>SinkReport
  <2>1. arena' = arena
    BY <1>ReportStep, Zenon DEF SameArena
  <2>2. CASE SameReport
    <3>1. arena.lost <= arena'.lost
      BY <2>1, LossTypes DEF TypeInv
    <3> QED BY <2>1, <2>2, <3>1, StillGrows, SinkGrows, Zenon
  <2>3. CASE Taken
    BY <2>1, <2>3, Zenon DEF Taken, SinkInv, Promised
  <2> QED BY <2>2, <2>3, <1>ReportTaken, Zenon
\* ... what the cursor may emit from then on, ...
<1>EmitReport. ASSUME Setting, TypeInv, RingInv, DirectoryInv, SinkInv, SnapInv, EmitInv, PublishEnd
               PROVE  EmitInv'
  <2> USE <1>EmitReport
  <2>1. arena' = arena /\ sink'.emitted = sink.emitted
    BY <1>ReportStep, <1>ReportTaken, Zenon DEF SameArena
  <2>2. CASE SameReport
    BY <2>1, <2>2, StillGrows, <1>SinkReport, EmitGrows, Zenon
  <2>3. CASE Taken
    <3>1. PICK out, c : out = sink.emitted /\ out \in Outputs /\ c = client.snap /\ c \in Snaps
      BY SinkTypes, <1>ReportStep, Zenon
    <3>2. ASSUME NEW i \in DOMAIN out PROVE out[i].arrival < c.safe
      <4>1. out[i] \in Emissions
        BY <3>1 DEF Outputs
      <4>2. /\ out[i].arrival \in Nat /\ sink.safe \in Nat /\ c.safe \in Nat
            /\ out[i].arrival < sink.safe /\ sink.safe <= c.safe
        BY <2>3, <3>1, <4>1, SinkTypes, SnapTypes, Zenon DEF Taken, EmitInv, Emissions
      <4> QED BY <4>2
    <3>3. ASSUME NEW s \in Shards PROVE Count(out, s) <= c.sequences[s]
      <4>1. /\ Count(out, s) \in Nat /\ sink.sequences[s] \in Nat /\ c.sequences[s] \in Nat
            /\ Count(out, s) <= sink.sequences[s] /\ sink.sequences[s] <= c.sequences[s]
        BY <2>3, <3>1, CountType, SinkTypes, SnapTypes, Zenon DEF Taken, EmitInv
      <4> QED BY <4>1
    <3>4. sink'.emitted = out /\ sink'.safe = c.safe /\ sink'.sequences = c.sequences
      BY <2>1, <2>3, <3>1, Zenon DEF Taken
    <3>5. \A i \in DOMAIN sink'.emitted : sink'.emitted[i].arrival < sink'.safe
      BY <3>2, <3>4, Zenon
    <3>6. \A s \in Shards : Count(sink'.emitted, s) <= sink'.sequences[s]
      BY <3>3, <3>4, Zenon
    <3>7. \A i \in DOMAIN sink'.emitted : \A s \in Shards :
             \A k \in Count(sink'.emitted, s) + 1 .. Len(arena'.written[s]) :
                NotAfter(sink'.emitted[i], arena'.written[s][k].arrival, s)
      BY <2>1, Zenon DEF EmitInv
    <3>8. MergedByArrival'
      <4>1. MergedByArrival
        BY Zenon DEF EmitInv
      <4> QED BY <2>1, <4>1, Zenon DEF MergedByArrival
    <3> QED BY <3>5, <3>6, <3>7, <3>8, Zenon DEF EmitInv
  <2> QED BY <2>2, <2>3, <1>ReportTaken, Zenon
\* ... and, after a stop, the gaps, which are all the losses.
<1>StopReport. ASSUME Setting, TypeInv, RingInv, DirectoryInv, LossInv, SnapInv, StopInv, PublishEnd
               PROVE  StopInv'
  <2> USE <1>StopReport
  <2>1. /\ arena' = arena /\ client'.known = client.known /\ client'.how = client.how
        /\ client.pc = "snapshot" /\ client.snap.phase = "cells" /\ client.at > client.sources
        /\ client'.pc = IF client.snap.sealing THEN "sealed" ELSE "idle"
    BY <1>ReportStep, Zenon DEF SameArena, SameCopy
  <2>2. CASE ~client.snap.sealing
    <3>1. client'.pc = "idle"
      BY <2>1, <2>2, Zenon
    <3>2. ~Sealing'
      BY <3>1, Zenon DEF Sealing, InSnapshot
    <3>3. /\ arena'.lease = arena.lease /\ SameDoor /\ SameDirectory
          /\ client.how = "stop" => client'.known = arena.generation
      BY <2>1, Zenon DEF SameDoor, SameDirectory, StopInv
    <3> QED BY <2>1, <3>2, <3>3, StopStill, Zenon
  <2>3. CASE client.snap.sealing
    <3> SUFFICES ASSUME client'.how = "stop" PROVE StopInv'
      BY Zenon DEF StopInv
    <3>1. client'.pc = "sealed" /\ Sealing /\ InSnapshot /\ client.how = "stop"
      BY <2>1, <2>3, Zenon DEF Sealing, InSnapshot
    <3>2. /\ ~arena.attached /\ client.known = arena.generation /\ \A s \in Shards : Quiet(s)
          /\ \A s \in Shards : arena.read[s] = Len(arena.written[s])
          /\ arena.lost = client.snap.revision /\ arena.count = client.sources
      BY <3>1, Zenon DEF StopInv
    <3>3. arena.started = arena.lost
      BY <3>2, QuietIsCounted, Zenon
    <3>4. SameCut
      <4>1. client.how # "running"
        BY <3>1, Zenon
      <4> QED BY <3>2, <3>3, <4>1, Zenon DEF SameCut, Stopped
    <3>5. Total(client.snap.cells) = client.snap.revision
      BY <2>1, <3>4, SnapComplete, Zenon
    <3>6. sink'.gaps = client.snap.cells
      BY <3>4, <3>5, <1>ReportTaken, Zenon
    <3>7. Total(sink.gaps)' = arena'.lost
      BY <2>1, <3>2, <3>5, <3>6, Zenon
    <3>8. ~InSnapshot' /\ (\A s \in Shards : Quiet(s))'
      BY <2>1, <3>1, <3>2, Zenon DEF InSnapshot, Quiet
    <3> QED BY <2>1, <3>2, <3>7, <3>8, Zenon DEF StopInv
  <2> QED BY <2>2, <2>3, Zenon
<1> SUFFICES ASSUME Setting, IInv, PublishEnd
             PROVE  IInv'
  BY Zenon
<1>1. /\ TypeInv /\ RingInv /\ DirectoryInv /\ LossInv /\ ArrivalInv /\ SinkInv /\ SnapInv /\ EmitInv /\ StopInv
  BY Zenon DEF IInv
<1>2. /\ arena' = arena /\ clock' = clock /\ client' \in ClientStates /\ sink' \in Sinks /\ SameCopy
      /\ client'.pc = IF client.snap.sealing THEN "sealed" ELSE "idle"
  BY <1>1, <1>ReportStep, Zenon DEF SameArena
<1>3. /\ sink'.rows = sink.rows /\ sink'.catalog = sink.catalog
      /\ sink'.directory = sink.directory \/ sink'.directory = client.known
  BY <1>1, <1>ReportTaken, Zenon DEF Taken
<1>4. RingInv' /\ LossInv' /\ ArrivalInv'
  BY <1>1, <1>2, <1>3, RingStill, Zenon DEF LossInv, ArrivalInv, SameCopy
<1>5. DirectoryInv'
  <2>1. client.known \in Nat /\ sink.directory <= client.known
    BY <1>1, DirectoryTypes, Zenon DEF DirectoryInv, DirectoryNumbers
  <2>2. client.known <= client.known
    BY <2>1
  <2>3. /\ client'.sources <= arena.count /\ 1 <= client'.sources /\ client'.known <= arena.generation
        /\ sink'.directory <= client'.known
    BY <1>1, <1>2, <1>3, <2>1, <2>2, Zenon DEF DirectoryInv, SameCopy
  <2> QED BY <1>1, <1>2, <2>3, DirectoryStill, Zenon
<1>6. SinkInv' /\ EmitInv' /\ StopInv'
  BY <1>1, <1>SinkReport, <1>EmitReport, <1>StopReport, Zenon
<1>7. ~InSnapshot'
  <2>1. "sealed" # "snapshot" /\ "idle" # "snapshot"
    BY Zenon
  <2> QED BY <1>2, <2>1, Zenon DEF InSnapshot
<1>8. TypeInv' /\ SnapInv'
  BY <1>1, <1>2, <1>7, Zenon DEF TypeInv, SnapInv
<1> QED BY <1>4, <1>5, <1>6, <1>8, Zenon DEF IInv

\* All steps of the client.
LEMMA ClientKeeps ==
    Setting /\ IInv /\ Client => IInv'
\* Every other step of the client leaves the arena and the sink alone.
<1>MovesStep. ASSUME TypeInv,
                     \/ \E s \in Shards : TakeRefused(s)
                     \/ DrainEnd \/ StopRequest \/ StopTimeout
                     \/ FreezeBegin \/ FreezeScan \/ FreezeEpoch \/ FreezeTimeout
              PROVE  Moves
  <2> USE <1>MovesStep
  <2>1. arena \in Arenas /\ client \in ClientStates /\ client.at \in Nat /\ 1 \in Nat /\ arena.lost \in Nat
    BY Zenon DEF TypeInv, Arenas, ClientStates
  <2>2. client.at + 1 \in Nat
    BY <2>1
  <2>3. SameArena /\ sink' = sink
    BY Zenon DEF TakeRefused, DrainEnd, StopRequest, StopTimeout, FreezeBegin, FreezeScan, FreezeEpoch,
      FreezeTimeout, SameArena
  <2>4. CASE \/ client' = [client EXCEPT !.pc = "idle"]
             \/ client' = [client EXCEPT !.pc = "progress"]
             \/ client' = [client EXCEPT !.pc = "stopping"]
             \/ \E b \in BOOLEAN : client' = [client EXCEPT !.pc = "idle", !.failed = b]
             \/ client' = [client EXCEPT !.pc = "freeze", !.at = 1]
             \/ client' = [client EXCEPT !.pc = "idle", !.at = 1, !.how = "freeze", !.final = arena.lost]
    <3>1. client' \in ClientStates
      BY <2>1, <2>4, Zenon DEF ClientStates, Places, Hows
    <3>2. SameCopy /\ client'.pc \notin {"snapshot", "sealed"}
      BY <2>1, <2>4, Zenon DEF ClientStates, SameCopy
    <3>3. client'.how = "stop" => client.how = "stop"
      BY <2>1, <2>4, Zenon DEF ClientStates
    <3> QED BY <2>3, <3>1, <3>2, <3>3, Zenon DEF Moves
  <2>5. CASE client.pc = "freeze" /\ \E n \in Nat : client' = [client EXCEPT !.at = n]
    <3>1. client' \in ClientStates
      BY <2>1, <2>5, Zenon DEF ClientStates
    <3>2. SameCopy /\ client'.pc \notin {"snapshot", "sealed"}
      BY <2>1, <2>5, Zenon DEF ClientStates, SameCopy
    <3>3. client'.how = "stop" => client.how = "stop"
      BY <2>1, <2>5, Zenon DEF ClientStates
    <3> QED BY <2>3, <3>1, <3>2, <3>3, Zenon DEF Moves
  <2>6. CASE FreezeScan
    <3>1. client.pc = "freeze" /\ client' = [client EXCEPT !.at = IF Quiet(client.at) THEN @ + 1 ELSE 1]
      BY <2>6, Zenon DEF FreezeScan
    <3>2. client.pc = "freeze" /\ \E n \in Nat : client' = [client EXCEPT !.at = n]
      BY <2>1, <2>2, <3>1, Zenon
    <3> QED BY <2>5, <3>2, Zenon
  <2>7. CASE FreezeEpoch
    BY <2>1, <2>4, <2>5, <2>7, Zenon DEF FreezeEpoch
  <2>8. CASE StopTimeout \/ FreezeTimeout
    BY <2>4, <2>8, Zenon DEF StopTimeout, FreezeTimeout
  <2>9. CASE DrainEnd \/ StopRequest \/ FreezeBegin \/ \E s \in Shards : TakeRefused(s)
    BY <2>4, <2>9, Zenon DEF DrainEnd, StopRequest, FreezeBegin, TakeRefused
  <2> QED BY <2>6, <2>7, <2>8, <2>9, Zenon
\* The first half of a snapshot goes on only from a directory that is copied.
<1>SnapshotBegins. ASSUME Setting, TypeInv, NEW sealing \in BOOLEAN, client' = SnapshotBegin(sealing),
                          SameArena, sink' = sink
                   PROVE  Begins(sealing) \/ (Returns(sealing) /\ ~Current)
  <2> USE <1>SnapshotBegins
  <2>1. /\ arena \in Arenas /\ client \in ClientStates /\ 1 \in Nat /\ arena.lost \in Nat
    BY Zenon DEF TypeInv, Arenas
  <2>2. MaxClock + 1 \in Nat
    BY DEF Setting, Sizes
  <2>3. FirstSnap(sealing) \in Snaps
    <3>1. [s \in Shards |-> 0] \in Counters /\ NoCells \in Cells
      BY Zenon DEF Counters, Cells, NoCells, Sources
    <3> QED BY <2>1, <2>2, <3>1, Zenon DEF FirstSnap, Snaps, SnapPhases
  <2>4. CASE Current
    <3>1. client' = [client EXCEPT !.pc = "snapshot", !.at = 1, !.snap = FirstSnap(sealing)]
      BY <2>4, Zenon DEF SnapshotBegin, FirstSnap, Current
    <3>2. client' \in ClientStates
      BY <2>1, <2>3, <3>1, Zenon DEF ClientStates, Places, SnapOrNone
    <3>3. /\ SameCopy /\ SameVerdict
          /\ client'.pc = "snapshot" /\ client'.at = 1 /\ client'.snap = FirstSnap(sealing)
      BY <2>1, <3>1, Zenon DEF ClientStates, SameCopy, SameVerdict
    <3> QED BY <2>3, <2>4, <3>2, <3>3, Zenon DEF Begins
  <2>5. CASE ~Current
    <3>1. client' = Return([client EXCEPT !.snap = FirstSnap(sealing)])
      BY <2>5, Zenon DEF SnapshotBegin, FirstSnap, Current
    <3>2. [client EXCEPT !.snap = FirstSnap(sealing)].snap.sealing = sealing
      BY <2>1, Zenon DEF FirstSnap, ClientStates
    <3>3. client' = [client EXCEPT !.snap = None, !.pc = IF sealing THEN "sealed" ELSE "idle", !.at = 1]
      BY <2>1, <3>1, <3>2, Zenon DEF Return, ClientStates
    <3>4. client' \in ClientStates
      BY <2>1, <3>3, Zenon DEF ClientStates, Places, SnapOrNone
    <3>5. SameCopy /\ SameVerdict /\ client'.pc = IF sealing THEN "sealed" ELSE "idle"
      BY <2>1, <3>3, Zenon DEF ClientStates, SameCopy, SameVerdict
    <3> QED BY <2>5, <3>4, <3>5, Zenon DEF Returns
  <2> QED BY <2>4, <2>5, Zenon
\* publishProgressTo begins a snapshot, or returns.
<1>PublishStep. ASSUME Setting, TypeInv, PublishBegin
                PROVE  Begins(FALSE) \/ Moves
  <2> USE <1>PublishStep
  <2>1. client' = SnapshotBegin(FALSE) /\ SameArena /\ sink' = sink
    BY Zenon DEF PublishBegin, SameArena
  <2>2. Begins(FALSE) \/ Returns(FALSE)
    BY <2>1, <1>SnapshotBegins, Zenon
  <2>3. Returns(FALSE) => Moves
    BY Zenon DEF Returns, Moves, SameVerdict
  <2> QED BY <2>2, <2>3, Zenon
\* appendFrozenLosses begins a snapshot only when every ring is drained.
<1>FrozenStep. ASSUME Setting, TypeInv, AppendFrozenLosses
               PROVE  /\ Begins(TRUE) \/ Moves \/ (Returns(TRUE) /\ ~Current)
                      /\ \A s \in Shards : Pending(s) = 0
  <2> USE <1>FrozenStep
  <2>1. SameArena /\ sink' = sink /\ client.pc = "idle" /\ \A s \in Shards : Pending(s) = 0
    BY Zenon DEF AppendFrozenLosses, SameArena
  <2>2. CASE client' = SnapshotBegin(TRUE)
    BY <2>1, <2>2, <1>SnapshotBegins, Zenon
  <2>3. CASE client' = [client EXCEPT !.failed = TRUE]
    <3>1. client \in ClientStates
      BY Zenon DEF TypeInv
    <3>2. client' \in ClientStates
      BY <2>3, <3>1, Zenon DEF ClientStates
    <3>3. SameCopy /\ client'.pc = "idle" /\ client'.how = client.how
      BY <2>1, <2>3, <3>1, Zenon DEF ClientStates, SameCopy
    <3> QED BY <2>1, <3>2, <3>3, Zenon DEF Moves
  <2> QED BY <2>1, <2>2, <2>3, Zenon DEF AppendFrozenLosses
<1> SUFFICES ASSUME Setting, IInv, Client
             PROVE  IInv'
  BY Zenon
<1>1. TypeInv
  BY Zenon DEF IInv
<1>2. CASE \/ \E s \in Shards : TakeRefused(s)
           \/ DrainEnd \/ StopRequest \/ StopTimeout
           \/ FreezeBegin \/ FreezeScan \/ FreezeEpoch \/ FreezeTimeout
  <2>1. Moves
    BY <1>1, <1>2, <1>MovesStep, Zenon
  <2> QED BY <2>1, MovesKeeps, Zenon
<1>3. CASE PublishBegin
  <2>1. Begins(FALSE) \/ Moves
    BY <1>1, <1>3, <1>PublishStep, Zenon
  <2> QED BY <2>1, MovesKeeps, BeginsKeeps, Zenon
<1>4. CASE AppendFrozenLosses
  <2>1. /\ Begins(TRUE) \/ Moves \/ (Returns(TRUE) /\ ~Current)
        /\ \A s \in Shards : Pending(s) = 0
    BY <1>1, <1>4, <1>FrozenStep, Zenon
  <2> QED BY <2>1, MovesKeeps, BeginsKeeps, ReturnsKeeps, Zenon
<1> QED BY <1>2, <1>3, <1>4, DrainKeeps, TakeKeeps, SnapKeeps, ReportKeeps, AcknowledgedKeeps, Zenon DEF Client

\* Steps of other components.
LEMMA StutterKeeps ==
    ASSUME IInv, UNCHANGED vars
    PROVE  IInv'
<1>1. arena' = arena /\ clock' = clock /\ client' = client /\ sink' = sink
  BY Zenon DEF vars
<1>2. TypeInv' /\ RingInv' /\ LossInv' /\ ArrivalInv'
  BY <1>1, Zenon DEF IInv, TypeInv, InSnapshot, RingInv, RowsExactlyOnce, LossInv, ArrivalInv
<1>3. DirectoryInv'
  BY <1>1, DirectoryStill, Zenon DEF IInv, DirectoryInv
<1>4. SinkInv' /\ SnapInv'
  BY <1>1, Zenon DEF IInv, SinkInv, SnapInv, InSnapshot, Promised, Visited
<1>5. EmitInv'
  BY <1>1, Zenon DEF IInv, EmitInv, MergedByArrival
<1>6. StopInv'
  BY <1>1, Zenon DEF IInv, StopInv, Sealing, InSnapshot, Quiet
<1> QED BY <1>2, <1>3, <1>4, <1>5, <1>6, Zenon DEF IInv

\* The facts the lemmas rest on need no assumption.
LEMMA SettingHolds ==
    Sizes => Setting
\* What the lemmas take for granted of numbers and finite sets is true.
<1>CountingHolds. Counting
  <2>1. ASSUME NEW T \in SUBSET Nat, T # {} PROVE \E x \in T : \A y \in T : x <= y
    <3>1. Below = OpToRel(<, Nat)
      BY DEF Below, OpToRel
    <3>2. \E x \in T : \A y \in T : ~ (<<y, x>> \in OpToRel(<, Nat))
      BY <2>1, NatLessThanWellFounded, WFMin, Zenon
    <3>3. PICK x \in T : \A y \in T : ~ (<<y, x>> \in Below)
      BY <3>1, <3>2, Zenon
    <3>4. ASSUME NEW y \in T PROVE x <= y
      <4>1. x \in Nat /\ y \in Nat /\ ~ (<<y, x>> \in Below)
        BY <3>3, <3>4, Zenon
      <4>2. y < x => <<y, x>> \in Below
        BY <4>1 DEF Below
      <4> QED BY <4>1, <4>2
    <3> QED BY <3>3, <3>4, Zenon
  <2>2. \A d \in Nat : IsFiniteSet(1 .. d)
    BY FS_Interval
  <2>3. \A T : IsFiniteSet(T) => \A S : S \subseteq T => IsFiniteSet(S)
    BY FS_Subset, Zenon
  <2>4. Cardinality({}) = 0
    BY FS_EmptySet, Zenon
  <2>5. \A S : IsFiniteSet(S) => Cardinality(S) \in Nat
    BY FS_CardinalityType, Zenon
  <2>6. \A S, x : IsFiniteSet(S) /\ x \notin S =>
          IsFiniteSet(S \cup {x}) /\ Cardinality(S \cup {x}) = Cardinality(S) + 1
    BY FS_AddElement, Zenon
  <2> QED BY <2>1, <2>2, <2>3, <2>4, <2>5, <2>6, Zenon DEF Counting
<1> SUFFICES ASSUME Sizes
             PROVE  Setting
  BY Zenon
<1> QED BY <1>CountingHolds, Zenon DEF Setting

\* The inductive invariant holds in every reachable state, whatever the sizes.
THEOREM InvariantHolds ==
    ASSUME Sizes
    PROVE  Spec => []IInv
<1>0. Setting
  BY SettingHolds, Zenon
<1>1. Init => IInv
  BY <1>0, InitHolds, Zenon
<1>2. ASSUME IInv, [Next]_vars PROVE IInv'
  BY <1>0, <1>2, ProducerKeeps, ClientKeeps, CursorKeeps, StutterKeeps, Zenon DEF Next
<1> QED BY <1>1, <1>2, PTL DEF Spec

\* drainTo hands the rows of every shard to the sink once, in ring order.
THEOREM HandedOnce ==
    ASSUME Sizes
    PROVE  Spec => []RowsExactlyOnce
<1>1. IInv => RowsExactlyOnce
  BY Zenon DEF IInv, RingInv
<1> QED BY <1>1, InvariantHolds, PTL

\* No row reaches the sink before its source is registered there, although the
\* producer commits the membership row before it lists the source.
THEOREM SourcesComeFirst ==
    ASSUME Sizes
    PROVE  Spec => []RegisteredBeforeRows
<1>1. ASSUME IInv PROVE RegisteredBeforeRows
  <2> SUFFICES ASSUME NEW s \in Shards, NEW i \in DOMAIN sink.rows[s]
               PROVE  sink.rows[s][i].source <= sink.catalog
    BY Zenon DEF RegisteredBeforeRows
  <2>1. TypeInv /\ RingInv
    BY <1>1, Zenon DEF IInv
  <2>2. PICK w, r : w = arena.written[s] /\ r = arena.read[s] /\ w \in Seq(Row) /\ r \in Nat
    BY <2>1, ArenaTypes, Zenon DEF TypeInv
  <2>3. /\ r <= Len(w) /\ sink.rows[s] = SubSeq(w, 1, r)
        /\ \A k \in 1 .. r : w[k].source <= client.sources
        /\ client.sources <= sink.catalog /\ client.sources \in Nat /\ sink.catalog \in Nat
    BY <2>1, <2>2, Zenon DEF RingInv, RowsExactlyOnce, TypeInv, ClientStates, Sinks
  <2>4. /\ DOMAIN SubSeq(w, 1, r) = 1 .. r /\ \A k \in 1 .. r : k \in 1 .. Len(w) /\ SubSeq(w, 1, r)[k] = w[k]
    <3>1. w \in Seq(Row) /\ r \in Nat /\ r <= Len(w)
      BY <2>2, <2>3, Zenon
    <3>2. DOMAIN SubSeq(w, 1, r) = 1 .. r
      BY <3>1
    <3>3. ASSUME NEW k \in 1 .. r PROVE k \in 1 .. Len(w) /\ SubSeq(w, 1, r)[k] = w[k]
      BY <3>1
    <3> QED BY <3>2, <3>3, Zenon
  <2>5. i \in 1 .. r /\ i \in 1 .. Len(w) /\ sink.rows[s][i] = w[i]
    BY <2>3, <2>4, Zenon
  <2>6. w[i].source \in 1 .. DirectoryCapacity /\ w[i].source <= client.sources
    BY <2>2, <2>3, <2>5, RowNumbers, Zenon
  <2>7. w[i].source <= sink.catalog
    BY <2>3, <2>6
  <2> QED BY <2>5, <2>7, Zenon
<1>2. IInv => RegisteredBeforeRows
  BY <1>1, Zenon
<1> QED BY <1>2, InvariantHolds, PTL

\* The writer never refuses a report of publishProgressTo, and a ledger read
\* between two equal readings of the loss epoch adds up to that epoch.
THEOREM ReportsAccepted ==
    ASSUME Sizes
    PROVE  Spec => []SnapshotsConsistent
<1>0. Setting
  BY SettingHolds, Zenon
<1>1. ASSUME IInv PROVE SnapshotsConsistent
  <2>1. ~sink.refused
    BY <1>1, Zenon DEF IInv, SinkInv
  <2>2. ASSUME client.pc = "snapshot", client.snap.phase = "cells", client.at > client.sources, SameCut
        PROVE  Total(client.snap.cells) = client.snap.revision
    BY <1>0, <1>1, <2>2, SnapComplete, Zenon DEF IInv
  <2> QED BY <2>1, <2>2, Zenon DEF SnapshotsConsistent
<1>2. IInv => SnapshotsConsistent
  BY <1>1, Zenon
<1> QED BY <1>2, InvariantHolds, PTL

\* The cursor over the drained shards emits in the order of arrival and shard.
THEOREM CursorMerges ==
    ASSUME Sizes
    PROVE  Spec => []MergedByArrival
<1>1. IInv => MergedByArrival
  BY Zenon DEF IInv, EmitInv
<1> QED BY <1>1, InvariantHolds, PTL

\* After an acknowledged Stop, the final drain and appendFrozenLosses, no lease
\* is held, every committed row is in the sink, and the gaps are all the losses.
THEOREM StopIsComplete ==
    ASSUME Sizes
    PROVE  Spec => []StopAccountsForAll
<1>1. ASSUME IInv, client.pc = "sealed", client.how = "stop", ~client.failed PROVE Accounted
  <2>1. TypeInv /\ RingInv /\ StopInv
    BY <1>1, Zenon DEF IInv
  <2>2. /\ \A s \in Shards : Quiet(s) /\ arena.read[s] = Len(arena.written[s])
        /\ Total(sink.gaps) = arena.lost
    BY <1>1, <2>1, Zenon DEF StopInv, Sealing
  <2>3. ASSUME NEW s \in Shards PROVE sink.rows[s] = arena.written[s]
    <3>1. PICK w : w = arena.written[s] /\ w \in Seq(Row)
      BY <2>1, ArenaTypes, Zenon DEF TypeInv
    <3>2. SubSeq(w, 1, Len(w)) = w
      BY <3>1
    <3> QED BY <2>1, <2>2, <3>1, <3>2, Zenon DEF RingInv, RowsExactlyOnce
  <2> QED BY <2>2, <2>3, Zenon DEF Accounted
<1>2. IInv => StopAccountsForAll
  BY <1>1, Zenon DEF StopAccountsForAll
<1> QED BY <1>2, InvariantHolds, PTL

====
