------------------- MODULE NativeMarketCaptureAccounting -------------------
(***************************************************************************)
(* Every commit of the native capture is accounted for: the second half of *)
(* the proofs about the handoff, from the order, the rows and the types    *)
(* that NativeMarketCaptureProofs establishes.                             *)
(***************************************************************************)
EXTENDS NativeMarketCaptureProofs, FiniteSetTheorems

-----------------------------------------------------------------------------
(* Every commit is in one place. *)

(* The commit whose hook is running, and the one the storage thread has    *)
(* taken from the ring and not yet disposed of.                            *)
Hooked(s) == IF pc \in Hooks /\ committed[Current].source = s THEN 1 ELSE 0
InWork(s) ==
    IF workerPc \in {"taken", "consume"} /\ committed[event.number].source = s
    THEN 1 ELSE 0

Accounted(s) ==
    Cardinality(CommitsOf(s)) =
        Cardinality(RecordedOf(s)) + Cardinality(StrandedOf(s))
          + lostBySource_[s] + health[s].dropped + Hooked(s) + InWork(s)
CountInv == Len(recorded) <= Current /\ \A s \in Source : Accounted(s)

(* What the sinks and the threads count; who counts is not told apart. *)
Counted(s) == lostBySource_[s] + health[s].dropped + Hooked(s) + InWork(s)

LEMMA CountAdded ==
    ASSUME NEW S, NEW x, IsFiniteSet(S), x \notin S
    PROVE  Cardinality(S \cup {x}) = Cardinality(S) + 1
BY FS_AddElement, Zenon

LEMMA CountRemoved ==
    ASSUME NEW S, NEW x \in S, IsFiniteSet(S)
    PROVE  Cardinality(S) = Cardinality(S \ {x}) + 1
<1>1. IsFiniteSet(S \ {x}) /\ x \notin S \ {x} /\ (S \ {x}) \cup {x} = S
  BY FS_RemoveElement, Zenon
<1> QED BY <1>1, CountAdded, Zenon

LEMMA FiniteCounts ==
    ASSUME OrderInv, NEW s
    PROVE  /\ IsFiniteSet(CommitsOf(s)) /\ Cardinality(CommitsOf(s)) \in Nat
           /\ IsFiniteSet(RecordedOf(s)) /\ Cardinality(RecordedOf(s)) \in Nat
           /\ IsFiniteSet(StrandedOf(s)) /\ Cardinality(StrandedOf(s)) \in Nat
<1>1. Current \in Nat /\ Len(recorded) \in Nat
  BY DEF OrderInv, OrderType, Current
<1>2. IsFiniteSet(1 .. Current) /\ IsFiniteSet(1 .. Len(recorded))
      /\ IsFiniteSet(0 .. RingCapacity - 1)
  BY <1>1, RingAssumption, FS_Interval
<1>3. /\ CommitsOf(s) \subseteq 1 .. Current
      /\ RecordedOf(s) \subseteq 1 .. Len(recorded)
      /\ StrandedOf(s) \subseteq 0 .. RingCapacity - 1
  BY Zenon DEF CommitsOf, RecordedOf, StrandedOf, Queued
<1>4. IsFiniteSet(CommitsOf(s)) /\ IsFiniteSet(RecordedOf(s))
      /\ IsFiniteSet(StrandedOf(s))
  BY <1>2, <1>3, FS_Subset, Zenon
<1> QED BY <1>4, FS_CardinalityType, Zenon

LEMMA CountTypes ==
    ASSUME TypeInv, NEW s \in Source
    PROVE  /\ lostBySource_[s] \in Nat /\ health[s] \in Health
           /\ health[s].dropped \in Nat
           /\ Hooked(s) \in {0, 1} /\ InWork(s) \in {0, 1}
<1>1. lostBySource_[s] \in Nat /\ health[s] \in Health
  BY Zenon DEF TypeInv, TypeOK
<1>2. health[s].dropped \in Nat
  BY <1>1, Zenon DEF Health
<1> QED BY <1>1, <1>2, Zenon DEF Hooked, InWork

LEMMA CountInit == Init => CountInv
<1> SUFFICES ASSUME Init PROVE CountInv
  BY Zenon
<1>1. Len(recorded) = 0 /\ Current = 0
  BY Zenon DEF Init, Current
<1>2. ASSUME NEW s \in Source PROVE Accounted(s)
  <2>1. CommitsOf(s) = {} /\ RecordedOf(s) = {} /\ StrandedOf(s) = {}
    BY <1>1, RingAssumption DEF CommitsOf, RecordedOf, StrandedOf, Queued, Position, Init
  <2>2. Cardinality({}) = 0
    BY FS_EmptySet, Zenon
  <2>3. lostBySource_[s] = 0 /\ health[s].dropped = 0
    BY Zenon DEF Init
  <2>4. Hooked(s) = 0 /\ InWork(s) = 0
    BY Zenon DEF Init, Hooked, InWork, Hooks
  <2> QED BY <2>1, <2>2, <2>3, <2>4 DEF Accounted
<1> QED BY <1>1, <1>2 DEF CountInv

(* A step that moves no event into or out of the ring and records nothing  *)
(* may only pass a commit on to another counter.                           *)
LEMMA CountsPassedOn ==
    ASSUME OrderInv, TypeInv, TypeInv', CountInv,
           UNCHANGED <<committed, recorded>>,
           \A s \in Source : StrandedOf(s)' = StrandedOf(s),
           \A s \in Source : Counted(s)' = Counted(s)
    PROVE  CountInv'
<1>1. Len(recorded)' <= Current'
  BY Zenon DEF CountInv, Current
<1>2. ASSUME NEW s \in Source PROVE Accounted(s)'
  <2>1. CommitsOf(s)' = CommitsOf(s) /\ RecordedOf(s)' = RecordedOf(s)
    BY Zenon DEF CommitsOf, RecordedOf, Current
  <2>2. StrandedOf(s)' = StrandedOf(s) /\ Counted(s)' = Counted(s)
    BY Zenon
  <2>3. Cardinality(RecordedOf(s)) \in Nat /\ Cardinality(StrandedOf(s)) \in Nat
    BY FiniteCounts, Zenon
  <2>4. /\ lostBySource_[s] \in Nat /\ health[s].dropped \in Nat
        /\ Hooked(s) \in Nat /\ InWork(s) \in Nat
    BY CountTypes
  <2>5. /\ lostBySource_'[s] \in Nat /\ health'[s].dropped \in Nat
        /\ Hooked(s)' \in Nat /\ InWork(s)' \in Nat
    <3>1. lostBySource_'[s] \in Nat /\ health'[s] \in Health
      BY Zenon DEF TypeInv, TypeOK
    <3>2. health'[s].dropped \in Nat
      BY <3>1, Zenon DEF Health
    <3> QED BY <3>1, <3>2, Zenon DEF Hooked, InWork
  <2>6. Accounted(s)
    BY Zenon DEF CountInv
  <2> QED BY <2>1, <2>2, <2>3, <2>4, <2>5, <2>6 DEF Accounted, Counted
<1> QED BY <1>1, <1>2, Zenon DEF CountInv

LEMMA RingLeft ==
    ASSUME UNCHANGED <<ringVars, committed>>, NEW s
    PROVE  StrandedOf(s)' = StrandedOf(s)
BY Zenon DEF StrandedOf, Queued, Position, ringVars

(* A loss counted by the hook that is running, or by the storage thread    *)
(* for the event it has taken.                                             *)
LEMMA LossCounted ==
    ASSUME TypeInv, NEW c, lost(c), NEW s \in Source
    PROVE  lostBySource_'[s] = lostBySource_[s] + (IF c = s THEN 1 ELSE 0)
BY Zenon DEF lost, TypeInv, TypeOK

LEMMA LosesKeeps ==
    ASSUME OrderInv, TypeInv, TypeInv', CountInv, HookLoses, pc \in Hooks,
           UNCHANGED <<ringVars, workerVars, sinkVars, committed>>
    PROVE  CountInv'
<1> USE DEF workerVars, sinkVars
<1>1. \A s \in Source : StrandedOf(s)' = StrandedOf(s)
  BY RingLeft, Zenon
<1>2. ASSUME NEW s \in Source PROVE Counted(s)' = Counted(s)
  <2>1. lostBySource_'[s] = lostBySource_[s]
                              + (IF committed[Current].source = s THEN 1 ELSE 0)
    BY LossCounted, Zenon DEF HookLoses
  <2>2. Hooked(s)' = 0
        /\ Hooked(s) = IF committed[Current].source = s THEN 1 ELSE 0
    BY Zenon DEF HookLoses, Hooked, Hooks
  <2>3. InWork(s)' = InWork(s) /\ health'[s].dropped = health[s].dropped
    BY Zenon DEF InWork
  <2>4. lostBySource_[s] \in Nat /\ health[s].dropped \in Nat /\ InWork(s) \in Nat
    BY CountTypes
  <2> QED BY <2>1, <2>2, <2>3, <2>4 DEF Counted
<1> QED BY <1>1, <1>2, CountsPassedOn, Zenon

(* The hook's next step. *)
LEMMA HookGoesOn ==
    ASSUME OrderInv, TypeInv, TypeInv', CountInv, pc \in Hooks, pc' \in Hooks,
           UNCHANGED <<flagVars, workerVars, sinkVars, committed>>,
           \A s \in Source : StrandedOf(s)' = StrandedOf(s)
    PROVE  CountInv'
<1> USE DEF flagVars, workerVars, sinkVars
<1>1. ASSUME NEW s \in Source PROVE Counted(s)' = Counted(s)
  <2>1. Hooked(s)' = Hooked(s) /\ InWork(s)' = InWork(s)
    BY Zenon DEF Hooked, InWork, Current
  <2> QED BY <2>1, Zenon DEF Counted
<1> QED BY <1>1, CountsPassedOn, Zenon

(* A new commit is the hook's. *)
LEMMA CommitCounted ==
    ASSUME OrderInv, RowInv, TypeInv, CountInv,
           NEW commit \in Commit, HookCommit(commit)
    PROVE  CountInv'
<1> USE DEF ownerVars, ringVars, flagVars, workerVars, sinkVars
<1> DEFINE n == Current + 1
<1>1. /\ pc = "iterate" /\ pc' \in {"depth", "publish"}
      /\ committed' = Append(committed, commit)
      /\ UNCHANGED <<slots_, head_, tail_, lostBySource_, health, workerPc,
                     event, recorded>>
  BY Zenon DEF HookCommit
<1>2. /\ Current \in Nat /\ Current' = n
      /\ \A i \in 1 .. Current : committed'[i] = committed[i]
      /\ committed'[n] = commit
  BY <1>1, AppendFacts DEF Current, OrderInv, OrderType
<1>3. Len(recorded)' <= Current'
  BY <1>1, <1>2 DEF CountInv, OrderInv, OrderType
<1>4. ASSUME NEW s \in Source PROVE Accounted(s)'
  <2>1. RecordedOf(s)' = RecordedOf(s)
    <3>1. \A i \in 1 .. Len(recorded) : recorded[i] \in 1 .. Current
      BY <1>2 DEF CountInv, OrderInv, OrderType, RecordInv, RecordedIsPrefix
    <3> QED BY <1>1, <1>2, <3>1, Zenon DEF RecordedOf
  <2>2. StrandedOf(s)' = StrandedOf(s)
    <3>1. Queued' = Queued
      BY <1>1, Zenon DEF Queued, Position
    <3>2. \A i \in Queued : slots_[i].number \in 1 .. Current
      BY Zenon DEF RowInv, QueueInv, HoldsRows
    <3> QED BY <1>1, <1>2, <3>1, <3>2, Zenon DEF StrandedOf
  <2>3. InWork(s)' = InWork(s)
    <3>1. workerPc \in {"taken", "consume"} => event.number \in 1 .. Current
      BY Zenon DEF RowInv, QueueInv, HoldsRows, InHand
    <3> QED BY <1>1, <1>2, <3>1, Zenon DEF InWork
  <2>4. Hooked(s) = 0 /\ Hooked(s)' = IF commit.source = s THEN 1 ELSE 0
    BY <1>1, <1>2, Zenon DEF Hooked, Hooks
  <2>5. Cardinality(CommitsOf(s)') = Cardinality(CommitsOf(s))
                                       + (IF commit.source = s THEN 1 ELSE 0)
    <3>1. CommitsOf(s)' = {i \in 1 .. n : committed'[i].source = s}
      BY <1>2, Zenon DEF CommitsOf
    <3>2. 1 .. n = (1 .. Current) \cup {n} /\ n \notin 1 .. Current
      BY <1>2
    <3>3. CASE commit.source = s
      <4>1. CommitsOf(s)' = CommitsOf(s) \cup {n} /\ n \notin CommitsOf(s)
        BY <1>2, <3>1, <3>2, <3>3, Zenon DEF CommitsOf
      <4> QED BY <3>3, <4>1, FiniteCounts, CountAdded, Zenon
    <3>4. CASE commit.source # s
      <4>1. CommitsOf(s)' = CommitsOf(s)
        BY <1>2, <3>1, <3>2, <3>4 DEF CommitsOf
      <4> QED BY <3>4, <4>1, FiniteCounts
    <3> QED BY <3>3, <3>4, Zenon
  <2>6. Accounted(s) /\ lostBySource_'[s] = lostBySource_[s]
        /\ health'[s].dropped = health[s].dropped
    BY <1>1, Zenon DEF CountInv
  <2>7. /\ Cardinality(RecordedOf(s)) \in Nat /\ Cardinality(StrandedOf(s)) \in Nat
        /\ lostBySource_[s] \in Nat /\ health[s].dropped \in Nat
        /\ InWork(s) \in Nat
    BY FiniteCounts, CountTypes
  <2> QED BY <2>1, <2>2, <2>3, <2>4, <2>5, <2>6, <2>7 DEF Accounted
<1> QED BY <1>3, <1>4, Zenon DEF CountInv

(* The slot at the head is the commit's place until it is taken. *)
LEMMA PushCounted ==
    ASSUME OrderInv, TypeInv, CountInv, tryPushHead
    PROVE  CountInv'
<1> USE RingAssumption DEF ownerVars, flagVars, workerVars, sinkVars
<1>1. /\ pc = "pushed" /\ pc' = "iterate" /\ head_' = NextSlot(head_)
      /\ UNCHANGED <<slots_, tail_, lostBySource_, health, workerPc, event,
                     committed, recorded>>
  BY Zenon DEF tryPushHead
<1>2. /\ head_ \in Slots /\ tail_ \in Slots /\ NextSlot(head_) # tail_
      /\ slots_[head_].number = Current
  BY <1>1, Zenon DEF OrderInv, OrderType, RingInv, RingFull
<1>3. Position(head_') = Position(head_) + 1
  BY <1>1, <1>2, NextSlotValue DEF Position, Slots
<1>4. Queued' = Queued \cup {head_} /\ head_ \notin Queued
  <2>1. \A i \in Slots : Position(i)' = Position(i) /\ Position(i) \in Nat
    BY <1>1, <1>2 DEF Position, Slots
  <2>3. Queued' = {i \in Slots : Position(i) < Position(head_) + 1}
    BY <1>1, <1>3, <2>1, Zenon DEF Queued, Slots, Position
  <2>4. \A i \in Slots : Position(i) = Position(head_) => i = head_
    BY <1>2 DEF Position, Slots
  <2>5. Queued = {i \in Slots : Position(i) < Position(head_)}
    BY Zenon DEF Queued, Slots
  <2> QED BY <1>2, <2>1, <2>3, <2>4, <2>5
<1>5. Len(recorded)' <= Current'
  BY <1>1, Zenon DEF CountInv, Current
<1>6. ASSUME NEW s \in Source PROVE Accounted(s)'
  <2>1. /\ CommitsOf(s)' = CommitsOf(s) /\ RecordedOf(s)' = RecordedOf(s)
        /\ InWork(s)' = InWork(s)
    BY <1>1, Zenon DEF CommitsOf, RecordedOf, InWork, Current
  <2>2. /\ Hooked(s) = IF committed[Current].source = s THEN 1 ELSE 0
        /\ Hooked(s)' = 0
    BY <1>1, Zenon DEF Hooked, Hooks
  <2>3. Cardinality(StrandedOf(s)') =
            Cardinality(StrandedOf(s))
              + (IF committed[Current].source = s THEN 1 ELSE 0)
    <3>1. CASE committed[Current].source = s
      <4>1. StrandedOf(s)' = StrandedOf(s) \cup {head_}
            /\ head_ \notin StrandedOf(s)
        BY <1>1, <1>2, <1>4, <3>1 DEF StrandedOf
      <4> QED BY <3>1, <4>1, FiniteCounts, CountAdded, Zenon
    <3>2. CASE committed[Current].source # s
      <4>1. StrandedOf(s)' = StrandedOf(s)
        BY <1>1, <1>2, <1>4, <3>2, Zenon DEF StrandedOf
      <4> QED BY <3>2, <4>1, FiniteCounts
    <3> QED BY <3>1, <3>2, Zenon
  <2>4. Accounted(s) /\ lostBySource_'[s] = lostBySource_[s]
        /\ health'[s].dropped = health[s].dropped
    BY <1>1, Zenon DEF CountInv
  <2>5. /\ Cardinality(RecordedOf(s)) \in Nat /\ Cardinality(StrandedOf(s)) \in Nat
        /\ lostBySource_[s] \in Nat /\ health[s].dropped \in Nat
        /\ InWork(s) \in Nat
    BY FiniteCounts, CountTypes
  <2> QED BY <2>1, <2>2, <2>3, <2>4, <2>5 DEF Accounted
<1> QED BY <1>5, <1>6, Zenon DEF CountInv

LEMMA PopCounted ==
    ASSUME OrderInv, TypeInv, CountInv, tryPopTail
    PROVE  CountInv'
<1> USE DEF ownerVars, flagVars, workerVars, sinkVars
<1>1. /\ workerPc = "popped" /\ workerPc' = "taken" /\ tail_' = NextSlot(tail_)
      /\ UNCHANGED <<pc, slots_, head_, lostBySource_, health, event,
                     committed, recorded>>
  BY Zenon DEF tryPopTail
<1>2. tail_ # head_ /\ event = slots_[tail_] /\ tail_ \in Slots /\ head_ \in Slots
  BY <1>1, Zenon DEF OrderInv, OrderType, RingInv
<1>3. Queued' = Queued \ {tail_}
  BY <1>1, <1>2, TailMoves, Zenon DEF OrderInv
<1>4. tail_ \in Queued
  BY <1>2, RingAssumption DEF Queued, Position, Slots
<1>5. Len(recorded)' <= Current'
  BY <1>1, Zenon DEF CountInv, Current
<1>6. ASSUME NEW s \in Source PROVE Accounted(s)'
  <2>1. /\ CommitsOf(s)' = CommitsOf(s) /\ RecordedOf(s)' = RecordedOf(s)
        /\ Hooked(s)' = Hooked(s)
    BY <1>1, Zenon DEF CommitsOf, RecordedOf, Hooked, Current
  <2>2. /\ InWork(s) = 0
        /\ InWork(s)' = IF committed[event.number].source = s THEN 1 ELSE 0
    BY <1>1, Zenon DEF InWork
  <2>3. Cardinality(StrandedOf(s)) =
            Cardinality(StrandedOf(s)')
              + (IF committed[event.number].source = s THEN 1 ELSE 0)
    <3>1. StrandedOf(s)' = StrandedOf(s) \ {tail_}
      BY <1>1, <1>3, Zenon DEF StrandedOf
    <3>2. CASE committed[event.number].source = s
      <4>1. tail_ \in StrandedOf(s)
        BY <1>2, <1>4, <3>2, Zenon DEF StrandedOf
      <4> QED BY <3>1, <3>2, <4>1, FiniteCounts, CountRemoved
    <3>3. CASE committed[event.number].source # s
      <4>1. tail_ \notin StrandedOf(s)
        BY <1>2, <3>3, Zenon DEF StrandedOf
      <4>2. StrandedOf(s)' = StrandedOf(s)
        BY <3>1, <4>1, Zenon
      <4> QED BY <3>3, <4>2, FiniteCounts
    <3> QED BY <3>2, <3>3, Zenon
  <2>4. Accounted(s) /\ lostBySource_'[s] = lostBySource_[s]
        /\ health'[s].dropped = health[s].dropped
    BY <1>1, Zenon DEF CountInv
  <2>5. IsFiniteSet(StrandedOf(s)') /\ Cardinality(StrandedOf(s)') \in Nat
    <3>1. StrandedOf(s)' = StrandedOf(s) \ {tail_}
      BY <1>1, <1>3, Zenon DEF StrandedOf
    <3>2. IsFiniteSet(StrandedOf(s)')
      BY <3>1, FiniteCounts, FS_Subset, Zenon
    <3> QED BY <3>2, FS_CardinalityType
  <2>6. /\ Cardinality(RecordedOf(s)) \in Nat
        /\ lostBySource_[s] \in Nat /\ health[s].dropped \in Nat
        /\ Hooked(s) \in Nat
    BY FiniteCounts, CountTypes
  <2> QED BY <2>1, <2>2, <2>3, <2>4, <2>5, <2>6 DEF Accounted
<1> QED BY <1>5, <1>6, Zenon DEF CountInv

LEMMA NotesDropped ==
    ASSUME NEW h \in Health
    PROVE  /\ TerminalNoted(h).dropped = h.dropped
           /\ ErrorNoted(h).dropped = h.dropped
           /\ RowNoted(h).dropped = h.dropped
           /\ DropNoted(h).dropped = h.dropped + 1
           /\ \A c, r : ConnectionNoted(h, c, r).dropped = h.dropped
           /\ \A n \in Nat : LossNoted(h, n).dropped = h.dropped + n
BY Zenon DEF Health, TerminalNoted, ErrorNoted, RowNoted, DropNoted, ConnectionNoted,
       LossNoted

(* A step that counts nothing and hands nothing over. *)
LEMMA NothingCounted ==
    ASSUME OrderInv, TypeInv, TypeInv', CountInv,
           UNCHANGED <<committed, recorded, slots_, head_, tail_, lostBySource_>>,
           \/ pc' = pc
           \/ pc \notin Hooks /\ pc' \notin Hooks,
           \/ UNCHANGED <<workerPc, event>>
           \/ workerPc = "taken" /\ workerPc' = "consume" /\ UNCHANGED event
           \/ workerPc \notin {"taken", "consume"} /\ workerPc' \notin {"taken", "consume"},
           \A s \in Source : health'[s].dropped = health[s].dropped
    PROVE  CountInv'
<1>1. ASSUME NEW s \in Source PROVE StrandedOf(s)' = StrandedOf(s)
  BY RingLeft, Zenon DEF ringVars
<1>2. ASSUME NEW s \in Source PROVE Counted(s)' = Counted(s)
  <2>1. Hooked(s)' = Hooked(s)
    BY Zenon DEF Hooked, Current
  <2>2. InWork(s)' = InWork(s)
    BY Zenon DEF InWork
  <2> QED BY <2>1, <2>2, Zenon DEF Counted
<1> QED BY <1>1, <1>2, CountsPassedOn, Zenon

LEMMA PollCounts ==
    ASSUME OrderInv, TypeInv, TypeInv', CountInv,
           PollBegin \/ \E ready \in BOOLEAN, connected \in [Source -> BOOLEAN] :
                            PollEnd(ready, connected)
    PROVE  CountInv'
<1> USE DEF ownerVars, ringVars, flagVars, workerVars
<1>1. UNCHANGED <<committed, recorded, slots_, head_, tail_, lostBySource_,
                  workerPc, event>>
      /\ pc \notin Hooks /\ pc' \notin Hooks
  BY Zenon DEF PollBegin, PollEnd, Hooks
<1>2. ASSUME NEW s \in Source PROVE health'[s].dropped = health[s].dropped
  <2>1. health[s] \in Health
    BY Zenon DEF TypeInv, TypeOK
  <2>2. CASE CaptureTerminal
    BY <2>1, <2>2, NotesDropped, Zenon DEF CaptureTerminal
  <2>3. ASSUME NEW connected \in [Source -> BOOLEAN], sampleConnections(connected)
        PROVE  health'[s].dropped = health[s].dropped
    <3>1. \/ health'[s] = health[s]
          \/ \E c, r : health'[s] = ConnectionNoted(health[s], c, r)
      BY <2>3, Zenon DEF sampleConnections
    <3> QED BY <2>1, <3>1, NotesDropped
  <2>4. CASE UNCHANGED health
    BY <2>4, Zenon
  <2> QED BY <2>2, <2>3, <2>4, Zenon DEF PollBegin, PollEnd
<1> QED BY <1>1, <1>2, NothingCounted, Zenon

LEMMA HookCounts ==
    ASSUME OrderInv, RowInv, TypeInv, TypeInv', CountInv, Hook
    PROVE  CountInv'
<1> USE DEF Hooks
<1>1. CASE \E commit \in Commit : HookCommit(commit)
  BY <1>1, CommitCounted, Zenon
<1>2. CASE onDepthCheck
  <2>1. pc \in Hooks
        /\ UNCHANGED <<ringVars, workerVars, sinkVars, committed>>
        /\ (HookLoses \/ (pc' \in Hooks /\ UNCHANGED flagVars))
    BY <1>2, Zenon DEF onDepthCheck
  <2>2. \A s \in Source : StrandedOf(s)' = StrandedOf(s)
    BY <2>1, RingLeft
  <2> QED BY <2>1, <2>2, LosesKeeps, HookGoesOn, Zenon
<1>3. CASE onDepthReserve
  <2>1. pc \in Hooks
        /\ UNCHANGED <<ringVars, workerVars, sinkVars, committed>>
        /\ (HookLoses \/ (pc' \in Hooks /\ UNCHANGED flagVars))
    BY <1>3, Zenon DEF onDepthReserve
  <2>2. \A s \in Source : StrandedOf(s)' = StrandedOf(s)
    BY <2>1, RingLeft, Zenon
  <2> QED BY <2>1, <2>2, LosesKeeps, HookGoesOn, Zenon
<1>4. CASE onDepthCopy
  <2>1. pc \in Hooks /\ pc' \in Hooks
        /\ UNCHANGED <<ringVars, workerVars, sinkVars, committed, flagVars>>
    BY <1>4, Zenon DEF onDepthCopy
  <2>2. \A s \in Source : StrandedOf(s)' = StrandedOf(s)
    BY <2>1, RingLeft
  <2> QED BY <2>1, <2>2, HookGoesOn, Zenon
<1>5. CASE publish
  <2>1. pc \in Hooks
        /\ UNCHANGED <<ringVars, workerVars, sinkVars, committed>>
        /\ (HookLoses \/ (pc' \in Hooks /\ UNCHANGED flagVars))
    BY <1>5 DEF publish
  <2>2. \A s \in Source : StrandedOf(s)' = StrandedOf(s)
    BY <2>1, RingLeft, Zenon
  <2> QED BY <2>1, <2>2, LosesKeeps, HookGoesOn, Zenon
<1>6. CASE tryPush
  <2>1. pc \in Hooks
        /\ UNCHANGED <<head_, tail_, workerVars, sinkVars, committed>>
        /\ \/ HookLoses /\ UNCHANGED slots_
           \/ /\ pc' \in Hooks /\ UNCHANGED flagVars
              /\ \E e : slots_' = [slots_ EXCEPT ![head_] = e]
    BY <1>6, Zenon DEF tryPush
  <2>2. CASE HookLoses /\ UNCHANGED slots_
    BY <2>1, <2>2, LosesKeeps, Zenon DEF ringVars
  <2>3. CASE pc' \in Hooks /\ UNCHANGED flagVars
             /\ \E e : slots_' = [slots_ EXCEPT ![head_] = e]
    <3>1. Queued' = Queued /\ head_ \notin Queued
      BY <2>1, RingAssumption DEF Queued, Position, OrderInv, OrderType, Slots
    <3>2. \A i \in Queued : slots_'[i] = slots_[i]
      BY <2>3, <3>1, Zenon DEF Queued, OrderInv, OrderType, Slots
    <3>3. \A s \in Source : StrandedOf(s)' = StrandedOf(s)
      BY <2>1, <3>1, <3>2, Zenon DEF StrandedOf
    <3> QED BY <2>1, <2>3, <3>3, HookGoesOn
  <2> QED BY <2>1, <2>2, <2>3, Zenon
<1>7. CASE tryPushHead
  BY <1>7, PushCounted, Zenon
<1> QED BY <1>1, <1>2, <1>3, <1>4, <1>5, <1>6, <1>7 DEF Hook

LEMMA FinalizeCounts ==
    ASSUME OrderInv, TypeInv, TypeInv', CountInv, Finalize
    PROVE  CountInv'
<1> USE DEF ownerVars, ringVars, flagVars, workerVars, sinkVars
<1>1. CASE shutdown
  BY <1>1, NothingCounted, Zenon DEF shutdown, Hooks
<1>2. CASE shutdownJoined
  <2>1. UNCHANGED <<committed, recorded, ringVars, workerPc, event>>
        /\ pc \notin Hooks /\ pc' \notin Hooks
    BY <1>2, Zenon DEF shutdownJoined, Hooks
  <2>2. ASSUME NEW s \in Source PROVE Counted(s)' = Counted(s)
    <3>1. health[s] \in Health /\ lostBySource_[s] \in Nat
          /\ health[s].dropped \in Nat /\ InWork(s) \in {0, 1}
      BY CountTypes, Zenon
    <3>2. lostBySource_'[s] = 0
          /\ health'[s] = IF lostBySource_[s] = 0 THEN health[s]
                          ELSE LossNoted(health[s], lostBySource_[s])
      BY <1>2, Zenon DEF shutdownJoined, LossesReported
    <3>3. health'[s].dropped = health[s].dropped + lostBySource_[s]
      BY <3>1, <3>2, NotesDropped
    <3>4. Hooked(s)' = 0 /\ Hooked(s) = 0 /\ InWork(s)' = InWork(s)
      BY <2>1, Zenon DEF Hooked, InWork
    <3> QED BY <3>1, <3>2, <3>3, <3>4 DEF Counted
  <2>3. \A s \in Source : StrandedOf(s)' = StrandedOf(s)
    BY <2>1, RingLeft, Zenon
  <2> QED BY <2>1, <2>2, <2>3, CountsPassedOn
<1>3. ASSUME NEW k \in Sink, NEW eligible, NEW outcome,
             finalizeSession(k, eligible, outcome)
      PROVE  CountInv'
  BY <1>3, NothingCounted, Zenon DEF finalizeSession, Hooks
<1> QED BY <1>1, <1>2, <1>3, Zenon DEF Finalize

(* A loss noticed by the storage thread. *)
LEMMA TakenIsLost ==
    ASSUME OrderInv, TypeInv, TypeInv', CountInv,
           workerPc \in {"taken", "consume"},
           workerPc' \notin {"taken", "consume"},
           lost(committed[event.number].source),
           UNCHANGED <<pc, ringVars, health, recorded, committed>>
    PROVE  CountInv'
<1>1. ASSUME NEW s \in Source PROVE Counted(s)' = Counted(s)
  <2>1. lostBySource_'[s] = lostBySource_[s]
          + (IF committed[event.number].source = s THEN 1 ELSE 0)
    BY LossCounted, Zenon
  <2>2. InWork(s)' = 0
        /\ InWork(s) = IF committed[event.number].source = s THEN 1 ELSE 0
    BY Zenon DEF InWork
  <2>3. Hooked(s)' = Hooked(s)
    BY Zenon DEF Hooked, Current
  <2>4. lostBySource_[s] \in Nat /\ health[s].dropped \in Nat
        /\ Hooked(s) \in {0, 1}
    BY CountTypes, Zenon
  <2> QED BY <2>1, <2>2, <2>3, <2>4 DEF Counted
<1>2. \A s \in Source : StrandedOf(s)' = StrandedOf(s)
  BY RingLeft, Zenon
<1> QED BY <1>1, <1>2, CountsPassedOn, Zenon

LEMMA AppendCounted ==
    ASSUME OrderInv, RowInv, TypeInv, CountInv, workerPc = "consume",
           workerPc' = "release",
           recorded' = Append(recorded, event.number),
           \A s \in Source : health'[s].dropped = health[s].dropped,
           UNCHANGED <<pc, ringVars, lostBySource_, committed>>
    PROVE  CountInv'
<1> DEFINE n == event.number
<1>1. /\ n \in 1 .. Current /\ Len(recorded) = n - 1 /\ Current \in Nat
      /\ \A i \in 1 .. Len(recorded) : recorded[i] = i
      /\ recorded \in Seq(Nat)
  BY DEF RowInv, QueueInv, HoldsRows, InHand, OrderInv, OrderType, RecordInv,
         RecordedIsPrefix, Current
<1>2. /\ Len(recorded') = n /\ recorded'[n] = n
      /\ \A i \in 1 .. n - 1 : recorded'[i] = recorded[i]
  BY <1>1, AppendFacts
<1>3. Len(recorded)' <= Current'
  BY <1>1, <1>2 DEF Current
<1>4. ASSUME NEW s \in Source PROVE Accounted(s)'
  <2>1. /\ CommitsOf(s)' = CommitsOf(s) /\ Hooked(s)' = Hooked(s)
        /\ StrandedOf(s)' = StrandedOf(s)
    BY RingLeft, Zenon DEF CommitsOf, Hooked, Current
  <2>2. InWork(s)' = 0
        /\ InWork(s) = IF committed[n].source = s THEN 1 ELSE 0
    BY DEF InWork
  <2>3. Cardinality(RecordedOf(s)') =
            Cardinality(RecordedOf(s)) + (IF committed[n].source = s THEN 1 ELSE 0)
    <3>1. 1 .. n = (1 .. n - 1) \cup {n} /\ n \notin 1 .. n - 1
      BY <1>1
    <3>2. /\ RecordedOf(s) = {i \in 1 .. n - 1 : committed[recorded[i]].source = s}
          /\ RecordedOf(s)' = {i \in 1 .. n : committed[recorded'[i]].source = s}
      BY <1>1, <1>2, Zenon DEF RecordedOf
    <3>3. CASE committed[n].source = s
      <4>1. RecordedOf(s)' = RecordedOf(s) \cup {n} /\ n \notin RecordedOf(s)
        BY <1>2, <3>1, <3>2, <3>3
      <4> QED BY <3>3, <4>1, FiniteCounts, CountAdded, Zenon
    <3>4. CASE committed[n].source # s
      <4>1. RecordedOf(s)' = RecordedOf(s)
        BY <1>2, <3>1, <3>2, <3>4
      <4> QED BY <3>4, <4>1, FiniteCounts
    <3> QED BY <3>3, <3>4, Zenon
  <2>4. Accounted(s) /\ lostBySource_'[s] = lostBySource_[s]
        /\ health'[s].dropped = health[s].dropped
    BY Zenon DEF CountInv
  <2>5. /\ Cardinality(RecordedOf(s)) \in Nat /\ Cardinality(StrandedOf(s)) \in Nat
        /\ lostBySource_[s] \in Nat /\ health[s].dropped \in Nat
        /\ Hooked(s) \in Nat
    BY FiniteCounts, CountTypes
  <2> QED BY <2>1, <2>2, <2>3, <2>4, <2>5 DEF Accounted
<1> QED BY <1>3, <1>4, Zenon DEF CountInv

LEMMA ConsumeCounts ==
    ASSUME OrderInv, RowInv, TypeInv, TypeInv', CountInv, NEW ok, consume(ok)
    PROVE  CountInv'
<1> USE DEF ownerVars, ringVars, flagVars, workerVars, sinkVars
<1> DEFINE c == committed[event.number]
<1>1. workerPc = "consume" /\ UNCHANGED <<pc, ringVars, event, committed>>
  BY Zenon DEF consume
<1>2. \A s \in Source : health[s] \in Health
  BY Zenon DEF TypeInv, TypeOK
<1>3. health = [s \in Source |-> health[s]]
  BY Zenon DEF TypeInv, TypeOK
<1>4. CASE /\ c.source = Foreign /\ workerPc' = "release"
           /\ UNCHANGED <<lostBySource_, health, recorded>>
  <2>1. ASSUME NEW s \in Source PROVE Counted(s)' = Counted(s)
    <3>1. c.source # s
      BY <1>4, SourceAssumption, Zenon
    <3>2. InWork(s) = 0 /\ InWork(s)' = 0 /\ Hooked(s)' = Hooked(s)
      BY <1>1, <1>4, <3>1 DEF InWork, Hooked, Current
    <3> QED BY <1>4, <3>2, Zenon DEF Counted
  <2>2. \A s \in Source : StrandedOf(s)' = StrandedOf(s)
    BY <1>1, RingLeft, Zenon
  <2> QED BY <1>1, <1>4, <2>1, <2>2, CountsPassedOn
<1>5. CASE lost(c.source) /\ workerPc' = "note" /\ UNCHANGED <<health, recorded>>
  BY <1>1, <1>5, TakenIsLost, Zenon
<1>6. CASE /\ health' = [health EXCEPT ![c.source] = RowNoted(health[c.source])]
           /\ recorded' = Append(recorded, event.number)
           /\ workerPc' = "release" /\ UNCHANGED flagVars
  <2>1. \A s \in Source : health'[s].dropped = health[s].dropped
    BY <1>2, <1>3, <1>6, NotesDropped
  <2> QED BY <1>1, <1>6, <2>1, AppendCounted
<1>7. CASE /\ health' = [health EXCEPT ![c.source] = DropNoted(health[c.source])]
           /\ workerPc' = "account" /\ UNCHANGED <<flagVars, recorded>>
  <2>1. ASSUME NEW s \in Source PROVE Counted(s)' = Counted(s)
    <3>1. health'[s].dropped = health[s].dropped + (IF c.source = s THEN 1 ELSE 0)
      <4>1. CASE c.source = s
        BY <1>2, <1>3, <1>7, <4>1, NotesDropped
      <4>2. CASE c.source # s
        <5>1. health'[s] = health[s]
          BY <1>3, <1>7, <4>2
        <5> QED BY <4>2, <5>1, CountTypes
      <4> QED BY <4>1, <4>2, Zenon
    <3>2. InWork(s)' = 0 /\ InWork(s) = (IF c.source = s THEN 1 ELSE 0)
          /\ Hooked(s)' = Hooked(s) /\ lostBySource_'[s] = lostBySource_[s]
      BY <1>1, <1>7, Zenon DEF InWork, Hooked, Current
    <3>3. lostBySource_[s] \in Nat /\ health[s].dropped \in Nat
          /\ Hooked(s) \in {0, 1}
      BY CountTypes
    <3> QED BY <3>1, <3>2, <3>3 DEF Counted
  <2>2. \A s \in Source : StrandedOf(s)' = StrandedOf(s)
    BY <1>1, RingLeft, Zenon
  <2> QED BY <1>1, <1>7, <2>1, <2>2, CountsPassedOn
<1> QED BY <1>4, <1>5, <1>6, <1>7, Zenon DEF consume

LEMMA DrainCounts ==
    ASSUME OrderInv, RowInv, TypeInv, TypeInv', CountInv, Drain
    PROVE  CountInv'
<1> USE DEF ownerVars, ringVars, flagVars, workerVars, sinkVars
<1>1. CASE tryPop \/ drainWorkerStop \/ account \/ drainWorkerRelease
  <2>1. /\ UNCHANGED <<committed, recorded, slots_, head_, tail_, lostBySource_,
                       pc, health>>
        /\ workerPc \notin {"taken", "consume"}
        /\ workerPc' \notin {"taken", "consume"}
    BY <1>1 DEF tryPop, drainWorkerStop, account, drainWorkerRelease
  <2> QED BY <2>1, NothingCounted, Zenon
<1>2. CASE tryPopTail
  BY <1>2, PopCounted, Zenon
<1>3. CASE drainWorkerCheck
  <2>1. CASE failed_
    BY <1>3, <2>1, TakenIsLost, Zenon DEF drainWorkerCheck
  <2>2. CASE ~failed_
    BY <1>3, <2>2, NothingCounted DEF drainWorkerCheck
  <2> QED BY <2>1, <2>2, Zenon
<1>4. CASE \E ok \in BOOLEAN : consume(ok)
  BY <1>4, ConsumeCounts
<1>5. CASE noteExternalChannelError
  <2>1. /\ UNCHANGED <<committed, recorded, slots_, head_, tail_, lostBySource_, pc>>
        /\ workerPc \notin {"taken", "consume"}
        /\ workerPc' \notin {"taken", "consume"}
    BY <1>5, Zenon DEF noteExternalChannelError
  <2>2. ASSUME NEW s \in Source PROVE health'[s].dropped = health[s].dropped
    <3>1. health[s] \in Health /\ health = [t \in Source |-> health[t]]
      BY Zenon DEF TypeInv, TypeOK
    <3>2. health'[s] = health[s] \/ health'[s] = ErrorNoted(health[s])
      BY <1>5, <3>1, Zenon DEF noteExternalChannelError
    <3> QED BY <3>1, <3>2, NotesDropped
  <2> QED BY <2>1, <2>2, NothingCounted
<1> QED BY <1>1, <1>2, <1>3, <1>4, <1>5 DEF Drain

LEMMA CountStep ==
    OrderInv /\ RowInv /\ TypeInv /\ PhaseInv /\ CountInv /\ [Next]_vars
      => CountInv'
<1> SUFFICES ASSUME OrderInv, RowInv, TypeInv, PhaseInv, CountInv, [Next]_vars
             PROVE  CountInv'
  BY Zenon
<1> USE DEF ownerVars, ringVars, arenaVars, flagVars, workerVars, sinkVars
<1>1. TypeInv'
  BY TypeStep, Zenon
<1>2. CASE Poll
  BY <1>1, <1>2, PollCounts, HookCounts DEF Poll
<1>3. CASE Finalize
  BY <1>1, <1>3, FinalizeCounts
<1>4. CASE Drain
  BY <1>1, <1>4, DrainCounts
<1>5. ASSUME NEW refreshed, refreshManifests(refreshed) PROVE CountInv'
  BY <1>1, <1>5, NothingCounted DEF refreshManifests
<1>6. CASE UNCHANGED vars
  BY <1>1, <1>6, NothingCounted DEF vars
<1> QED BY <1>2, <1>3, <1>4, <1>5, <1>6 DEF Next

(* A manifest offers exact replay only after the losses were reported, and *)
(* none was.                                                               *)
ExactInv ==
    \A k \in Sink : manifest[k].exactReplayEligible =>
        ~terminal /\ \A s \in ChannelsOf(k) : health[s].dropped = 0

LEMMA ExactStep ==
    TypeInv /\ PhaseInv /\ ExactInv /\ [Next]_vars => ExactInv'
<1> SUFFICES ASSUME TypeInv, PhaseInv, ExactInv, [Next]_vars PROVE ExactInv'
  BY Zenon
<1> USE DEF ownerVars, ringVars, arenaVars, flagVars, workerVars, sinkVars
<1>1. PhaseInv'
  BY PhaseStep, Zenon
<1>2. CASE ~Ended'
  BY <1>1, <1>2 DEF PhaseInv, ExactInv
<1>3. CASE Ended'
  <2>1. CASE Poll
    BY <1>3, <2>1, Zenon DEF Poll, PollBegin, PollEnd, Hook, HookCommit, onDepthCheck,
                      onDepthReserve, onDepthCopy, publish, tryPush, tryPushHead,
                      HookLoses, Ended
  <2>2. CASE shutdown
    BY <1>3, <2>2, Zenon DEF shutdown, Ended
  <2>3. CASE shutdownJoined
    BY <2>3, Zenon DEF shutdownJoined, PhaseInv, Ended, ExactInv
  <2>4. ASSUME NEW k \in Sink, NEW eligible \in BOOLEAN, NEW outcome,
               outcome \in {"written", "seeded", "unwritten"},
               finalizeSession(k, eligible, outcome)
        PROVE  ExactInv'
    <3>1. UNCHANGED <<terminal, health>> /\ sessionStatus[k] # "closed"
      BY <2>4, Zenon DEF finalizeSession
    <3>2. ASSUME NEW j \in Sink, manifest'[j].exactReplayEligible
          PROVE  ~terminal /\ \A s \in ChannelsOf(j) : health[s].dropped = 0
      <4>1. manifest = [i \in Sink |-> manifest[i]]
        BY Zenon DEF TypeInv, TypeOK
      <4>2. CASE manifest'[j] = manifest[j]
        BY <3>2, <4>2, Zenon DEF ExactInv
      <4>3. CASE manifest'[j] # manifest[j]
        <5>1. j = k /\ manifest'[k] = FinalManifest(k, eligible)
          BY <2>4, <3>2, <4>1, <4>3 DEF finalizeSession, OpenManifest
        <5>2. /\ sessionStatus[k] # "incomplete"
              /\ \A s \in ChannelsOf(k) : ~runtimeHealthDegraded(health[s])
          <6> DEFINE e == FinalManifest(k, eligible).exactReplayEligible
          <6>1. e <=> /\ eligible /\ sessionStatus[k] # "incomplete"
                      /\ ~\A s \in ChannelsOf(k) : health[s].rows = 0
                      /\ ~\E s \in ChannelsOf(k) : runtimeHealthDegraded(health[s])
            BY Zenon DEF FinalManifest
          <6>2. e
            BY <3>2, <5>1, Zenon
          <6> QED BY <6>1, <6>2, Zenon
        <5> QED BY <3>1, <5>1, <5>2 DEF PhaseInv, runtimeHealthDegraded
      <4> QED BY <4>2, <4>3, Zenon
    <3> QED BY <3>1, <3>2, Zenon DEF ExactInv, ChannelsOf
  <2>5. CASE Drain
    <3>1. workerPc # "exited" /\ UNCHANGED pc
      BY <2>5, Zenon DEF Drain, tryPop, tryPopTail, drainWorkerStop, drainWorkerCheck,
                  consume, account, noteExternalChannelError, drainWorkerRelease
    <3> QED BY <1>3, <3>1, Zenon DEF PhaseInv, Ended
  <2>6. ASSUME NEW refreshed, refreshManifests(refreshed) PROVE ExactInv'
    BY <1>3, <2>6, Zenon DEF refreshManifests, PhaseInv, Ended
  <2>7. CASE UNCHANGED vars
    BY <2>7, Zenon DEF vars, ExactInv
  <2> QED BY <2>1, <2>2, <2>3, <2>4, <2>5, <2>6, <2>7 DEF Next, Finalize
<1> QED BY <1>2, <1>3, Zenon

AccountInv == OrderInv /\ RowInv /\ TypeInv /\ PhaseInv /\ CountInv /\ ExactInv

LEMMA AccountInvariant == Spec => []AccountInv
<1>1. Init => AccountInv
  <2>1. Init => ExactInv
    BY DEF Init, ExactInv
  <2> QED BY <2>1, OrderInit, RowInit, TypeInit, PhaseInit, CountInit
          DEF AccountInv
<1>2. AccountInv /\ [Next]_vars => AccountInv'
  BY OrderStep, RowStep, TypeStep, PhaseStep, CountStep, ExactStep, Zenon
     DEF AccountInv
<1> QED BY <1>1, <1>2, PTL DEF Spec

(* When finalize() writes the manifests, every commit of a source is in    *)
(* its sink's file, in the drops its sink reports, or was left in the      *)
(* ring, whichever thread gave it up and however the two were interleaved. *)
THEOREM CommitsAccounted == Spec => []EveryCommitAccounted
<1>1. AccountInv => EveryCommitAccounted
  <2> SUFFICES ASSUME AccountInv, pc \in {"finalize", "done"}, NEW s \in Source
               PROVE  Cardinality(CommitsOf(s)) = Cardinality(RecordedOf(s))
                          + health[s].dropped + Cardinality(StrandedOf(s))
    BY Zenon DEF EveryCommitAccounted
  <2>1. Accounted(s)
    BY Zenon DEF AccountInv, CountInv
  <2>2. lostBySource_[s] = 0 /\ Hooked(s) = 0 /\ InWork(s) = 0
    BY Zenon DEF AccountInv, PhaseInv, Ended, Hooked, InWork, Hooks
  <2>3. Cardinality(RecordedOf(s)) \in Nat /\ Cardinality(StrandedOf(s)) \in Nat
        /\ health[s].dropped \in Nat
    BY FiniteCounts, CountTypes, Zenon DEF AccountInv
  <2> QED BY <2>1, <2>2, <2>3 DEF Accounted
<1> QED BY <1>1, AccountInvariant, PTL

(* A manifest that offers exact replay belongs to a capture that ended on  *)
(* request, and its sink holds every commit of its sources that left the   *)
(* ring.                                                                   *)
THEOREM ExactIsRecorded == Spec => []ExactMeansRecorded
<1>1. AccountInv /\ EveryCommitAccounted => ExactMeansRecorded
  <2> SUFFICES ASSUME AccountInv, EveryCommitAccounted, NEW k \in Sink,
                      manifest[k].exactReplayEligible
               PROVE  /\ ~terminal
                      /\ \A s \in ChannelsOf(k) : Cardinality(CommitsOf(s)) =
                             Cardinality(RecordedOf(s)) + Cardinality(StrandedOf(s))
    BY Zenon DEF ExactMeansRecorded
  <2>1. ~terminal /\ \A s \in ChannelsOf(k) : health[s].dropped = 0
    BY Zenon DEF AccountInv, ExactInv
  <2>2. pc \in {"finalize", "done"}
    BY Zenon DEF AccountInv, PhaseInv, Ended
  <2>3. ASSUME NEW s \in ChannelsOf(k)
        PROVE  Cardinality(CommitsOf(s)) =
                   Cardinality(RecordedOf(s)) + Cardinality(StrandedOf(s))
    <3>1. s \in Source /\ health[s].dropped = 0
      BY <2>1, Zenon DEF ChannelsOf
    <3>2. Cardinality(RecordedOf(s)) \in Nat /\ Cardinality(StrandedOf(s)) \in Nat
      BY FiniteCounts, Zenon DEF AccountInv
    <3>3. Cardinality(CommitsOf(s)) = Cardinality(RecordedOf(s))
                + health[s].dropped + Cardinality(StrandedOf(s))
      BY <2>2, <3>1, Zenon DEF EveryCommitAccounted
    <3> QED BY <3>1, <3>2, <3>3
  <2> QED BY <2>1, <2>3, Zenon
<1> QED BY <1>1, AccountInvariant, CommitsAccounted, PTL

=============================================================================
