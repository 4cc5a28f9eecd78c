---------------------- MODULE NativeMarketCaptureProofs ----------------------
(***************************************************************************)
(* The handoff of the native capture keeps order and rows for every size   *)
(* of the ring and of the arena, every level count and every interleaving  *)
(* of the market thread with the storage thread.                           *)
(***************************************************************************)
EXTENDS NativeMarketCapture, TLAPS

(* What the log of commits and the log of rows are after one more.         *)
LEMMA AppendFacts ==
    ASSUME NEW S, NEW seq \in Seq(S), NEW elt \in S
    PROVE  /\ Append(seq, elt) \in Seq(S) /\ Append(seq, elt) # <<>>
           /\ Len(Append(seq, elt)) = Len(seq) + 1
           /\ \A i \in 1 .. Len(seq) : Append(seq, elt)[i] = seq[i]
           /\ Append(seq, elt)[Len(seq) + 1] = elt
OBVIOUS

LEMMA EmptyLog == ASSUME NEW S PROVE <<>> \in Seq(S) /\ Len(<<>>) = 0
OBVIOUS

Hooks == {"depth", "reserve", "copy", "publish", "push", "pushed"}
Slots == 0 .. RingCapacity - 1
InHand == workerPc \in {"taken", "consume", "account", "note", "release"}

(* The types that order depends on. *)
OrderType ==
    /\ pc \in {"poll", "iterate", "join", "finalize", "done"} \cup Hooks
    /\ workerPc \in {"poll", "empty", "popped", "taken", "consume", "account",
                     "note", "release", "exited"}
    /\ head_ \in Slots /\ tail_ \in Slots
    /\ slots_ = [i \in Slots |-> slots_[i]]
    /\ \A i \in Slots : slots_[i].number \in Nat
    /\ event.number \in Nat
    /\ failed_ \in BOOLEAN
    /\ committed \in Seq(Commit) /\ recorded \in Seq(Nat)

(* The events that have left the ring, and those that have entered it. *)
Taken == IF workerPc = "popped" THEN event.number - 1 ELSE event.number
Pushed == Taken + Position(head_)

(* Commits enter the ring in order and without a gap until the capture     *)
(* fails; the slots hold them in order.                                    *)
RingInv ==
    /\ ~failed_ => Pushed = IF pc \in Hooks THEN Current - 1 ELSE Current
    /\ pc \in {"push", "pushed"} => Pushed = Current - 1
    /\ pc = "pushed" => ~RingFull /\ slots_[head_].number = Current
    /\ workerPc = "popped" => tail_ # head_ /\ event = slots_[tail_]
    /\ \A i \in Queued : slots_[i].number = Taken + Position(i) + 1

(* What the sinks hold when the storage thread may still add to it. *)
RecordInv ==
    /\ RecordedIsPrefix
    /\ workerPc = "consume" => Len(recorded) = event.number - 1
    /\ ~failed_ /\ workerPc \in {"popped", "taken"} =>
           Len(recorded) = event.number - 1
    /\ ~failed_ /\ workerPc \in {"poll", "empty", "release", "exited"} =>
           Len(recorded) = event.number
    /\ workerPc = "note" => failed_

OrderInv == OrderType /\ RingInv /\ RecordInv

(* An event points to rows between the arena's cursors, that do not wrap   *)
(* and hold its frame.                                                     *)
HoldsRows(e) ==
    /\ e.number \in 1 .. Current
    /\ rowTail_ <= e.first /\ e.first <= e.rowEnd /\ e.rowEnd <= rowHead_
    /\ IsDepth(e.number) =>
           /\ e.rowEnd = e.first + committed[e.number].levels
           /\ Place(e.first) + committed[e.number].levels <= RowCapacity
           /\ \A i \in 0 .. committed[e.number].levels - 1 :
                  rows_[Place(e.first) + i] = e.number

ArenaType ==
    /\ reserved \in Nat /\ rowHead_ \in Nat /\ rowTail_ \in Nat
    /\ rows_ = [i \in 0 .. RowCapacity - 1 |-> rows_[i]]
    /\ \A i \in Slots : slots_[i].first \in Nat /\ slots_[i].rowEnd \in Nat
    /\ event.first \in Nat /\ event.rowEnd \in Nat
    /\ rowTail_ <= rowHead_ /\ rowHead_ <= rowTail_ + RowCapacity

(* The rows of the commit whose hook is running. *)
HookInv ==
    /\ pc \in Hooks => Current \in Nat \ {0}
    /\ pc \in Hooks => rowTail_ <= reserved
    /\ pc \in {"depth", "reserve", "copy"} => IsDepth(Current)
    /\ pc \in {"depth", "reserve"} => reserved = rowHead_
    /\ pc = "reserve" => FrameRows <= RowCapacity
    /\ pc = "copy" => /\ rowHead_ <= reserved
                      /\ reserved + FrameRows <= rowTail_ + RowCapacity
                      /\ Place(reserved) + FrameRows <= RowCapacity
    /\ pc \in {"publish", "push", "pushed"} =>
           IF IsDepth(Current)
           THEN /\ rowHead_ = reserved + FrameRows
                /\ Place(reserved) + FrameRows <= RowCapacity
                /\ \A i \in 0 .. FrameRows - 1 :
                       rows_[Place(reserved) + i] = Current
           ELSE rowHead_ = reserved
    /\ pc = "pushed" => /\ slots_[head_].first = reserved
                        /\ slots_[head_].rowEnd = rowHead_

(* Events in flight hold rows in the order of the ring. *)
QueueInv ==
    /\ InHand => HoldsRows(event)
    /\ \A i \in Queued :
           /\ HoldsRows(slots_[i])
           /\ InHand => event.rowEnd <= slots_[i].first
           /\ \A j \in Queued : Position(i) < Position(j) =>
                  slots_[i].rowEnd <= slots_[j].first
    /\ pc \in Hooks =>
           /\ InHand => event.rowEnd <= reserved
           /\ \A i \in Queued : slots_[i].rowEnd <= reserved

(* Until the capture fails, rows not given back are those of a frame in    *)
(* flight, the last of which ends at the head of the arena.                *)
Idle ==
    \/ pc = "reserve"
    \/ ~failed_ /\ pc \in {"poll", "iterate", "depth"}
    \/ ~failed_ /\ pc \in {"publish", "push", "pushed"} /\ ~IsDepth(Current)
BusyInv ==
    Idle /\ rowTail_ # rowHead_ =>
        \/ InHand /\ IsDepth(event.number) /\ event.rowEnd = rowHead_
        \/ \E i \in Queued : /\ IsDepth(slots_[i].number)
                             /\ slots_[i].rowEnd = rowHead_

RowInv == ArenaType /\ HookInv /\ QueueInv /\ BusyInv

-----------------------------------------------------------------------------
LEMMA NextSlotValue ==
    ASSUME NEW i \in Slots
    PROVE  /\ NextSlot(i) = IF i = RingCapacity - 1 THEN 0 ELSE i + 1
           /\ NextSlot(i) \in Slots
<1> USE RingAssumption
<1>1. CASE i = RingCapacity - 1
  BY <1>1 DEF NextSlot, Slots
<1>2. CASE i # RingCapacity - 1
  <2>1. i + 1 \in Nat /\ i + 1 < RingCapacity
    BY <1>2 DEF Slots
  <2>2. (i + 1) % RingCapacity = i + 1
    BY <2>1
  <2> QED BY <1>2, <2>1, <2>2 DEF NextSlot, Slots
<1> QED BY <1>1, <1>2, Zenon

LEMMA OrderInit == Init => OrderInv
<1> SUFFICES ASSUME Init PROVE OrderInv
  BY Zenon
<1> USE RingAssumption
<1>1. OrderType
  <2>1. slots_ = [i \in Slots |-> slots_[i]] /\ event.number \in Nat
        /\ \A i \in Slots : slots_[i].number \in Nat
    BY Zenon DEF Init, Slots
  <2>3. committed = << >> /\ recorded = << >> /\ failed_ = FALSE
    BY Zenon DEF Init
  <2>4. committed \in Seq(Commit) /\ recorded \in Seq(Nat) /\ failed_ \in BOOLEAN
    <3>1. << >> \in Seq(Commit) /\ << >> \in Seq(Nat)
      BY EmptyLog, Zenon
    <3> QED BY <2>3, <3>1, Zenon
  <2>5. head_ \in Slots /\ tail_ \in Slots
    BY DEF Init, Slots
  <2>6. pc = "poll" /\ workerPc = "poll"
    BY Zenon DEF Init
  <2> QED BY <2>1, <2>4, <2>5, <2>6, Zenon DEF OrderType
<1>2. RingInv
  BY DEF Init, RingInv, Queued, Position, Pushed, Taken, Current, Hooks, Slots
<1>3. RecordInv
  BY DEF Init, RecordInv, RecordedIsPrefix
<1> QED BY <1>1, <1>2, <1>3, Zenon DEF OrderInv

(* The variables that the order depends on. *)
orderVars == <<pc, ringVars, failed_, workerVars, committed, recorded>>

LEMMA OrderFrame == OrderInv /\ UNCHANGED orderVars => OrderInv'
<1> SUFFICES ASSUME OrderInv, UNCHANGED orderVars PROVE OrderInv'
  BY Zenon
<1> USE DEF OrderInv, orderVars, ringVars, workerVars
<1>1. OrderType'
  BY Zenon DEF OrderType
<1>2. RingInv'
  BY Zenon DEF RingInv, Queued, Position, Pushed, Taken, Current, RingFull, NextSlot
<1>3. RecordInv'
  BY Zenon DEF RecordInv, RecordedIsPrefix
<1> QED BY <1>1, <1>2, <1>3, Zenon

(* Steps of the market thread outside the ring: the commit whose hook runs *)
(* either stays on its way or is lost, and with it the capture.            *)
MarketMoves ==
    /\ pc' \in {"poll", "iterate", "join", "finalize", "done"} \cup Hooks
    /\ failed_' \in BOOLEAN /\ (failed_ => failed_')
    /\ committed' \in Seq(Commit)
    /\ ~failed_' => (IF pc' \in Hooks THEN Current' - 1 ELSE Current')
                      = (IF pc \in Hooks THEN Current - 1 ELSE Current)
    /\ pc' # "pushed"
    /\ pc' = "push" => pc = "publish" /\ ~failed_ /\ Current' = Current
    /\ UNCHANGED <<ringVars, workerVars, recorded>>

LEMMA MarketMovesKeep == OrderInv /\ MarketMoves => OrderInv'
<1> SUFFICES ASSUME OrderInv, MarketMoves PROVE OrderInv'
  BY Zenon
<1> USE DEF OrderInv, MarketMoves, ringVars, workerVars
<1>1. OrderType'
  BY Zenon DEF OrderType
<1>2. RingInv'
  <2>1. Pushed' = Pushed /\ Taken' = Taken /\ Queued' = Queued
        /\ \A i : Position(i)' = Position(i)
    BY Zenon DEF Pushed, Taken, Queued, Position
  <2>2. ~failed_' => Pushed' = IF pc' \in Hooks THEN Current' - 1 ELSE Current'
    BY <2>1, Zenon DEF RingInv, OrderType
  <2>3. pc' \in {"push", "pushed"} => Pushed' = Current' - 1
    BY <2>1 DEF RingInv, Hooks
  <2> QED BY <2>1, <2>2, <2>3, Zenon DEF RingInv
<1>3. RecordInv'
  BY Zenon DEF RecordInv, RecordedIsPrefix, OrderType
<1> QED BY <1>1, <1>2, <1>3, Zenon

LEMMA MarketSteps ==
    ASSUME OrderInv, Poll \/ Finalize,
           ~ (pc = "push" /\ ~RingFull), pc # "pushed"
    PROVE  MarketMoves
<1> USE DEF OrderInv, vars, ownerVars, ringVars, arenaVars, flagVars,
            workerVars, sinkVars
<1>1. CASE PollBegin
  BY <1>1, Zenon DEF PollBegin, MarketMoves, OrderType, Current, Hooks
<1>2. ASSUME NEW ready, NEW connected, PollEnd(ready, connected)
      PROVE MarketMoves
  BY <1>2, Zenon DEF PollEnd, MarketMoves, OrderType, Current, Hooks
<1>3. ASSUME NEW commit \in Commit, HookCommit(commit) PROVE MarketMoves
  <2>1. committed' \in Seq(Commit) /\ Len(committed') = Len(committed) + 1
    BY <1>3, AppendFacts, Zenon DEF HookCommit, OrderType
  <2> QED BY <1>3, <2>1 DEF HookCommit, MarketMoves, OrderType, Current, Hooks
<1>4. CASE onDepthCheck
  BY <1>4, Zenon DEF onDepthCheck, HookLoses, lost, MarketMoves, OrderType, Current,
              Hooks
<1>5. CASE onDepthReserve
  BY <1>5, Zenon DEF onDepthReserve, HookLoses, lost, MarketMoves, OrderType, Current,
              Hooks
<1>6. CASE onDepthCopy
  BY <1>6, Zenon DEF onDepthCopy, MarketMoves, OrderType, Current, Hooks
<1>7. CASE publish
  BY <1>7, Zenon DEF publish, HookLoses, lost, MarketMoves, OrderType, Current, Hooks
<1>8. CASE tryPush
  BY <1>8, Zenon DEF tryPush, HookLoses, lost, MarketMoves, OrderType, Current, Hooks
<1>9. CASE shutdown
  BY <1>9, Zenon DEF shutdown, MarketMoves, OrderType, Current, Hooks
<1>10. CASE shutdownJoined
  BY <1>10, Zenon DEF shutdownJoined, MarketMoves, OrderType, Current, Hooks
<1>11. ASSUME NEW k, NEW eligible, NEW outcome,
              finalizeSession(k, eligible, outcome)
       PROVE MarketMoves
  BY <1>11, Zenon DEF finalizeSession, MarketMoves, OrderType, Current, Hooks
<1>12. ~ tryPushHead
  BY Zenon DEF tryPushHead
<1> QED
  BY <1>1, <1>2, <1>3, <1>4, <1>5, <1>6, <1>7, <1>8, <1>9, <1>10, <1>11, <1>12, Zenon
     DEF Poll, Hook, Finalize

(* The new event is written into a slot that nobody reads. *)
LEMMA PushKeepsOrder ==
    ASSUME OrderInv, tryPush, ~RingFull
    PROVE  OrderInv'
<1> USE RingAssumption
        DEF OrderInv, ringVars, arenaVars, flagVars, workerVars, sinkVars
<1> DEFINE new == [number |-> Current, first |-> reserved,
                   rowEnd |-> IF IsDepth(Current) THEN rowHead_ ELSE reserved]
<1>1. /\ pc = "push" /\ pc' = "pushed"
      /\ slots_' = [slots_ EXCEPT ![head_] = new]
      /\ UNCHANGED <<head_, tail_, failed_, workerPc, event, committed, recorded>>
  BY Zenon DEF tryPush
<1>2. new.number = Current
  BY Zenon
<1>3. head_ \in Slots /\ slots_'[head_] = new
      /\ \A i \in Slots : i # head_ => slots_'[i] = slots_[i]
  BY <1>1, Zenon DEF OrderType
<1>4. OrderType'
  <2>1. Current \in Nat
    BY DEF Current, OrderType
  <2> QED BY <1>1, <1>2, <1>3, <2>1, Zenon DEF OrderType, Hooks
<1>5. RingInv'
  <2>1. Pushed' = Pushed /\ Taken' = Taken /\ Queued' = Queued
        /\ Current' = Current /\ RingFull' = RingFull
        /\ \A i : Position(i)' = Position(i)
    BY <1>1, Zenon DEF Pushed, Taken, Queued, Position, Current, RingFull, NextSlot
  <2>2. \A i \in Queued : i \in Slots /\ i # head_
    BY DEF Queued, Slots, Position, OrderType
  <2>3. workerPc' = "popped" => tail_' # head_' /\ event' = slots_'[tail_']
    BY <1>1, <1>3, Zenon DEF RingInv, OrderType
  <2>4. \A i \in Queued' : slots_'[i].number = Taken' + Position(i)' + 1
    BY <1>3, <2>1, <2>2, Zenon DEF RingInv
  <2> QED BY <1>1, <1>2, <1>3, <2>1, <2>3, <2>4, Zenon DEF RingInv, Hooks
<1>6. RecordInv'
  BY <1>1, Zenon DEF RecordInv, RecordedIsPrefix
<1> QED BY <1>4, <1>5, <1>6, Zenon

LEMMA PushHeadKeepsOrder ==
    ASSUME OrderInv, tryPushHead
    PROVE  OrderInv'
<1> USE RingAssumption
        DEF OrderInv, ringVars, arenaVars, flagVars, workerVars, sinkVars
<1>1. /\ pc = "pushed" /\ pc' = "iterate" /\ head_' = NextSlot(head_)
      /\ UNCHANGED <<slots_, tail_, failed_, workerPc, event, committed,
                     recorded>>
  BY Zenon DEF tryPushHead
<1>2. OrderType'
  BY <1>1, NextSlotValue, Zenon DEF OrderType
<1>3. RingInv'
  <2>1. Taken' = Taken /\ Current' = Current
        /\ \A i : Position(i)' = Position(i)
    BY <1>1, Zenon DEF Taken, Position, Current
  <2>2. head_ \in Slots /\ tail_ \in Slots /\ NextSlot(head_) # tail_
    BY <1>1, Zenon DEF RingInv, OrderType, RingFull
  <2>3. Position(head_') = Position(head_) + 1
    BY <1>1, <2>2, NextSlotValue DEF Position, Slots
  <2>4. \A i \in Queued' : i \in Queued \/ i = head_
    BY <2>1, <2>2, <2>3 DEF Queued, Position, Slots
  <2>5. Pushed' = Pushed + 1
    BY <2>1, <2>2, <2>3 DEF Pushed, Taken, OrderType, Position, Slots
  <2>6. Pushed = Current - 1 /\ slots_[head_].number = Current
        /\ Current \in Nat
    BY <1>1, Zenon DEF RingInv, OrderType, Current
  <2>7. \A i \in Queued' : slots_'[i].number = Taken' + Position(i)' + 1
    BY <1>1, <2>1, <2>2, <2>4, <2>6 DEF RingInv, Pushed
  <2>8. workerPc' = "popped" => tail_' # head_' /\ event' = slots_'[tail_']
    BY <1>1, <2>2, Zenon DEF RingInv
  <2> QED BY <1>1, <2>1, <2>5, <2>6, <2>7, <2>8 DEF RingInv, Hooks
<1>4. RecordInv'
  BY <1>1, Zenon DEF RecordInv, RecordedIsPrefix
<1> QED BY <1>2, <1>3, <1>4, Zenon

LEMMA PopKeepsOrder ==
    ASSUME OrderInv, tryPop
    PROVE  OrderInv'
<1> USE RingAssumption
        DEF OrderInv, ringVars, arenaVars, flagVars, workerVars, sinkVars
<1>1. /\ workerPc = "poll"
      /\ UNCHANGED <<pc, slots_, head_, tail_, failed_, committed, recorded>>
  BY Zenon DEF tryPop
<1>2. /\ Queued' = Queued /\ Current' = Current /\ RingFull' = RingFull
      /\ \A i : Position(i)' = Position(i)
  BY <1>1, Zenon DEF Queued, Position, Current, RingFull, NextSlot
<1>3. head_ \in Slots /\ tail_ \in Slots
  BY Zenon DEF OrderType
<1>4. /\ workerPc' \in {"empty", "popped"}
      /\ workerPc' = "popped" => tail_ # head_ /\ event' = slots_[tail_]
      /\ workerPc' = "empty" => event' = event
  BY Zenon DEF tryPop
<1>5. workerPc' = "popped" => event'.number = event.number + 1
  <2> SUFFICES ASSUME workerPc' = "popped" PROVE event'.number = event.number + 1
    BY Zenon
  <2>1. tail_ \in Queued /\ Position(tail_) = 0
    BY <1>3, <1>4 DEF Queued, Position, Slots
  <2>2. slots_[tail_].number = Taken + Position(tail_) + 1
    BY <2>1, Zenon DEF RingInv
  <2> QED BY <1>1, <1>4, <2>1, <2>2 DEF Taken, OrderType
<1>6. Taken' = Taken /\ event'.number \in Nat
  BY <1>1, <1>4, <1>5 DEF Taken, OrderType
<1>7. OrderType'
  BY <1>1, <1>4, <1>6, Zenon DEF OrderType
<1>8. RingInv'
  <2>1. Pushed' = Pushed
    BY <1>1, <1>6, Zenon DEF Pushed, Position
  <2>2. \A i \in Queued' : slots_'[i].number = Taken' + Position(i)' + 1
    BY <1>1, <1>2, <1>6, Zenon DEF RingInv
  <2>3. workerPc' = "popped" => tail_' # head_' /\ event' = slots_'[tail_']
    BY <1>1, <1>4, Zenon
  <2> QED BY <1>1, <1>2, <2>1, <2>2, <2>3, Zenon DEF RingInv
<1>9. RecordInv'
  BY <1>1, <1>4, <1>5 DEF RecordInv, RecordedIsPrefix, OrderType
<1> QED BY <1>7, <1>8, <1>9, Zenon

(* Moving the tail brings every other slot one place nearer. *)
LEMMA TailMoves ==
    ASSUME OrderType, tail_ # head_, tail_' = NextSlot(tail_), head_' = head_
    PROVE  /\ \A i \in Slots \ {tail_} : Position(i)' = Position(i) - 1
           /\ Queued' = Queued \ {tail_}
           /\ Position(head_)' = Position(head_) - 1
<1> USE RingAssumption
<1>1. tail_ \in Slots /\ head_ \in Slots /\ tail_' \in Slots
      /\ tail_' = IF tail_ = RingCapacity - 1 THEN 0 ELSE tail_ + 1
  BY NextSlotValue, Zenon DEF OrderType
<1>2. \A i \in Slots \ {tail_} : Position(i)' = Position(i) - 1
  BY <1>1 DEF Position, Slots
<1>3. Position(head_)' = Position(head_) - 1
  BY <1>1, <1>2, Zenon
<1>4. \A i \in Slots : i = tail_ => Position(i)' = RingCapacity - 1
  BY <1>1 DEF Position, Slots
<1>5. \A i \in Slots : i \in Queued' <=> i \in Queued /\ i # tail_
  BY <1>1, <1>2, <1>3, <1>4 DEF Queued, Slots, Position
<1>6. Queued \subseteq Slots /\ Queued' \subseteq Slots
  BY Zenon DEF Queued, Slots
<1> QED BY <1>2, <1>3, <1>5, <1>6, Zenon

LEMMA PopTailKeepsOrder ==
    ASSUME OrderInv, tryPopTail
    PROVE  OrderInv'
<1> USE RingAssumption
        DEF OrderInv, ringVars, arenaVars, flagVars, workerVars, sinkVars
<1>1. /\ workerPc = "popped" /\ workerPc' = "taken" /\ tail_' = NextSlot(tail_)
      /\ UNCHANGED <<pc, slots_, head_, event, failed_, committed, recorded>>
  BY Zenon DEF tryPopTail
<1>2. tail_ # head_ /\ head_ \in Slots /\ tail_ \in Slots
  BY <1>1, Zenon DEF RingInv, OrderType
<1>3. OrderType'
  BY <1>1, NextSlotValue, Zenon DEF OrderType
<1>4. /\ \A i \in Slots \ {tail_} : Position(i)' = Position(i) - 1
      /\ Queued' = Queued \ {tail_}
      /\ Position(head_)' = Position(head_) - 1
  BY <1>1, <1>2, TailMoves, Zenon
<1>5. Taken' = Taken + 1 /\ Taken \in Int
  BY <1>1 DEF Taken, OrderType
<1>6. \A i \in Slots : Position(i) \in Nat
  BY <1>2 DEF Position, Slots
<1>7. Pushed' = Pushed /\ Current' = Current
  BY <1>1, <1>2, <1>4, <1>5, <1>6 DEF Pushed, Current
<1>8. RingInv'
  <2>1. \A i \in Queued' : slots_'[i].number = Taken' + Position(i)' + 1
    <3> SUFFICES ASSUME NEW i \in Queued'
                 PROVE  slots_'[i].number = Taken' + Position(i)' + 1
      BY Zenon
    <3>1. i \in Queued /\ i \in Slots \ {tail_}
      BY <1>4, Zenon DEF Queued, Slots
    <3>2. slots_[i].number = Taken + Position(i) + 1
      BY <3>1, Zenon DEF RingInv
    <3> QED BY <1>1, <1>4, <1>5, <1>6, <3>1, <3>2
  <2>2. pc = "pushed" => NextSlot(head_) # tail_'
    <3> SUFFICES ASSUME NextSlot(head_) = NextSlot(tail_) PROVE FALSE
      BY <1>1, Zenon
    <3> QED BY <1>2, NextSlotValue DEF Slots
  <2> QED BY <1>1, <1>7, <2>1, <2>2, Zenon DEF RingInv, RingFull, NextSlot
<1>9. RecordInv'
  BY <1>1, Zenon DEF RecordInv, RecordedIsPrefix
<1> QED BY <1>3, <1>8, <1>9, Zenon

(* Steps of the storage thread between two visits to the ring. *)
LEMMA DrainKeepsOrder ==
    ASSUME OrderInv,
           /\ workerPc # "popped" /\ workerPc' # "popped"
           /\ UNCHANGED <<pc, ringVars, event, committed>>,
           failed_' \in BOOLEAN, failed_ => failed_',
           OrderType => recorded' \in Seq(Nat)
                        /\ workerPc' \in {"poll", "empty", "consume", "account",
                                          "note", "release", "exited"},
           RecordInv'
    PROVE  OrderInv'
<1> USE DEF OrderInv, ringVars
<1>1. OrderType'
  BY Zenon DEF OrderType
<1>2. RingInv'
  <2>1. Pushed' = Pushed /\ Taken' = Taken /\ Queued' = Queued
        /\ Current' = Current /\ RingFull' = RingFull
        /\ \A i : Position(i)' = Position(i)
    BY Zenon DEF Pushed, Taken, Queued, Position, Current, RingFull, NextSlot
  <2> QED BY <2>1, Zenon DEF RingInv, OrderType
<1> QED BY <1>1, <1>2, Zenon

LEMMA DrainSteps ==
    ASSUME OrderInv, Drain, ~tryPop, ~tryPopTail
    PROVE  OrderInv'
<1> USE DEF OrderInv, ringVars, arenaVars, flagVars, workerVars, sinkVars
<1>1. CASE drainWorkerStop
  <2>1. RecordInv'
    BY <1>1, Zenon DEF drainWorkerStop, RecordInv, RecordedIsPrefix
  <2> QED BY <1>1, <2>1, DrainKeepsOrder, Zenon DEF drainWorkerStop, OrderType
<1>2. CASE drainWorkerCheck
  <2>1. RecordInv'
    BY <1>2, Zenon DEF drainWorkerCheck, lost, RecordInv, RecordedIsPrefix
  <2> QED BY <1>2, <2>1, DrainKeepsOrder, Zenon DEF drainWorkerCheck, lost, OrderType
<1>3. ASSUME NEW ok, consume(ok) PROVE OrderInv'
  <2>1. /\ workerPc = "consume" /\ workerPc' \in {"release", "note", "account"}
        /\ UNCHANGED <<pc, ringVars, event, committed>>
        /\ failed_' \in BOOLEAN /\ (failed_ => failed_')
        /\ \/ recorded' = recorded /\ (workerPc' = "account" \/ failed_')
           \/ workerPc' = "release" /\ recorded' = Append(recorded, event.number)
    BY <1>3, Zenon DEF consume, lost, OrderType
  <2>2. Len(recorded) = event.number - 1 /\ recorded \in Seq(Nat)
        /\ event.number \in Nat
    BY <2>1, Zenon DEF RecordInv, OrderType
  <2>3. CASE recorded' = recorded /\ (workerPc' = "account" \/ failed_')
    <3>1. RecordInv'
      BY <2>1, <2>3, Zenon DEF RecordInv, RecordedIsPrefix
    <3> QED BY <2>1, <2>3, <3>1, DrainKeepsOrder, Zenon DEF OrderType
  <2>4. CASE workerPc' = "release" /\ recorded' = Append(recorded, event.number)
    <3>1. /\ recorded' \in Seq(Nat) /\ Len(recorded') = event.number
          /\ \A i \in 1 .. Len(recorded) : recorded'[i] = recorded[i]
          /\ recorded'[event.number] = event.number
      <4>1. /\ recorded' \in Seq(Nat) /\ Len(recorded') = Len(recorded) + 1
            /\ \A i \in 1 .. Len(recorded) : recorded'[i] = recorded[i]
            /\ recorded'[Len(recorded) + 1] = event.number
        BY <2>2, <2>4, AppendFacts
      <4> QED BY <2>2, <4>1
    <3>2. RecordedIsPrefix'
      <4> SUFFICES ASSUME NEW i \in 1 .. event.number PROVE recorded'[i] = i
        BY <3>1, Zenon DEF RecordedIsPrefix
      <4>1. \A j \in 1 .. event.number - 1 : recorded[j] = j
        BY <2>2, Zenon DEF RecordInv, RecordedIsPrefix
      <4>2. i \in 1 .. event.number - 1 \/ i = event.number
        BY <2>2
      <4>3. \A j \in 1 .. event.number - 1 : recorded'[j] = recorded[j]
        BY <2>2, <3>1, Zenon
      <4> QED BY <3>1, <4>1, <4>2, <4>3, Zenon
    <3>3. RecordInv'
      BY <2>1, <2>4, <3>1, <3>2, Zenon DEF RecordInv, RecordedIsPrefix
    <3> QED BY <2>1, <3>1, <3>3, DrainKeepsOrder, Zenon DEF OrderType
  <2> QED BY <2>1, <2>3, <2>4, Zenon
<1>4. CASE account
  <2>1. RecordInv'
    BY <1>4, Zenon DEF account, RecordInv, RecordedIsPrefix
  <2> QED BY <1>4, <2>1, DrainKeepsOrder, Zenon DEF account, OrderType
<1>5. CASE noteExternalChannelError
  <2>1. RecordInv'
    BY <1>5, Zenon DEF noteExternalChannelError, RecordInv, RecordedIsPrefix
  <2> QED BY <1>5, <2>1, DrainKeepsOrder, Zenon
          DEF noteExternalChannelError, OrderType
<1>6. CASE drainWorkerRelease
  <2>1. RecordInv'
    BY <1>6, Zenon DEF drainWorkerRelease, RecordInv, RecordedIsPrefix
  <2> QED BY <1>6, <2>1, DrainKeepsOrder, Zenon DEF drainWorkerRelease, OrderType
<1> QED BY <1>1, <1>2, <1>3, <1>4, <1>5, <1>6, Zenon DEF Drain

LEMMA OrderStep == OrderInv /\ [Next]_vars => OrderInv'
<1> SUFFICES ASSUME OrderInv, [Next]_vars PROVE OrderInv'
  BY Zenon
<1>1. CASE Poll \/ Finalize
  <2>1. CASE pc = "push" /\ ~RingFull
    <3>1. tryPush
      BY <1>1, <2>1, Zenon
         DEF Poll, Finalize, Hook, PollBegin, PollEnd, HookCommit, onDepthCheck,
             onDepthReserve, onDepthCopy, publish, tryPushHead, shutdown,
             shutdownJoined, finalizeSession
    <3> QED BY <2>1, <3>1, PushKeepsOrder, Zenon
  <2>2. CASE pc = "pushed"
    <3>1. tryPushHead
      BY <1>1, <2>2, Zenon
         DEF Poll, Finalize, Hook, PollBegin, PollEnd, HookCommit, onDepthCheck,
             onDepthReserve, onDepthCopy, publish, tryPush, shutdown,
             shutdownJoined, finalizeSession
    <3> QED BY <3>1, PushHeadKeepsOrder, Zenon
  <2>3. CASE ~ (pc = "push" /\ ~RingFull) /\ pc # "pushed"
    BY <1>1, <2>3, MarketSteps, MarketMovesKeep, Zenon
  <2> QED BY <2>1, <2>2, <2>3, Zenon
<1>2. CASE Drain
  BY <1>2, PopKeepsOrder, PopTailKeepsOrder, DrainSteps, Zenon
<1>3. ASSUME NEW refreshed, refreshManifests(refreshed) PROVE OrderInv'
  BY <1>3, OrderFrame, Zenon DEF refreshManifests, orderVars, ringVars, flagVars
<1>4. CASE UNCHANGED vars
  BY <1>4, OrderFrame, Zenon DEF vars, orderVars, ringVars, flagVars, sinkVars
<1> QED BY <1>1, <1>2, <1>3, <1>4, Zenon DEF Next

LEMMA OrderInvariant == Spec => []OrderInv
BY OrderInit, OrderStep, PTL DEF Spec

(* What the sinks hold is a prefix of what the exchange core committed,    *)
(* for every ring and arena: SpscRing hands events over in order and       *)
(* without a gap, and drainWorker() records nothing after a failure.       *)
THEOREM RecordedPrefix == Spec => []RecordedIsPrefix
<1>1. OrderInv => RecordedIsPrefix
  BY Zenon DEF OrderInv, RecordInv
<1> QED BY <1>1, OrderInvariant, PTL

-----------------------------------------------------------------------------
(* The rows of the arena. *)

LEMMA CapacityType == RowCapacity \in Nat \ {0} /\ MaximumDepthLevels \in Nat
                      /\ RowCapacity = 2 * MaximumDepthLevels
BY ArenaAssumption DEF RowCapacity

LEMMA LevelsType ==
    ASSUME committed \in Seq(Commit), NEW n \in 1 .. Len(committed)
    PROVE  committed[n].levels \in Nat
<1>1. committed[n] \in Commit
  OBVIOUS
<1>2. ASSUME NEW c \in Commit PROVE c.levels \in Nat
  <2>1. CASE c \in [source : DepthSource, levels : FrameLevels,
                    representable : BOOLEAN]
    BY <2>1, ArenaAssumption, Zenon
  <2>2. CASE c \in [source : Source \ DepthSource, levels : {0},
                    representable : BOOLEAN]
    BY <2>2
  <2>3. CASE c \in [source : {Foreign}, levels : {0}, representable : {TRUE}]
    BY <2>3
  <2> QED BY <1>2, <2>1, <2>2, <2>3, Zenon DEF Commit
<1> QED BY <1>1, <1>2, Zenon

LEMMA RowInit == Init => RowInv
<1> SUFFICES ASSUME Init PROVE RowInv
  BY Zenon
<1> USE RingAssumption, CapacityType
<1>1. ArenaType
  BY DEF Init, ArenaType, Slots
<1>2. HookInv
  BY Zenon DEF Init, HookInv, Hooks
<1>3. QueueInv
  BY DEF Init, QueueInv, InHand, Queued, Position, Hooks
<1>4. BusyInv
  BY Zenon DEF Init, BusyInv
<1> QED BY <1>1, <1>2, <1>3, <1>4, Zenon DEF RowInv

(* A step that leaves the ring and the arena alone. *)
RowsLeft ==
    /\ UNCHANGED <<reserved, ringVars, arenaVars, committed>>
    /\ InHand' = InHand
    /\ InHand => event' = event
    /\ event' = event \/ (\E i \in Slots : event' = slots_[i])

LEMMA RowsLeftKeep ==
    ASSUME RowsLeft, ArenaType, QueueInv, pc' \in Hooks => pc \in Hooks
    PROVE  ArenaType' /\ QueueInv'
<1> USE DEF RowsLeft, ringVars, arenaVars
<1>1. ArenaType'
  BY Zenon DEF ArenaType
<1>2. QueueInv'
  <2>1. \A e : HoldsRows(e)' = HoldsRows(e)
    BY Zenon DEF HoldsRows, IsDepth, Current
  <2>2. Queued' = Queued /\ \A i : Position(i)' = Position(i)
    BY Zenon DEF Queued, Position
  <2>3. InHand' => HoldsRows(event)'
    BY <2>1, Zenon DEF QueueInv, HoldsRows, IsDepth, Current
  <2>4. \A i \in Queued' : HoldsRows(slots_[i])'
    BY <2>1, <2>2, Zenon DEF QueueInv, HoldsRows, IsDepth, Current
  <2>5. \A i \in Queued' :
            /\ InHand' => event'.rowEnd <= slots_'[i].first
            /\ \A j \in Queued' : Position(i)' < Position(j)' =>
                   slots_'[i].rowEnd <= slots_'[j].first
    BY <2>2, Zenon DEF QueueInv
  <2>6. pc' \in Hooks =>
            /\ InHand' => event'.rowEnd <= reserved'
            /\ \A i \in Queued' : slots_'[i].rowEnd <= reserved'
    BY <2>2, Zenon DEF QueueInv
  <2> QED BY <2>3, <2>4, <2>5, <2>6, Zenon DEF QueueInv
<1> QED BY <1>1, <1>2, Zenon

LEMMA RowsLeftSafe ==
    ASSUME RowInv, RowsLeft, HookInv', pc' \in Hooks => pc \in Hooks,
           Idle' => Idle
    PROVE  RowInv'
<1>1. ArenaType' /\ QueueInv'
  BY RowsLeftKeep, Zenon DEF RowInv
<1>2. Queued' = Queued
  BY Zenon DEF Queued, Position, RowsLeft, ringVars
<1>3. BusyInv'
  BY <1>2, Zenon DEF BusyInv, RowInv, RowsLeft, ringVars, arenaVars, IsDepth
<1> QED BY <1>1, <1>3, Zenon DEF RowInv

LEMMA Division ==
    ASSUME NEW a \in Nat
    PROVE  /\ a \div RowCapacity \in Nat
           /\ a % RowCapacity \in 0 .. RowCapacity - 1
           /\ a = (RowCapacity * (a \div RowCapacity)) + (a % RowCapacity)
BY CapacityType

LEMMA PlaceType ==
    ASSUME NEW a \in Nat
    PROVE  Place(a) \in 0 .. RowCapacity - 1
BY Division, Zenon DEF Place

(* Where a row of a frame that does not wrap lies. *)
LEMMA RowPlace ==
    ASSUME NEW a \in Nat, NEW i \in Nat, (a % RowCapacity) + i < RowCapacity
    PROVE  (a + i) % RowCapacity = (a % RowCapacity) + i
<1> USE CapacityType
<1> DEFINE p == a \div RowCapacity
           r == a % RowCapacity
<1>1. p \in Nat /\ r \in 0 .. RowCapacity - 1 /\ a = (RowCapacity * p) + r
  BY Division, Zenon
<1>2. r + i \in 0 .. RowCapacity - 1
  BY <1>1
<1> HIDE DEF p, r
<1>3. a + i = (RowCapacity * p) + (r + i)
  BY <1>1
<1>4. ((RowCapacity * p) + (r + i)) % RowCapacity = r + i
  BY <1>1, <1>2
<1> QED BY <1>3, <1>4, Zenon DEF r

(* Row numbers less than a capacity apart lie in different places. *)
LEMMA RowsDistinct ==
    ASSUME NEW a \in Nat, NEW b \in Nat, a < b, b < a + RowCapacity
    PROVE  a % RowCapacity # b % RowCapacity
<1> USE CapacityType
<1> DEFINE p == a \div RowCapacity
           q == b \div RowCapacity
<1>1. /\ p \in Nat /\ q \in Nat
      /\ a % RowCapacity \in Nat /\ b % RowCapacity \in Nat
  OBVIOUS
<1>2. /\ a = (RowCapacity * p) + (a % RowCapacity)
      /\ b = (RowCapacity * q) + (b % RowCapacity)
  OBVIOUS
<1> SUFFICES ASSUME a % RowCapacity = b % RowCapacity PROVE FALSE
  BY Zenon
<1> HIDE DEF p, q
<1>3. b - a = RowCapacity * (q - p)
  BY <1>1, <1>2
<1>4. CASE q <= p
  <2>1. RowCapacity * (q - p) <= 0
    BY <1>1, <1>4
  <2> QED BY <2>1, <1>3
<1>5. CASE q > p
  <2>1. RowCapacity * (q - p) >= RowCapacity
    BY <1>1, <1>5
  <2> QED BY <2>1, <1>3
<1> QED BY <1>1, <1>4, <1>5

(* The place that onDepth() chooses: at the head or at the next multiple   *)
(* of the capacity, less than a frame further on.                          *)
LEMMA ArenaBeginPlace ==
    ASSUME NEW from \in Nat, NEW levels \in Nat, levels <= RowCapacity
    PROVE  /\ ArenaBegin(from, levels) \in Nat
           /\ from <= ArenaBegin(from, levels)
           /\ Place(ArenaBegin(from, levels)) + levels <= RowCapacity
           /\ levels > 0 => ArenaBegin(from, levels) < from + levels
<1> USE CapacityType
<1> DEFINE p == from \div RowCapacity
           r == from % RowCapacity
<1>1. p \in Nat /\ r \in 0 .. RowCapacity - 1 /\ from = (RowCapacity * p) + r
  OBVIOUS
<1>2. CASE r + levels > RowCapacity
  <2>1. ArenaBegin(from, levels) = from + (RowCapacity - r)
    BY <1>2, Zenon DEF ArenaBegin, Place
  <2> HIDE DEF p, r
  <2>2. from + (RowCapacity - r) = RowCapacity * (p + 1)
    BY <1>1
  <2>3. (RowCapacity * (p + 1)) % RowCapacity = 0
    BY <1>1
  <2> QED BY <1>1, <1>2, <2>1, <2>2, <2>3 DEF Place
<1>3. CASE ~ (r + levels > RowCapacity)
  BY <1>1, <1>3 DEF ArenaBegin, Place
<1> QED BY <1>2, <1>3, Zenon

(* Steps of the storage thread between two visits to the ring. *)
LEMMA DrainLeavesRows ==
    ASSUME RowInv, RowsLeft, pc' = pc, failed_ => failed_'
    PROVE  RowInv'
<1>1. HookInv'
  BY Zenon DEF HookInv, RowInv, RowsLeft, ringVars, arenaVars, IsDepth, Current,
         FrameRows
<1>2. Idle' => Idle
  BY Zenon DEF Idle, IsDepth, Current, RowsLeft
<1> QED BY <1>1, <1>2, RowsLeftSafe, Zenon

(* Steps of the market thread that end in no hook. *)
LEMMA MarketLeavesRows ==
    ASSUME RowInv, RowsLeft, pc' \notin Hooks,
           ~failed_' /\ pc' \in {"poll", "iterate"} =>
               ~failed_ /\ pc \in {"poll", "iterate"}
    PROVE  RowInv'
<1>1. HookInv'
  BY Zenon DEF HookInv, Hooks
<1>2. Idle' => Idle
  BY Zenon DEF Idle, Hooks
<1> QED BY <1>1, <1>2, RowsLeftSafe, Zenon

LEMMA CheckKeepsRows ==
    ASSUME OrderInv, RowInv, onDepthCheck \/ publish
    PROVE  RowInv'
<1> USE DEF ownerVars, ringVars, arenaVars, flagVars, workerVars, sinkVars
<1>1. RowsLeft
  BY Zenon DEF onDepthCheck, publish, RowsLeft, InHand
<1>2. CASE pc' = "iterate" /\ failed_'
  BY <1>1, <1>2, MarketLeavesRows, Zenon DEF Hooks
<1>3. CASE /\ ~failed_ /\ ~failed_'
           /\ \/ pc = "depth" /\ pc' = "reserve" /\ ~ (FrameRows > RowCapacity)
              \/ pc = "publish" /\ pc' = "push"
  <2>0. pc = "depth" => FrameRows \in Nat /\ RowCapacity \in Nat
    <3>1. RowCapacity \in Nat
      BY CapacityType
    <3>2. committed \in Seq(Commit) /\ (pc = "depth" => Current \in Nat \ {0})
      BY Zenon DEF OrderInv, OrderType, RowInv, HookInv, Hooks
    <3>3. Current \in Nat \ {0} => Current \in 1 .. Len(committed)
      BY DEF Current
    <3> QED BY <3>1, <3>2, <3>3, LevelsType, Zenon DEF FrameRows
  <2>1. HookInv'
    BY <1>1, <1>3, <2>0 DEF HookInv, RowInv, RowsLeft, IsDepth, Current,
                            FrameRows, Hooks
  <2>2. Idle' => Idle
    BY <1>1, <1>3, Zenon DEF Idle, RowsLeft, IsDepth, Current
  <2> QED BY <1>1, <1>3, <2>1, <2>2, RowsLeftSafe, Zenon DEF Hooks
<1> QED BY <1>2, <1>3, Zenon DEF onDepthCheck, publish, HookLoses, lost

LEMMA CommitKeepsRows ==
    ASSUME OrderInv, RowInv, NEW commit \in Commit, HookCommit(commit)
    PROVE  RowInv'
<1> USE DEF ownerVars, ringVars, arenaVars, flagVars, workerVars, sinkVars
<1>1. /\ pc = "iterate" /\ reserved' = rowHead_
      /\ pc' = IF commit.source \in DepthSource THEN "depth" ELSE "publish"
      /\ UNCHANGED <<slots_, head_, tail_, rows_, rowHead_, rowTail_, failed_,
                     workerPc, event>>
  BY Zenon DEF HookCommit
<1>2. /\ committed \in Seq(Commit) /\ Len(committed') = Len(committed) + 1
      /\ \A n \in 1 .. Len(committed) : committed'[n] = committed[n]
      /\ committed'[Len(committed')] = commit
  BY AppendFacts DEF HookCommit, OrderInv, OrderType
<1>3. Current \in Nat /\ Current' = Current + 1
      /\ IsDepth(Current)' = (commit.source \in DepthSource)
      /\ \A n \in 1 .. Current : IsDepth(n)' = IsDepth(n)
  BY <1>2 DEF Current, IsDepth
<1>4. \A e : HoldsRows(e) =>
          HoldsRows(e)' /\ e.rowEnd <= rowHead_ /\ IsDepth(e.number)' = IsDepth(e.number)
  <2> SUFFICES ASSUME NEW e, HoldsRows(e)
               PROVE  HoldsRows(e)' /\ e.rowEnd <= rowHead_
                      /\ IsDepth(e.number)' = IsDepth(e.number)
    BY Zenon
  <2>1. e.number \in 1 .. Current
    BY Zenon DEF HoldsRows
  <2>2. /\ committed'[e.number] = committed[e.number]
        /\ IsDepth(e.number)' = IsDepth(e.number)
        /\ e.number \in 1 .. Current'
    BY <1>2, <1>3, <2>1 DEF Current
  <2>3. HoldsRows(e)'
    BY <1>1, <2>2, Zenon DEF HoldsRows
  <2> QED BY <2>2, <2>3, Zenon DEF HoldsRows
<1>5. InHand' = InHand /\ Queued' = Queued /\ \A i : Position(i)' = Position(i)
  BY <1>1, Zenon DEF InHand, Queued, Position
<1>6. ArenaType'
  BY <1>1, Zenon DEF RowInv, ArenaType
<1>7. HookInv'
  <2>1. /\ Current' \in Nat \ {0} /\ rowTail_' <= reserved'
        /\ reserved' = rowHead_'
    BY <1>1, <1>3 DEF RowInv, ArenaType
  <2>2. CASE commit.source \in DepthSource
    <3>1. IsDepth(Current)' /\ pc' = "depth"
      BY <1>1, <1>3, <2>2, Zenon
    <3> QED BY <2>1, <3>1, Zenon DEF HookInv
  <2>3. CASE commit.source \notin DepthSource
    <3>1. ~IsDepth(Current)' /\ pc' = "publish"
      BY <1>1, <1>3, <2>3, Zenon
    <3> QED BY <2>1, <3>1, Zenon DEF HookInv
  <2> QED BY <2>2, <2>3, Zenon
<1>8. QueueInv'
  <2>1. InHand' => HoldsRows(event)' /\ event'.rowEnd <= reserved'
    <3>1. InHand => HoldsRows(event) /\ event.rowEnd <= rowHead_
      BY <1>4, Zenon DEF RowInv, QueueInv
    <3>2. \A e : e = event /\ HoldsRows(e)' => HoldsRows(event)'
      BY <1>1, Zenon DEF HoldsRows, IsDepth
    <3> QED BY <1>1, <1>4, <1>5, <3>1, <3>2, Zenon
  <2>2. \A i \in Queued' : HoldsRows(slots_[i])' /\ slots_'[i].rowEnd <= reserved'
    <3> SUFFICES ASSUME NEW i \in Queued
                 PROVE  HoldsRows(slots_[i])' /\ slots_[i].rowEnd <= rowHead_
      BY <1>1, <1>5, Zenon
    <3>1. HoldsRows(slots_[i])
      BY Zenon DEF RowInv, QueueInv
    <3>2. \A e : e = slots_[i] /\ HoldsRows(e)' => HoldsRows(slots_[i])'
      BY <1>1, Zenon DEF HoldsRows, IsDepth
    <3> QED BY <1>4, <3>1, <3>2, Zenon
  <2> QED BY <1>1, <1>5, <2>1, <2>2, Zenon DEF RowInv, QueueInv
<1>9. BusyInv'
  <2> SUFFICES ASSUME Idle', rowTail_ # rowHead_
               PROVE  \/ InHand /\ IsDepth(event.number)' /\ event.rowEnd = rowHead_
                      \/ \E i \in Queued : /\ IsDepth(slots_[i].number)'
                                           /\ slots_[i].rowEnd = rowHead_
    BY <1>1, <1>5, Zenon DEF BusyInv
  <2>1. Idle
    BY <1>1, Zenon DEF Idle
  <2>2. InHand => (IsDepth(event.number) => IsDepth(event.number)')
    BY <1>1, <1>3, Zenon DEF RowInv, QueueInv, HoldsRows, IsDepth
  <2>3. \A i \in Queued :
            IsDepth(slots_[i].number) => IsDepth(slots_[i].number)'
    BY <1>1, <1>3, Zenon DEF RowInv, QueueInv, HoldsRows, IsDepth
  <2> QED BY <2>1, <2>2, <2>3, Zenon DEF RowInv, BusyInv
<1> QED BY <1>6, <1>7, <1>8, <1>9, Zenon DEF RowInv

LEMMA ReserveKeepsRows ==
    ASSUME OrderInv, RowInv, onDepthReserve
    PROVE  RowInv'
<1> USE DEF ownerVars, ringVars, arenaVars, flagVars, workerVars, sinkVars
<1>1. CASE pc' = "iterate" /\ failed_' /\ reserved' = reserved
  <2>1. RowsLeft
    BY <1>1, Zenon DEF onDepthReserve, RowsLeft, InHand
  <2> QED BY <1>1, <2>1, MarketLeavesRows, Zenon DEF Hooks
<1> DEFINE begin == ArenaBegin(rowHead_, FrameRows)
<1>2. CASE pc' = "copy" /\ reserved' = begin /\ ~ArenaFull(begin + FrameRows)
  <2>1. /\ pc = "reserve"
        /\ UNCHANGED <<slots_, head_, tail_, rows_, rowHead_, rowTail_, workerPc,
                       event, committed>>
    BY Zenon DEF onDepthReserve
  <2>2. /\ rowHead_ \in Nat /\ rowTail_ \in Nat /\ rowTail_ <= rowHead_
        /\ RowCapacity \in Nat /\ IsDepth(Current) /\ reserved = rowHead_
        /\ Current \in Nat \ {0}
    BY <2>1, CapacityType, Zenon DEF RowInv, ArenaType, HookInv, Hooks
  <2>3. FrameRows \in Nat
    BY <2>2, LevelsType DEF FrameRows, Current, OrderInv, OrderType
  <2>4. /\ begin \in Nat /\ rowHead_ <= begin
        /\ Place(begin) + FrameRows <= RowCapacity
    BY <2>1, <2>2, <2>3, ArenaBeginPlace, Zenon DEF RowInv, HookInv
  <2>5. begin + FrameRows <= rowTail_ + RowCapacity
    BY <1>2, <2>2, <2>3, <2>4 DEF ArenaFull
  <2> HIDE DEF begin
  <2>6. InHand' = InHand /\ Queued' = Queued /\ \A i : Position(i)' = Position(i)
    BY <2>1, Zenon DEF InHand, Queued, Position
  <2>7. ArenaType'
    BY <1>2, <2>1, <2>4, Zenon DEF RowInv, ArenaType
  <2>8. HookInv'
    BY <1>2, <2>1, <2>2, <2>4, <2>5
       DEF HookInv, Hooks, IsDepth, Current, FrameRows
  <2>9. QueueInv'
    <3>1. /\ InHand => event.rowEnd \in Nat /\ event.rowEnd <= rowHead_
          /\ \A i \in Queued :
                slots_[i].rowEnd \in Nat /\ slots_[i].rowEnd <= rowHead_
      BY <2>1, <2>2, Zenon
         DEF RowInv, QueueInv, Hooks, ArenaType, Queued, Slots
    <3>2. InHand' => HoldsRows(event)'
      BY <2>1, <2>6, Zenon DEF RowInv, QueueInv, HoldsRows, IsDepth, Current
    <3>3. \A i \in Queued' : HoldsRows(slots_[i])'
      BY <2>1, <2>6, Zenon DEF RowInv, QueueInv, HoldsRows, IsDepth, Current
    <3>4. /\ InHand => event.rowEnd <= begin
          /\ \A i \in Queued : slots_[i].rowEnd <= begin
      BY <2>2, <2>4, <3>1
    <3> QED BY <1>2, <2>1, <2>6, <3>2, <3>3, <3>4, Zenon DEF RowInv, QueueInv
  <2>10. BusyInv'
    BY <1>2, Zenon DEF BusyInv, Idle
  <2> QED BY <2>7, <2>8, <2>9, <2>10, Zenon DEF RowInv
<1> QED BY <1>1, <1>2, Zenon DEF onDepthReserve, HookLoses, lost

(* Two rows of frames that do not wrap, less than a capacity apart. *)
LEMMA PlacesDistinct ==
    ASSUME NEW a \in Nat, NEW b \in Nat, NEW i \in Nat, NEW j \in Nat,
           Place(a) + i < RowCapacity,
           Place(b) + j < RowCapacity,
           a + i < b + j, b + j < (a + i) + RowCapacity
    PROVE  Place(a) + i # Place(b) + j
<1>1. Place(a + i) = Place(a) + i
  BY RowPlace, Zenon DEF Place
<1>2. Place(b + j) = Place(b) + j
  BY RowPlace, Zenon DEF Place
<1>3. Place(a + i) # Place(b + j)
  <2> DEFINE x == a + i
             y == b + j
  <2>1. x \in Nat /\ y \in Nat /\ x < y /\ y < x + RowCapacity
    OBVIOUS
  <2> HIDE DEF x, y
  <2>2. Place(x) # Place(y)
    BY <2>1, RowsDistinct, Zenon DEF Place
  <2> QED BY <2>2, Zenon DEF x, y
<1> QED BY <1>1, <1>2, <1>3, Zenon

(* A frame in flight ends before the one being copied begins, and the copy *)
(* ends before the arena comes round to it.                                *)
LEMMA FramesApart ==
    ASSUME NEW tail \in Nat, NEW head \in Nat, NEW cap \in Nat,
           NEW a \in Nat, NEW l \in Nat, NEW i \in 0 .. l - 1,
           NEW b \in Nat, NEW m \in Nat, NEW j \in 0 .. m - 1,
           tail <= a, a + l <= head, head <= b, b + m <= tail + cap
    PROVE  a + i < b + j /\ b + j < (a + i) + cap
OBVIOUS

(* The rows of a frame that does not wrap are places of the arena. *)
LEMMA FrameFits ==
    ASSUME NEW cap \in Nat, NEW p \in 0 .. cap - 1, NEW l \in Nat,
           NEW i \in 0 .. l - 1, p + l <= cap
    PROVE  p + i \in 0 .. cap - 1 /\ p + i < cap /\ i \in Nat
OBVIOUS

(* onDepth() writes only to places that no event in flight points to. *)
LEMMA CopyKeepsRows ==
    ASSUME OrderInv, RowInv, onDepthCopy
    PROVE  RowInv'
<1> USE DEF ownerVars, ringVars, arenaVars, flagVars, workerVars, sinkVars
<1>1. /\ pc = "copy" /\ pc' = "publish" /\ rowHead_' = reserved + FrameRows
      /\ UNCHANGED <<reserved, slots_, head_, tail_, rowTail_, failed_, workerPc,
                     event, committed>>
      /\ rows_' = [i \in DOMAIN rows_ |->
                    IF i - Place(reserved) \in 0 .. FrameRows - 1
                    THEN Current ELSE rows_[i]]
  BY Zenon DEF onDepthCopy
<1>2. /\ rowHead_ \in Nat /\ rowTail_ \in Nat /\ rowTail_ <= rowHead_
      /\ reserved \in Nat /\ rowHead_ <= reserved /\ IsDepth(Current)
      /\ reserved + FrameRows <= rowTail_ + RowCapacity
      /\ Place(reserved) + FrameRows <= RowCapacity
      /\ Current \in Nat \ {0} /\ DOMAIN rows_ = 0 .. RowCapacity - 1
  BY <1>1, Zenon DEF RowInv, ArenaType, HookInv, Hooks
<1>3. FrameRows \in Nat /\ RowCapacity \in Nat \ {0}
      /\ Place(reserved) \in 0 .. RowCapacity - 1
  <2>1. Current \in 1 .. Len(committed) /\ committed \in Seq(Commit)
    BY <1>2 DEF Current, OrderInv, OrderType
  <2>2. FrameRows \in Nat
    BY <2>1, LevelsType, Zenon DEF FrameRows
  <2> QED BY <1>2, <2>2, CapacityType, PlaceType, Zenon
<1>4. InHand' = InHand /\ Queued' = Queued /\ \A i : Position(i)' = Position(i)
      /\ Current' = Current /\ FrameRows' = FrameRows
      /\ \A n : IsDepth(n)' = IsDepth(n)
  BY <1>1, Zenon DEF InHand, Queued, Position, Current, IsDepth, FrameRows
<1>5. ArenaType'
  BY <1>1, <1>2, <1>3 DEF RowInv, ArenaType
<1>6. \A i \in 0 .. FrameRows - 1 : rows_'[Place(reserved) + i] = Current
  BY <1>1, <1>2, <1>3
<1>7. HookInv'
  <2>1. IsDepth(Current)'
    BY <1>1, <1>2, Zenon DEF IsDepth, Current
  <2>2. rowTail_' <= reserved' /\ Current' \in Nat \ {0}
    <3>1. rowTail_ <= reserved
      BY <1>2
    <3> QED BY <1>1, <1>2, <1>4, <3>1, Zenon
  <2>3. rowHead_' = reserved' + FrameRows' /\ Place(reserved)' + FrameRows' <= RowCapacity
    BY <1>1, <1>2, <1>4, Zenon DEF Place
  <2>4. \A i \in 0 .. FrameRows' - 1 : rows_'[Place(reserved)' + i] = Current'
    BY <1>1, <1>4, <1>6, Zenon DEF Place
  <2>5. pc' = "publish"
    BY <1>1, Zenon
  <2> QED BY <2>1, <2>2, <2>3, <2>4, <2>5, Zenon DEF HookInv
<1>8. ASSUME NEW e, HoldsRows(e), e.first \in Nat, e.rowEnd \in Nat
      PROVE  HoldsRows(e)'
  <2>1. e.number \in 1 .. Current
    BY <1>8, Zenon DEF HoldsRows
  <2>2. committed[e.number].levels \in Nat
    BY <2>1, LevelsType, Zenon DEF Current, OrderInv, OrderType
  <2>3. ASSUME IsDepth(e.number), NEW i \in 0 .. committed[e.number].levels - 1
        PROVE  rows_'[Place(e.first) + i] = e.number
    <3>1. /\ rows_[Place(e.first) + i] = e.number
          /\ Place(e.first) + committed[e.number].levels <= RowCapacity
          /\ e.first + committed[e.number].levels <= rowHead_
          /\ rowTail_ <= e.first
      BY <1>8, <2>3, Zenon DEF HoldsRows
    <3>2. Place(e.first) \in 0 .. RowCapacity - 1
      BY <1>8, PlaceType, Zenon
    <3>3. (Place(e.first) + i) - Place(reserved)
              \notin 0 .. FrameRows - 1
      <4> SUFFICES ASSUME NEW j \in 0 .. FrameRows - 1,
                          (Place(e.first) + i) - Place(reserved) = j
                   PROVE  FALSE
        BY Zenon
      <4>1. Place(e.first) + i # Place(reserved) + j
        <5>1. i \in Nat /\ j \in Nat /\ e.first \in Nat /\ reserved \in Nat
          BY <1>2, <1>3, <1>8, <2>2
        <5>2. e.first + i < reserved + j
              /\ reserved + j < (e.first + i) + RowCapacity
          <6>1. RowCapacity \in Nat
            BY <1>3
          <6>2. /\ rowTail_ \in Nat /\ rowHead_ \in Nat /\ FrameRows \in Nat
                /\ rowTail_ <= e.first /\ rowHead_ <= reserved
                /\ e.first + committed[e.number].levels <= rowHead_
                /\ reserved + FrameRows <= rowTail_ + RowCapacity
            BY <1>2, <1>3, <3>1, Zenon
          <6> QED BY <2>2, <5>1, <6>1, <6>2, FramesApart
        <5>3. Place(e.first) + i < RowCapacity /\ Place(reserved) + j < RowCapacity
          <6>1. RowCapacity \in Nat
            BY <1>3
          <6> QED BY <1>2, <1>3, <2>2, <3>1, <3>2, <6>1, FrameFits, Zenon
        <5> QED BY <5>1, <5>2, <5>3, PlacesDistinct, Zenon
      <4> QED BY <1>3, <2>2, <3>2, <4>1
    <3>4. Place(e.first) + i \in DOMAIN rows_
      <4>1. RowCapacity \in Nat
        BY <1>3
      <4> QED BY <1>2, <2>2, <3>1, <3>2, <4>1, FrameFits, Zenon
    <3> QED BY <1>1, <3>1, <3>3, <3>4, Zenon
  <2>4. e.rowEnd <= rowHead_'
    BY <1>1, <1>2, <1>3, <1>8 DEF HoldsRows
  <2> QED BY <1>1, <1>4, <1>8, <2>3, <2>4, Zenon DEF HoldsRows
<1>9. QueueInv'
  <2>1. InHand' => HoldsRows(event)'
    <3>1. InHand => HoldsRows(event) /\ event.first \in Nat /\ event.rowEnd \in Nat
      BY Zenon DEF RowInv, QueueInv, ArenaType
    <3>2. \A e : e = event /\ HoldsRows(e)' => HoldsRows(event)'
      BY <1>1, Zenon DEF HoldsRows, IsDepth
    <3> QED BY <1>4, <1>8, <3>1, <3>2, Zenon
  <2>2. \A i \in Queued' : HoldsRows(slots_[i])'
    <3> SUFFICES ASSUME NEW i \in Queued PROVE HoldsRows(slots_[i])'
      BY <1>4, Zenon
    <3>1. HoldsRows(slots_[i]) /\ slots_[i].first \in Nat
          /\ slots_[i].rowEnd \in Nat
      BY Zenon DEF RowInv, QueueInv, ArenaType, Queued, Slots
    <3>2. \A e : e = slots_[i] /\ HoldsRows(e)' => HoldsRows(slots_[i])'
      BY <1>1, Zenon DEF HoldsRows, IsDepth
    <3> QED BY <1>8, <3>1, <3>2, Zenon
  <2> QED BY <1>1, <1>4, <2>1, <2>2, Zenon DEF RowInv, QueueInv, Hooks
<1>10. BusyInv'
  BY <1>1, <1>2, <1>4, Zenon DEF BusyInv, Idle
<1> QED BY <1>5, <1>7, <1>9, <1>10, Zenon DEF RowInv

LEMMA PushKeepsRows ==
    ASSUME OrderInv, RowInv, tryPush
    PROVE  RowInv'
<1> USE DEF ownerVars, ringVars, arenaVars, flagVars, workerVars, sinkVars
<1>1. CASE pc' = "iterate" /\ failed_' /\ slots_' = slots_
  <2>1. RowsLeft
    BY <1>1, Zenon DEF tryPush, RowsLeft, InHand
  <2> QED BY <1>1, <2>1, MarketLeavesRows, Zenon DEF Hooks
<1> DEFINE new == [number |-> Current, first |-> reserved,
                   rowEnd |-> IF IsDepth(Current) THEN rowHead_ ELSE reserved]
<1>2. CASE pc' = "pushed" /\ slots_' = [slots_ EXCEPT ![head_] = new]
           /\ UNCHANGED failed_
  <2>1. /\ pc = "push"
        /\ UNCHANGED <<reserved, head_, tail_, rows_, rowHead_, rowTail_,
                       workerPc, event, committed>>
    BY Zenon DEF tryPush
  <2>2. head_ \in Slots /\ tail_ \in Slots /\ slots_ = [i \in Slots |-> slots_[i]]
    BY Zenon DEF OrderInv, OrderType
  <2>3. reserved \in Nat /\ rowHead_ \in Nat
    BY Zenon DEF RowInv, ArenaType
  <2>4. new.first = reserved /\ new.rowEnd = rowHead_
    BY <2>1, Zenon DEF RowInv, HookInv
  <2> HIDE DEF new
  <2>5. slots_'[head_] = new /\ \A i \in Slots \ {head_} : slots_'[i] = slots_[i]
    BY <1>2, <2>2, Zenon
  <2>6. InHand' = InHand /\ Queued' = Queued /\ \A i : Position(i)' = Position(i)
    BY <2>1, Zenon DEF InHand, Queued, Position
  <2>7. \A i \in Queued : i \in Slots \ {head_}
    BY <2>2, RingAssumption DEF Queued, Slots, Position
  <2>8. ArenaType'
    BY <2>1, <2>3, <2>4, <2>5, Zenon DEF RowInv, ArenaType
  <2>9. HookInv'
    <3>1. /\ Current' = Current /\ FrameRows' = FrameRows
          /\ IsDepth(Current)' = IsDepth(Current)
      BY <2>1, Zenon DEF Current, FrameRows, IsDepth
    <3>2. slots_'[head_'].first = reserved' /\ slots_'[head_'].rowEnd = rowHead_'
      BY <2>1, <2>4, <2>5, Zenon
    <3> QED BY <1>2, <2>1, <3>1, <3>2, Zenon DEF RowInv, HookInv, Hooks
  <2>10. \A i \in Queued : slots_'[i] = slots_[i]
    BY <2>5, <2>7, Zenon
  <2>11. QueueInv'
    <3>1. InHand' => HoldsRows(event)'
      BY <2>1, <2>6, Zenon DEF RowInv, QueueInv, HoldsRows, IsDepth, Current
    <3>2. \A i \in Queued' : HoldsRows(slots_[i])'
      BY <2>1, <2>6, <2>10 DEF RowInv, QueueInv, HoldsRows, IsDepth, Current
    <3> QED BY <1>2, <2>1, <2>6, <2>10, <3>1, <3>2, Zenon DEF RowInv, QueueInv, Hooks
  <2>12. BusyInv'
    <3>1. Idle' => Idle
      BY <1>2, <2>1, Zenon DEF Idle, IsDepth, Current
    <3> QED BY <2>1, <2>6, <2>10, <3>1, Zenon DEF RowInv, BusyInv, IsDepth
  <2> QED BY <2>8, <2>9, <2>11, <2>12, Zenon DEF RowInv
<1> QED BY <1>1, <1>2, Zenon DEF tryPush, HookLoses, lost

LEMMA PushHeadKeepsRows ==
    ASSUME OrderInv, RowInv, tryPushHead
    PROVE  RowInv'
<1> USE RingAssumption
        DEF ownerVars, ringVars, arenaVars, flagVars, workerVars, sinkVars
<1>1. /\ pc = "pushed" /\ pc' = "iterate" /\ head_' = NextSlot(head_)
      /\ UNCHANGED <<reserved, slots_, tail_, rows_, rowHead_, rowTail_, failed_,
                     workerPc, event, committed>>
  BY Zenon DEF tryPushHead
<1>2. head_ \in Slots /\ tail_ \in Slots /\ NextSlot(head_) # tail_
      /\ slots_[head_].number = Current
  BY <1>1, Zenon DEF OrderInv, OrderType, RingInv, RingFull
<1>3. InHand' = InHand /\ \A i : Position(i)' = Position(i)
      /\ \A e : HoldsRows(e)' = HoldsRows(e)
  BY <1>1, Zenon DEF InHand, Position, HoldsRows, IsDepth, Current
<1>4. Queued' = Queued \cup {head_} /\ \A i \in Queued : Position(i) < Position(head_)
  <2>1. Position(head_') = Position(head_) + 1 /\ head_' \in Slots
    BY <1>1, <1>2, NextSlotValue DEF Position, Slots
  <2>2. \A i \in Slots : Position(i) \in Nat
    BY <1>2 DEF Position, Slots
  <2>3. \A i \in Slots : Position(i) = Position(head_) => i = head_
    BY <1>2 DEF Position, Slots
  <2>4. \A i \in Slots : i \in Queued' <=> Position(i) < Position(head_')
    BY <1>1, <1>3, Zenon DEF Queued, Slots, Position
  <2>5. \A i \in Slots : i \in Queued' <=> i \in Queued \/ i = head_
    BY <1>2, <2>1, <2>2, <2>3, <2>4 DEF Queued, Slots
  <2>6. Queued \subseteq Slots /\ Queued' \subseteq Slots
    BY Zenon DEF Queued, Slots
  <2> QED BY <1>2, <2>5, <2>6, Zenon DEF Queued
<1>5. ArenaType' /\ HookInv'
  BY <1>1, Zenon DEF RowInv, ArenaType, HookInv, Hooks
<1>6. HoldsRows(slots_[head_]) /\ slots_[head_].first = reserved
      /\ slots_[head_].rowEnd = rowHead_
  <2>1. Current \in 1 .. Current
    BY <1>1 DEF RowInv, HookInv, Hooks
  <2>2. IF IsDepth(Current) THEN FrameRows \in Nat ELSE TRUE
    BY <2>1, LevelsType, Zenon DEF Current, FrameRows, OrderInv, OrderType
  <2>3. /\ slots_[head_].first = reserved /\ slots_[head_].rowEnd = rowHead_
        /\ reserved \in Nat /\ rowHead_ \in Nat /\ rowTail_ <= reserved
    BY <1>1, Zenon DEF RowInv, HookInv, Hooks, ArenaType
  <2>4. reserved <= rowHead_
    BY <1>1, <2>2, <2>3 DEF RowInv, HookInv
  <2>5. IsDepth(Current) =>
            /\ rowHead_ = reserved + committed[Current].levels
            /\ Place(reserved) + committed[Current].levels <= RowCapacity
            /\ \A i \in 0 .. committed[Current].levels - 1 :
                   rows_[Place(reserved) + i] = Current
    BY <1>1, Zenon DEF RowInv, HookInv, FrameRows
  <2> QED BY <1>2, <2>1, <2>3, <2>4, <2>5 DEF HoldsRows
<1>7. QueueInv'
  <2>1. InHand' => HoldsRows(event)'
    BY <1>1, <1>3, Zenon DEF RowInv, QueueInv, HoldsRows, IsDepth, Current
  <2>2. \A i \in Queued' : HoldsRows(slots_[i])'
    BY <1>1, <1>4, <1>6, Zenon DEF RowInv, QueueInv, HoldsRows, IsDepth, Current
  <2>3. \A i \in Queued' : InHand' => event'.rowEnd <= slots_'[i].first
    BY <1>1, <1>3, <1>4, <1>6, Zenon DEF RowInv, QueueInv, Hooks
  <2>4. \A i, j \in Queued' : Position(i)' < Position(j)' =>
            slots_'[i].rowEnd <= slots_'[j].first
    <3> SUFFICES ASSUME NEW i \in Queued', NEW j \in Queued',
                        Position(i) < Position(j)
                 PROVE  slots_[i].rowEnd <= slots_[j].first
      BY <1>1, <1>3, Zenon
    <3>1. i \in Queued
      <4> SUFFICES ASSUME i = head_ PROVE FALSE
        BY <1>4, Zenon
      <4> QED BY <1>2, <1>4 DEF Position, Slots, Queued
    <3>2. CASE j \in Queued
      BY <3>1, <3>2, Zenon DEF RowInv, QueueInv
    <3>3. CASE j = head_
      BY <1>1, <1>6, <3>1, <3>3, Zenon DEF RowInv, QueueInv, Hooks
    <3> QED BY <1>4, <3>2, <3>3, Zenon
  <2>5. pc' \notin Hooks
    BY <1>1, Zenon DEF Hooks
  <2> QED BY <2>1, <2>2, <2>3, <2>4, <2>5, Zenon DEF QueueInv
<1>8. BusyInv'
  <2>1. CASE IsDepth(Current)
    BY <1>1, <1>2, <1>4, <1>6, <2>1, Zenon DEF BusyInv, IsDepth
  <2>2. CASE ~IsDepth(Current)
    <3>1. Idle' => Idle
      BY <1>1, <2>2, Zenon DEF Idle
    <3> QED BY <1>1, <1>3, <1>4, <3>1, Zenon DEF RowInv, BusyInv, IsDepth
  <2> QED BY <2>1, <2>2, Zenon
<1> QED BY <1>5, <1>7, <1>8, Zenon DEF RowInv

LEMMA PopTailKeepsRows ==
    ASSUME OrderInv, RowInv, tryPopTail
    PROVE  RowInv'
<1> USE DEF ownerVars, ringVars, arenaVars, flagVars, workerVars, sinkVars
<1>1. /\ workerPc = "popped" /\ workerPc' = "taken" /\ tail_' = NextSlot(tail_)
      /\ UNCHANGED <<pc, reserved, slots_, head_, rows_, rowHead_, rowTail_,
                     failed_, event, committed>>
  BY Zenon DEF tryPopTail
<1>2. /\ tail_ # head_ /\ event = slots_[tail_]
      /\ head_ \in Slots /\ tail_ \in Slots
  BY <1>1, Zenon DEF OrderInv, OrderType, RingInv
<1>3. /\ \A i \in Slots \ {tail_} : Position(i)' = Position(i) - 1
      /\ Queued' = Queued \ {tail_}
  BY <1>1, <1>2, TailMoves, Zenon DEF OrderInv
<1>4. /\ tail_ \in Queued /\ Queued \subseteq Slots
      /\ \A i \in Slots \ {tail_} : Position(tail_) < Position(i)
      /\ \A i \in Slots : Position(i) \in Nat
  BY <1>2, RingAssumption DEF Queued, Position, Slots
<1>5. InHand' /\ ~InHand
  BY <1>1, Zenon DEF InHand
<1>6. ArenaType'
  BY <1>1, Zenon DEF RowInv, ArenaType
<1>7. HookInv'
  BY <1>1, Zenon DEF RowInv, HookInv, IsDepth, Current, FrameRows
<1>8. QueueInv'
  <2>1. HoldsRows(event)'
    BY <1>1, <1>2, <1>4, Zenon DEF RowInv, QueueInv, HoldsRows, IsDepth, Current
  <2>2. \A i \in Queued' : HoldsRows(slots_[i])'
    BY <1>1, <1>3, Zenon DEF RowInv, QueueInv, HoldsRows, IsDepth, Current
  <2>3. \A i \in Queued' : event'.rowEnd <= slots_'[i].first
    BY <1>1, <1>2, <1>3, <1>4, Zenon DEF RowInv, QueueInv
  <2>4. \A i, j \in Queued' : Position(i)' < Position(j)' =>
            slots_'[i].rowEnd <= slots_'[j].first
    <3> SUFFICES ASSUME NEW i \in Queued \ {tail_}, NEW j \in Queued \ {tail_},
                        Position(i)' < Position(j)'
                 PROVE  slots_[i].rowEnd <= slots_[j].first
      BY <1>1, <1>3, Zenon
    <3>1. Position(i) < Position(j)
      BY <1>3, <1>4
    <3> QED BY <3>1, Zenon DEF RowInv, QueueInv
  <2>5. pc' \in Hooks =>
            /\ event'.rowEnd <= reserved'
            /\ \A i \in Queued' : slots_'[i].rowEnd <= reserved'
    BY <1>1, <1>2, <1>3, <1>4, Zenon DEF RowInv, QueueInv
  <2> QED BY <2>1, <2>2, <2>3, <2>4, <2>5, Zenon DEF QueueInv
<1>9. BusyInv'
  <2> SUFFICES ASSUME Idle', rowTail_ # rowHead_
               PROVE  \/ IsDepth(event.number) /\ event.rowEnd = rowHead_
                      \/ \E i \in Queued' : /\ IsDepth(slots_[i].number)
                                            /\ slots_[i].rowEnd = rowHead_
    BY <1>1, <1>5, Zenon DEF BusyInv, IsDepth
  <2>1. Idle
    BY <1>1, Zenon DEF Idle, IsDepth, Current
  <2>2. PICK i \in Queued : /\ IsDepth(slots_[i].number)
                            /\ slots_[i].rowEnd = rowHead_
    BY <1>5, <2>1, Zenon DEF RowInv, BusyInv
  <2> QED BY <1>2, <1>3, <2>2, Zenon
<1> QED BY <1>6, <1>7, <1>8, <1>9, Zenon DEF RowInv

(* Giving rows back moves the tail over rows of no other event. *)
LEMMA ReleaseKeepsRows ==
    ASSUME OrderInv, RowInv, drainWorkerRelease
    PROVE  RowInv'
<1> USE DEF ownerVars, ringVars, arenaVars, flagVars, workerVars, sinkVars
<1>1. /\ workerPc = "release" /\ workerPc' = "poll"
      /\ rowTail_' = IF IsDepth(event.number) THEN event.rowEnd ELSE rowTail_
      /\ UNCHANGED <<pc, reserved, slots_, head_, tail_, rows_, rowHead_,
                     failed_, event, committed>>
  BY Zenon DEF drainWorkerRelease
<1>2. InHand /\ ~InHand'
  BY <1>1, Zenon DEF InHand
<1>3. Queued' = Queued /\ \A i : Position(i)' = Position(i)
  BY <1>1, Zenon DEF Queued, Position
<1>4. /\ rowTail_ \in Nat /\ rowHead_ \in Nat /\ RowCapacity \in Nat
      /\ event.first \in Nat /\ event.rowEnd \in Nat
      /\ rowTail_ <= event.first /\ event.first <= event.rowEnd
      /\ event.rowEnd <= rowHead_
  BY <1>2, CapacityType, Zenon DEF RowInv, QueueInv, HoldsRows, ArenaType
<1>5. rowTail_' \in Nat /\ rowTail_ <= rowTail_' /\ rowTail_' <= rowHead_
  BY <1>1, <1>4
<1>6. ArenaType'
  BY <1>1, <1>4, <1>5 DEF RowInv, ArenaType
<1>7. pc \in Hooks => rowTail_' <= reserved
  BY <1>1, <1>2, Zenon DEF RowInv, QueueInv, HookInv
<1>8. HookInv'
  <2>1. /\ Current' = Current /\ FrameRows' = FrameRows
        /\ IsDepth(Current)' = IsDepth(Current)
    BY <1>1, Zenon DEF Current, FrameRows, IsDepth
  <2>2. pc = "copy" => reserved + FrameRows <= rowTail_' + RowCapacity
    <3> SUFFICES ASSUME pc = "copy"
                 PROVE  reserved + FrameRows <= rowTail_' + RowCapacity
      BY Zenon
    <3>1. Current \in 1 .. Len(committed) /\ committed \in Seq(Commit)
      BY DEF RowInv, HookInv, Hooks, Current, OrderInv, OrderType
    <3>2. FrameRows \in Nat /\ reserved \in Nat
      BY <3>1, LevelsType, Zenon DEF FrameRows, RowInv, ArenaType
    <3>3. reserved + FrameRows <= rowTail_ + RowCapacity
      BY Zenon DEF RowInv, HookInv
    <3>4. RowCapacity \in Nat /\ rowTail_ \in Nat
      BY <1>4, Zenon
    <3>5. rowTail_' \in Nat /\ rowTail_ <= rowTail_'
      BY <1>5, Zenon
    <3>6. reserved + FrameRows \in Nat
      BY <3>2
    <3>7. \A a, b, c, n \in Nat : a <= b /\ n <= a + c => n <= b + c
      OBVIOUS
    <3> QED BY <3>3, <3>4, <3>5, <3>6, <3>7, Zenon
  <2> QED BY <1>1, <1>7, <2>1, <2>2, Zenon DEF RowInv, HookInv
<1>9. QueueInv'
  <2>1. ASSUME NEW i \in Queued PROVE HoldsRows(slots_[i])'
    <3>1. HoldsRows(slots_[i]) /\ event.rowEnd <= slots_[i].first
      BY <1>2, Zenon DEF RowInv, QueueInv
    <3>2. rowTail_' <= slots_[i].first
      BY <1>1, <3>1, Zenon DEF HoldsRows
    <3>3. \A e : HoldsRows(e) /\ rowTail_' <= e.first => HoldsRows(e)'
      BY <1>1, Zenon DEF HoldsRows, IsDepth, Current
    <3>4. \A e : e = slots_[i] /\ HoldsRows(e)' => HoldsRows(slots_[i])'
      BY <1>1, Zenon DEF HoldsRows, IsDepth
    <3> QED BY <3>1, <3>2, <3>3, <3>4, Zenon
  <2> QED BY <1>1, <1>2, <1>3, <2>1, Zenon DEF RowInv, QueueInv
<1>10. BusyInv'
  <2> SUFFICES ASSUME Idle', rowTail_' # rowHead_
               PROVE  \E i \in Queued : /\ IsDepth(slots_[i].number)
                                        /\ slots_[i].rowEnd = rowHead_
    BY <1>1, <1>3, Zenon DEF BusyInv, IsDepth
  <2>1. Idle
    BY <1>1, Zenon DEF Idle, IsDepth, Current
  <2>2. rowTail_ # rowHead_
    BY <1>4, <1>5
  <2>3. ~ (IsDepth(event.number) /\ event.rowEnd = rowHead_)
    BY <1>1, Zenon
  <2> QED BY <2>1, <2>2, <2>3, Zenon DEF RowInv, BusyInv
<1> QED BY <1>6, <1>8, <1>9, <1>10, Zenon DEF RowInv

LEMMA RowStep == OrderInv /\ RowInv /\ [Next]_vars => RowInv'
<1> SUFFICES ASSUME OrderInv, RowInv, [Next]_vars PROVE RowInv'
  BY Zenon
<1> USE DEF ownerVars, ringVars, arenaVars, flagVars, workerVars, sinkVars
<1>1. CASE PollBegin
  <2>1. RowsLeft
    BY <1>1, Zenon DEF PollBegin, RowsLeft, InHand
  <2> QED BY <1>1, <2>1, MarketLeavesRows, Zenon DEF PollBegin, Hooks
<1>2. ASSUME NEW ready, NEW connected, PollEnd(ready, connected) PROVE RowInv'
  <2>1. RowsLeft
    BY <1>2, Zenon DEF PollEnd, RowsLeft, InHand
  <2> QED BY <1>2, <2>1, MarketLeavesRows, Zenon DEF PollEnd, Hooks
<1>3. CASE shutdown
  <2>1. RowsLeft
    BY <1>3, Zenon DEF shutdown, RowsLeft, InHand
  <2> QED BY <1>3, <2>1, MarketLeavesRows, Zenon DEF shutdown, Hooks
<1>4. CASE shutdownJoined
  <2>1. RowsLeft
    BY <1>4, Zenon DEF shutdownJoined, RowsLeft, InHand
  <2> QED BY <1>4, <2>1, MarketLeavesRows, Zenon DEF shutdownJoined, Hooks
<1>5. ASSUME NEW k, NEW eligible, NEW outcome,
             finalizeSession(k, eligible, outcome)
      PROVE  RowInv'
  <2>1. RowsLeft
    BY <1>5, Zenon DEF finalizeSession, RowsLeft, InHand
  <2> QED BY <1>5, <2>1, MarketLeavesRows, Zenon DEF finalizeSession, Hooks
<1>6. CASE Hook
  BY <1>6, CommitKeepsRows, CheckKeepsRows, ReserveKeepsRows, CopyKeepsRows,
     PushKeepsRows, PushHeadKeepsRows, Zenon DEF Hook
<1>7. CASE tryPop
  <2>1. RowsLeft
    BY <1>7 DEF tryPop, RowsLeft, InHand, OrderInv, OrderType
  <2> QED BY <1>7, <2>1, DrainLeavesRows, Zenon DEF tryPop
<1>8. CASE drainWorkerStop
  <2>1. RowsLeft
    BY <1>8 DEF drainWorkerStop, RowsLeft, InHand
  <2> QED BY <1>8, <2>1, DrainLeavesRows, Zenon DEF drainWorkerStop
<1>9. CASE drainWorkerCheck
  <2>1. RowsLeft
    BY <1>9 DEF drainWorkerCheck, RowsLeft, InHand
  <2> QED BY <1>9, <2>1, DrainLeavesRows, Zenon DEF drainWorkerCheck, lost
<1>10. ASSUME NEW ok, consume(ok) PROVE RowInv'
  <2>1. RowsLeft
    BY <1>10 DEF consume, RowsLeft, InHand
  <2> QED BY <1>10, <2>1, DrainLeavesRows DEF consume, lost
<1>11. CASE account
  <2>1. RowsLeft
    BY <1>11 DEF account, RowsLeft, InHand
  <2> QED BY <1>11, <2>1, DrainLeavesRows, Zenon DEF account
<1>12. CASE noteExternalChannelError
  <2>1. RowsLeft
    BY <1>12 DEF noteExternalChannelError, RowsLeft, InHand
  <2> QED BY <1>12, <2>1, DrainLeavesRows, Zenon DEF noteExternalChannelError
<1>13. CASE tryPopTail
  BY <1>13, PopTailKeepsRows, Zenon
<1>14. CASE drainWorkerRelease
  BY <1>14, ReleaseKeepsRows, Zenon
<1>15. ASSUME NEW refreshed, refreshManifests(refreshed) PROVE RowInv'
  <2>1. RowsLeft
    BY <1>15, Zenon DEF refreshManifests, RowsLeft, InHand
  <2> QED BY <1>15, <2>1, DrainLeavesRows, Zenon DEF refreshManifests
<1>16. CASE UNCHANGED vars
  <2>1. RowsLeft
    BY <1>16, Zenon DEF vars, RowsLeft, InHand
  <2> QED BY <1>16, <2>1, DrainLeavesRows, Zenon DEF vars
<1>17. CASE Poll \/ Finalize
  BY <1>17, <1>1, <1>2, <1>3, <1>4, <1>5, <1>6, Zenon DEF Poll, Finalize
<1>18. CASE Drain
  BY <1>18, <1>7, <1>8, <1>9, <1>10, <1>11, <1>12, <1>13, <1>14, Zenon DEF Drain
<1> QED BY <1>15, <1>16, <1>17, <1>18, Zenon DEF Next

LEMMA RowInvariant == Spec => [](OrderInv /\ RowInv)
<1>1. Init => OrderInv /\ RowInv
  BY OrderInit, RowInit, Zenon
<1>2. (OrderInv /\ RowInv) /\ [Next]_vars => (OrderInv /\ RowInv)'
  BY OrderStep, RowStep, Zenon
<1> QED BY <1>1, <1>2, PTL DEF Spec

(* The rows an event points to are those of its frame until the storage    *)
(* thread gives them back, for every size of ring and arena: onDepth()     *)
(* never writes over rows that consume() has still to read.                *)
THEOREM RowsNeverOverwritten == Spec => []RowsIntact
<1>1. OrderInv /\ RowInv => RowsIntact
  <2> SUFFICES ASSUME RowInv, NEW e \in Outstanding, IsDepth(e.number),
                      NEW i \in 0 .. committed[e.number].levels - 1
               PROVE  rows_[Place(e.first) + i] = e.number
    BY Zenon DEF RowsIntact
  <2>1. HoldsRows(e)
    BY Zenon DEF Outstanding, RowInv, QueueInv, InHand
  <2> QED BY <2>1, Zenon DEF HoldsRows
<1> QED BY <1>1, RowInvariant, PTL

(* A frame within the level envelope that finds no room finds the rows of  *)
(* an earlier frame in the arena, for every envelope: configure() sizes    *)
(* the arena so that the rows onDepth() skips at its end cost nothing.     *)
THEOREM RoomUnlessBusy == Spec => []ArenaFullOnlyWhenBusy
<1>1. OrderInv /\ RowInv => ArenaFullOnlyWhenBusy
  <2> DEFINE begin == ArenaBegin(rowHead_, FrameRows)
  <2> SUFFICES ASSUME OrderInv, RowInv, pc = "reserve",
                      FrameRows <= MaximumDepthLevels,
                      ArenaFull(begin + FrameRows)
               PROVE  \E e \in Outstanding : IsDepth(e.number)
    BY Zenon DEF ArenaFullOnlyWhenBusy
  <2>1. Current \in 1 .. Len(committed) /\ committed \in Seq(Commit)
    BY DEF RowInv, HookInv, Hooks, Current, OrderInv, OrderType
  <2>2. FrameRows \in Nat /\ rowHead_ \in Nat /\ rowTail_ \in Nat
        /\ FrameRows <= RowCapacity
    BY <2>1, LevelsType, Zenon DEF FrameRows, RowInv, ArenaType, HookInv
  <2>3. begin \in Nat /\ rowHead_ <= begin
        /\ (FrameRows > 0 => begin < rowHead_ + FrameRows)
    BY <2>2, ArenaBeginPlace, Zenon
  <2>4. FrameRows = 0 => begin = rowHead_
    BY <2>2, PlaceType, CapacityType DEF ArenaBegin
  <2> HIDE DEF begin
  <2>5. rowTail_ # rowHead_
    BY <2>2, <2>3, <2>4, CapacityType DEF ArenaFull
  <2>6. Idle
    BY Zenon DEF Idle
  <2> QED BY <2>5, <2>6, Zenon DEF RowInv, BusyInv, Outstanding, InHand
<1> QED BY <1>1, RowInvariant, PTL

-----------------------------------------------------------------------------
(* Types, for which the row numbers must stay below their limit. *)

LimitInv ==
    /\ Current <= MaxCommits
    /\ pc = "reserve" => rowHead_ + RowCapacity + FrameRows <= RowLimit
    /\ pc = "copy" => reserved + FrameRows <= RowLimit

(* What each phase of the market thread leaves to be said.  After the join *)
(* nobody counts losses; sessions are open until then, and those of a      *)
(* capture that ended by itself are not closed as anything but incomplete. *)
Ended == pc \in {"finalize", "done"}
PhaseInv ==
    /\ Ended => workerPc = "exited" /\ \A s \in Source : lostBySource_[s] = 0
    /\ ~Ended => \A k \in Sink : /\ sessionStatus[k] # "closed"
                                 /\ ~manifest[k].exactReplayEligible
    /\ terminal => \A k \in Sink : sessionStatus[k] \in {"incomplete", "closed"}

TypeInv == TypeOK /\ LimitInv

LEMMA NotesType ==
    ASSUME NEW h \in Health
    PROVE  /\ RowNoted(h) \in Health /\ DropNoted(h) \in Health
           /\ ErrorNoted(h) \in Health /\ TerminalNoted(h) \in Health
           /\ \A n \in Nat : LossNoted(h, n) \in Health
           /\ \A c, r \in BOOLEAN : ConnectionNoted(h, c, r) \in Health
<1> USE DEF Health, HealthState
<1>0. h.rows + 1 \in Nat /\ h.dropped + 1 \in Nat
      /\ \A n \in Nat : h.dropped + n \in Nat
  OBVIOUS
<1>1. RowNoted(h) \in Health /\ DropNoted(h) \in Health
  BY <1>0, Zenon DEF RowNoted, DropNoted
<1>2. ErrorNoted(h) \in Health /\ TerminalNoted(h) \in Health
  BY Zenon DEF ErrorNoted, TerminalNoted
<1>3. \A n \in Nat : LossNoted(h, n) \in Health
  BY <1>0, Zenon DEF LossNoted
<1>4. \A c, r \in BOOLEAN : ConnectionNoted(h, c, r) \in Health
  BY Zenon DEF ConnectionNoted
<1> QED BY <1>1, <1>2, <1>3, <1>4, Zenon

LEMMA TypeInit == Init => TypeInv
<1> SUFFICES ASSUME Init PROVE TypeInv
  BY Zenon
<1> USE SourceAssumption, RingAssumption, ArenaAssumption, CommitAssumption,
        CapacityType
<1>1. committed \in Seq(Commit) /\ recorded \in Seq(1 .. MaxCommits)
  <2>1. << >> \in Seq(Commit) /\ << >> \in Seq(1 .. MaxCommits)
    BY EmptyLog, Zenon
  <2> QED BY <2>1, Zenon DEF Init
<1>2. /\ slots_ \in [0 .. RingCapacity - 1 -> Event] /\ event \in Event
      /\ rows_ \in [0 .. RowCapacity - 1 -> 0 .. MaxCommits]
  BY DEF Init, Event
<1>3. /\ health \in [Source -> Health] /\ manifest \in [Sink -> Manifest]
      /\ sessionStatus \in [Sink -> {"recording", "incomplete", "closed"}]
      /\ lostBySource_ \in [Source -> Nat]
      /\ connection \in [Source -> {"unseen", "up", "down"}]
  BY Zenon DEF Init, Health, HealthState, Manifest
<1>4. /\ pc = "poll" /\ reserved = 0 /\ running = TRUE /\ terminal = FALSE
      /\ head_ = 0 /\ tail_ = 0 /\ rowHead_ = 0 /\ rowTail_ = 0
      /\ failed_ = FALSE /\ stopStorage_ = FALSE /\ workerPc = "poll"
      /\ Current = 0
  BY Zenon DEF Init, Current
<1>5. /\ 0 \in 0 .. RowLimit /\ 0 \in 0 .. RingCapacity - 1 /\ 0 \in 0 .. 0
  OBVIOUS
<1>6. TypeOK
  BY <1>1, <1>2, <1>3, <1>4, <1>5, Zenon DEF TypeOK
<1> QED BY <1>4, <1>6 DEF TypeInv, LimitInv

(* The parts of the type that one thread's steps may change. *)
OwnerType ==
    /\ pc \in {"poll", "iterate", "depth", "reserve", "copy", "publish",
               "push", "pushed", "join", "finalize", "done"}
    /\ reserved \in 0 .. RowLimit
    /\ running \in BOOLEAN /\ terminal \in BOOLEAN
    /\ connection \in [Source -> {"unseen", "up", "down"}]
    /\ stopStorage_ \in BOOLEAN
    /\ committed \in Seq(Commit)
RingType ==
    /\ slots_ \in [0 .. RingCapacity - 1 -> Event]
    /\ head_ \in 0 .. RingCapacity - 1 /\ tail_ \in 0 .. RingCapacity - 1
RowsType ==
    /\ rows_ \in [0 .. RowCapacity - 1 -> 0 .. MaxCommits]
    /\ rowHead_ \in 0 .. RowLimit /\ rowTail_ \in 0 .. rowHead_
FlagType == failed_ \in BOOLEAN /\ lostBySource_ \in [Source -> Nat]
WorkerType ==
    /\ workerPc \in {"poll", "empty", "popped", "taken", "consume", "account",
                     "note", "release", "exited"}
    /\ event \in Event
SinkType ==
    /\ health \in [Source -> Health]
    /\ sessionStatus \in [Sink -> {"recording", "incomplete", "closed"}]
    /\ manifest \in [Sink -> Manifest]
    /\ recorded \in Seq(1 .. MaxCommits)

LEMMA TypeParts ==
    TypeOK <=> /\ OwnerType /\ RingType /\ RowsType /\ FlagType
               /\ WorkerType /\ SinkType
BY Zenon DEF TypeOK, OwnerType, RingType, RowsType, FlagType, WorkerType, SinkType

LEMMA LostType ==
    ASSUME FlagType, NEW s, lost(s)
    PROVE  FlagType'
BY DEF FlagType, lost

LEMMA TerminalType ==
    ASSUME TypeOK, CaptureTerminal, UNCHANGED <<manifest, recorded>>
    PROVE  /\ running' \in BOOLEAN /\ terminal' \in BOOLEAN
           /\ connection' \in [Source -> {"unseen", "up", "down"}]
           /\ SinkType'
<1>1. health' \in [Source -> Health]
  BY NotesType, Zenon DEF CaptureTerminal, TypeOK
<1> QED BY <1>1, Zenon DEF CaptureTerminal, TypeOK, SinkType

LEMMA TypeStep ==
    OrderInv /\ RowInv /\ TypeInv /\ PhaseInv /\ [Next]_vars => TypeInv'
<1> SUFFICES ASSUME OrderInv, RowInv, TypeInv, PhaseInv, [Next]_vars
             PROVE  TypeInv'
  BY Zenon
<1> USE DEF ownerVars, ringVars, arenaVars, flagVars, workerVars, sinkVars
<1>0. /\ OwnerType /\ RingType /\ RowsType /\ FlagType /\ WorkerType /\ SinkType
      /\ TypeOK /\ LimitInv
  BY TypeParts, Zenon DEF TypeInv
<1> DEFINE Goal == /\ OwnerType' /\ RingType' /\ RowsType' /\ FlagType'
                   /\ WorkerType' /\ SinkType' /\ LimitInv'
<1>a. Goal => TypeInv'
  BY TypeParts, PTL DEF TypeInv
<1>1. CASE PollBegin
  <2>1. OwnerType' /\ SinkType'
    BY <1>0, <1>1, TerminalType, Zenon DEF PollBegin, OwnerType, SinkType
  <2>2. RingType' /\ RowsType' /\ FlagType' /\ WorkerType'
    BY <1>0, <1>1, Zenon DEF PollBegin, RingType, RowsType, FlagType, WorkerType
  <2>3. LimitInv'
    BY <1>0, <1>1, Zenon DEF PollBegin, LimitInv, Current, FrameRows
  <2> QED BY <2>1, <2>2, <2>3, <1>a, Zenon
<1>2. ASSUME NEW ready, NEW connected \in [Source -> BOOLEAN],
             PollEnd(ready, connected)
      PROVE  TypeInv'
  <2>1. CASE CaptureTerminal
    <3>1. OwnerType' /\ SinkType'
      BY <1>0, <1>2, <2>1, TerminalType DEF PollEnd, OwnerType, SinkType
    <3>2. RingType' /\ RowsType' /\ FlagType' /\ WorkerType'
      BY <1>0, <1>2, Zenon DEF PollEnd, RingType, RowsType, FlagType, WorkerType
    <3>3. LimitInv'
      BY <1>0, <1>2 DEF PollEnd, LimitInv, Current, FrameRows
    <3> QED BY <3>1, <3>2, <3>3, <1>a, Zenon
  <2>2. CASE sampleConnections(connected) /\ UNCHANGED <<running, terminal, sessionStatus>>
    <3>1. connection' \in [Source -> {"unseen", "up", "down"}]
      BY <2>2, Zenon DEF sampleConnections
    <3>2. health' \in [Source -> Health]
      <4>1. \A s \in Source : health[s] \in Health /\ connected[s] \in BOOLEAN
        BY <1>0, Zenon DEF SinkType
      <4>2. \A s \in Source : ConnectionNoted(health[s], connected[s],
                             connection[s] = "up" /\ ~connected[s]) \in Health
        BY <4>1, NotesType, Zenon
      <4> QED BY <2>2, <4>1, <4>2, Zenon DEF sampleConnections
    <3>3. OwnerType' /\ SinkType'
      BY <1>0, <1>2, <2>2, <3>1, <3>2 DEF PollEnd, OwnerType, SinkType
    <3>4. RingType' /\ RowsType' /\ FlagType' /\ WorkerType'
      BY <1>0, <1>2, Zenon DEF PollEnd, RingType, RowsType, FlagType, WorkerType
    <3>5. LimitInv'
      BY <1>0, <1>2, Zenon DEF PollEnd, LimitInv, Current, FrameRows
    <3> QED BY <3>3, <3>4, <3>5, <1>a, Zenon
  <2> QED BY <1>2, <2>1, <2>2, Zenon DEF PollEnd
<1>3. ASSUME NEW commit \in Commit, HookCommit(commit) PROVE TypeInv'
  <2>1. committed' \in Seq(Commit) /\ Current' = Current + 1
    BY <1>0, <1>3, AppendFacts, Zenon DEF HookCommit, OwnerType, Current
  <2>2. Current \in Nat /\ Current < MaxCommits
    BY <1>0, <1>3 DEF HookCommit, OwnerType, Current
  <2>3. OwnerType'
    BY <1>0, <1>3, <2>1, Zenon DEF HookCommit, OwnerType, RowsType
  <2>4. RingType' /\ RowsType' /\ FlagType' /\ WorkerType' /\ SinkType'
    BY <1>0, <1>3, Zenon DEF HookCommit, RingType, RowsType, FlagType, WorkerType, SinkType
  <2>5. LimitInv'
    BY <1>3, <2>1, <2>2, CommitAssumption DEF HookCommit, LimitInv
  <2> QED BY <2>3, <2>4, <2>5, <1>a, Zenon
<1>4. CASE onDepthCheck
  <2>1. OwnerType' /\ FlagType'
    BY <1>0, <1>4, LostType, Zenon DEF onDepthCheck, HookLoses, OwnerType, FlagType
  <2>2. RingType' /\ RowsType' /\ WorkerType' /\ SinkType'
    BY <1>0, <1>4, Zenon DEF onDepthCheck, RingType, RowsType, WorkerType, SinkType
  <2>3. FrameRows \in Nat /\ rowHead_ \in Nat /\ FrameRows' = FrameRows
        /\ Current' = Current
    <3>1. Current \in 1 .. Len(committed) /\ committed \in Seq(Commit)
      BY <1>0, <1>4 DEF onDepthCheck, RowInv, HookInv, Hooks, Current, OwnerType
    <3> QED BY <1>0, <1>4, <3>1, LevelsType
            DEF onDepthCheck, FrameRows, RowsType, Current
  <2>4. LimitInv'
    BY <1>0, <1>4, <2>3, CapacityType, ArenaAssumption
       DEF onDepthCheck, HookLoses, LimitInv
  <2> QED BY <2>1, <2>2, <2>4, <1>a, Zenon
<1>5. CASE onDepthReserve
  <2> DEFINE begin == ArenaBegin(rowHead_, FrameRows)
  <2>1. /\ FrameRows \in Nat /\ rowHead_ \in Nat /\ FrameRows' = FrameRows
        /\ Current' = Current /\ FrameRows <= RowCapacity
        /\ rowHead_ + RowCapacity + FrameRows <= RowLimit
    <3>1. Current \in 1 .. Len(committed) /\ committed \in Seq(Commit)
      BY <1>0, <1>5 DEF onDepthReserve, RowInv, HookInv, Hooks, Current, OwnerType
    <3> QED BY <1>0, <1>5, <3>1, LevelsType
            DEF onDepthReserve, FrameRows, RowsType, Current, RowInv, HookInv, LimitInv
  <2>2. begin \in Nat /\ begin <= rowHead_ + RowCapacity
    BY <2>1, PlaceType, CapacityType DEF ArenaBegin
  <2>3. begin + FrameRows <= RowLimit /\ begin \in 0 .. RowLimit
    BY <2>1, <2>2, CapacityType, ArenaAssumption
  <2> HIDE DEF begin
  <2>4. /\ pc' \in {"iterate", "copy"}
        /\ pc' = "copy" => reserved' = begin /\ UNCHANGED flagVars
        /\ pc' = "iterate" => UNCHANGED reserved /\ lost(committed[Current].source)
        /\ UNCHANGED <<ownerVars, stopStorage_, committed>>
    BY <1>5, Zenon DEF onDepthReserve, HookLoses, begin
  <2>5. OwnerType' /\ FlagType'
    BY <1>0, <2>3, <2>4, LostType, Zenon DEF OwnerType, FlagType
  <2>6. RingType' /\ RowsType' /\ WorkerType' /\ SinkType'
    BY <1>0, <1>5, Zenon DEF onDepthReserve, RingType, RowsType, WorkerType, SinkType
  <2>7. LimitInv'
    BY <1>0, <2>1, <2>3, <2>4, Zenon DEF LimitInv
  <2> QED BY <2>5, <2>6, <2>7, <1>a, Zenon
<1>6. CASE onDepthCopy
  <2>1. FrameRows \in Nat /\ reserved \in Nat /\ Current \in 1 .. MaxCommits
    <3>1. Current \in 1 .. Len(committed) /\ committed \in Seq(Commit)
      BY <1>0, <1>6 DEF onDepthCopy, RowInv, HookInv, Hooks, Current, OwnerType
    <3> QED BY <1>0, <1>6, <3>1, LevelsType, CommitAssumption
            DEF onDepthCopy, FrameRows, OwnerType, Current, LimitInv
  <2>2. /\ reserved + FrameRows <= RowLimit /\ rowHead_ <= reserved
        /\ rowTail_ <= rowHead_ /\ rowTail_ \in Nat /\ rowHead_ \in Nat
    BY <1>0, <1>6, Zenon DEF onDepthCopy, LimitInv, RowInv, HookInv, ArenaType
  <2>3. rowHead_' \in 0 .. RowLimit /\ rowTail_' \in 0 .. rowHead_'
    BY <1>6, <2>1, <2>2, ArenaAssumption DEF onDepthCopy
  <2>4. rows_' \in [0 .. RowCapacity - 1 -> 0 .. MaxCommits]
    BY <1>0, <1>6, <2>1 DEF onDepthCopy, RowsType
  <2>5. OwnerType'
    BY <1>0, <1>6, Zenon DEF onDepthCopy, OwnerType
  <2>6. RingType' /\ FlagType' /\ WorkerType' /\ SinkType'
    BY <1>0, <1>6, Zenon DEF onDepthCopy, RingType, FlagType, WorkerType, SinkType
  <2>7. LimitInv'
    BY <1>0, <1>6, Zenon DEF onDepthCopy, LimitInv, Current
  <2> QED BY <2>3, <2>4, <2>5, <2>6, <2>7, <1>a DEF RowsType
<1>7. CASE publish
  <2>1. OwnerType' /\ FlagType'
    BY <1>0, <1>7, LostType, Zenon DEF publish, HookLoses, OwnerType, FlagType
  <2>2. RingType' /\ RowsType' /\ WorkerType' /\ SinkType'
    BY <1>0, <1>7, Zenon DEF publish, RingType, RowsType, WorkerType, SinkType
  <2>3. LimitInv'
    BY <1>0, <1>7, Zenon DEF publish, HookLoses, LimitInv, Current
  <2> QED BY <2>1, <2>2, <2>3, <1>a, Zenon
<1>8. CASE tryPush
  <2>1. OwnerType' /\ FlagType'
    BY <1>0, <1>8, LostType, Zenon DEF tryPush, HookLoses, OwnerType, FlagType
  <2>2. RowsType' /\ WorkerType' /\ SinkType'
    BY <1>0, <1>8, Zenon DEF tryPush, RowsType, WorkerType, SinkType
  <2>3. LimitInv'
    BY <1>0, <1>8, Zenon DEF tryPush, HookLoses, LimitInv, Current
  <2>4. Current \in 0 .. MaxCommits /\ reserved \in Nat /\ rowHead_ \in Nat
    BY <1>0, CommitAssumption DEF OwnerType, RowsType, LimitInv, Current
  <2>5. RingType'
    BY <1>0, <1>8, <2>4 DEF tryPush, RingType, Event
  <2> QED BY <2>1, <2>2, <2>3, <2>5, <1>a
<1>9. CASE tryPushHead
  <2>1. OwnerType' /\ FlagType' /\ RowsType' /\ WorkerType' /\ SinkType'
    BY <1>0, <1>9, Zenon DEF tryPushHead, OwnerType, FlagType, RowsType, WorkerType, SinkType
  <2>2. RingType'
    BY <1>0, <1>9, NextSlotValue, Zenon DEF tryPushHead, RingType, Slots
  <2>3. LimitInv'
    BY <1>0, <1>9, Zenon DEF tryPushHead, LimitInv, Current
  <2> QED BY <2>1, <2>2, <2>3, <1>a, Zenon
<1>10. CASE shutdown
  <2>1. OwnerType' /\ FlagType' /\ RingType'
    BY <1>0, <1>10, Zenon DEF shutdown, OwnerType, FlagType, RingType
  <2>2. RowsType' /\ WorkerType' /\ SinkType'
    BY <1>0, <1>10, Zenon DEF shutdown, RowsType, WorkerType, SinkType
  <2>3. LimitInv'
    BY <1>0, <1>10, Zenon DEF shutdown, LimitInv, Current
  <2> QED BY <2>1, <2>2, <2>3, <1>a, Zenon
<1>11. CASE shutdownJoined
  <2>1. OwnerType' /\ FlagType' /\ RingType'
    BY <1>0, <1>11, Zenon DEF shutdownJoined, OwnerType, FlagType, RingType
  <2>2. RowsType' /\ WorkerType'
    BY <1>0, <1>11, Zenon DEF shutdownJoined, RowsType, WorkerType
  <2>3. LimitInv'
    BY <1>0, <1>11, Zenon DEF shutdownJoined, LimitInv, Current
  <2>4. health' \in [Source -> Health]
    <3>1. \A s \in Source : health[s] \in Health /\ lostBySource_[s] \in Nat
      BY <1>0, Zenon DEF SinkType, FlagType
    <3> QED BY <1>11, <3>1, NotesType, Zenon DEF shutdownJoined, LossesReported
  <2>5. SinkType'
    BY <1>0, <1>11, <2>4, Zenon DEF shutdownJoined, SinkType
  <2> QED BY <2>1, <2>2, <2>3, <2>5, <1>a
<1>12. ASSUME NEW k \in Sink, NEW eligible \in BOOLEAN,
              NEW outcome \in {"written", "seeded", "unwritten"},
              finalizeSession(k, eligible, outcome)
       PROVE  TypeInv'
  <2>1. OwnerType' /\ FlagType' /\ RingType' /\ RowsType' /\ WorkerType'
    BY <1>0, <1>12, Zenon DEF finalizeSession, OwnerType, FlagType, RingType, RowsType,
                       WorkerType
  <2>2. LimitInv'
    BY <1>0, <1>12, Zenon DEF finalizeSession, LimitInv, Current
  <2>3. FinalManifest(k, eligible) \in Manifest
    BY Zenon DEF FinalManifest, Manifest
  <2>4. OpenManifest(k) \in Manifest
    BY <1>0, <1>12, Zenon DEF OpenManifest, Manifest, SinkType, finalizeSession
  <2>5. manifest' \in [Sink -> Manifest]
    BY <1>0, <1>12, <2>3, <2>4, Zenon DEF finalizeSession, SinkType
  <2>6. SinkType'
    BY <1>0, <1>12, <2>5, Zenon DEF finalizeSession, SinkType
  <2> QED BY <2>1, <2>2, <2>6, <1>a, Zenon
<1>13. ASSUME NEW refreshed \in SUBSET Sink, refreshManifests(refreshed)
       PROVE  TypeInv'
  <2>1. OwnerType' /\ FlagType' /\ RingType' /\ RowsType' /\ WorkerType'
    BY <1>0, <1>13 DEF refreshManifests, OwnerType, FlagType, RingType, RowsType,
                       WorkerType
  <2>2. LimitInv'
    BY <1>0, <1>13, Zenon DEF refreshManifests, LimitInv, Current, FrameRows
  <2>3. \A k \in Sink : OpenManifest(k) \in Manifest
    BY <1>0, <1>13, Zenon DEF OpenManifest, Manifest, SinkType, refreshManifests,
                       PhaseInv, Ended
  <2>4. SinkType'
    BY <1>0, <1>13, <2>3, Zenon DEF refreshManifests, SinkType
  <2> QED BY <2>1, <2>2, <2>4, <1>a
<1>14. CASE tryPop \/ tryPopTail \/ drainWorkerStop \/ drainWorkerRelease
  <2>1. OwnerType' /\ FlagType' /\ SinkType'
    BY <1>0, <1>14 DEF tryPop, tryPopTail, drainWorkerStop, drainWorkerRelease,
                       OwnerType, FlagType, SinkType
  <2>2. LimitInv'
    BY <1>0, <1>14, Zenon DEF tryPop, tryPopTail, drainWorkerStop, drainWorkerRelease,
                       LimitInv, Current, FrameRows
  <2>3. RingType'
    BY <1>0, <1>14, NextSlotValue, Zenon
       DEF tryPop, tryPopTail, drainWorkerStop, drainWorkerRelease, RingType, Slots
  <2>4. WorkerType'
    BY <1>0, <1>14, Zenon DEF tryPop, tryPopTail, drainWorkerStop, drainWorkerRelease,
                       WorkerType, RingType
  <2>5. RowsType'
    <3>1. CASE drainWorkerRelease
      <4>1. event.rowEnd <= rowHead_ /\ event.rowEnd \in Nat
        BY <3>1, Zenon DEF drainWorkerRelease, InHand, RowInv, QueueInv, HoldsRows, ArenaType
      <4> QED BY <1>0, <3>1, <4>1 DEF drainWorkerRelease, RowsType
    <3>2. CASE tryPop \/ tryPopTail \/ drainWorkerStop
      BY <1>0, <3>2, Zenon DEF tryPop, tryPopTail, drainWorkerStop, RowsType
    <3> QED BY <1>14, <3>1, <3>2, Zenon
  <2> QED BY <2>1, <2>2, <2>3, <2>4, <2>5, <1>a
<1>15. CASE drainWorkerCheck \/ account
  <2>1. OwnerType' /\ RingType' /\ RowsType' /\ SinkType' /\ WorkerType'
    BY <1>0, <1>15 DEF drainWorkerCheck, account, OwnerType, RingType, RowsType,
                       SinkType, WorkerType
  <2>2. LimitInv'
    BY <1>0, <1>15, Zenon DEF drainWorkerCheck, account, LimitInv, Current, FrameRows
  <2>3. FlagType'
    BY <1>0, <1>15, LostType, Zenon DEF drainWorkerCheck, account, FlagType
  <2> QED BY <2>1, <2>2, <2>3, <1>a, Zenon
<1>16. CASE noteExternalChannelError
  <2>1. OwnerType' /\ FlagType' /\ RingType' /\ RowsType' /\ WorkerType'
    BY <1>0, <1>16 DEF noteExternalChannelError, OwnerType, FlagType, RingType,
                       RowsType, WorkerType
  <2>2. LimitInv'
    BY <1>0, <1>16, Zenon DEF noteExternalChannelError, LimitInv, Current, FrameRows
  <2>3. SinkType'
    BY <1>0, <1>16, NotesType, Zenon DEF noteExternalChannelError, SinkType
  <2> QED BY <2>1, <2>2, <2>3, <1>a, Zenon
<1>17. ASSUME NEW ok \in BOOLEAN, consume(ok) PROVE TypeInv'
  <2>1. OwnerType' /\ RingType' /\ RowsType' /\ WorkerType'
    BY <1>0, <1>17 DEF consume, OwnerType, RingType, RowsType, WorkerType
  <2>2. LimitInv'
    BY <1>0, <1>17, Zenon DEF consume, LimitInv, Current, FrameRows
  <2>3. FlagType'
    BY <1>0, <1>17, LostType, Zenon DEF consume, FlagType
  <2>4. event.number \in 1 .. MaxCommits
    <3>1. event.number \in 1 .. Current
      BY <1>17, Zenon DEF consume, InHand, RowInv, QueueInv, HoldsRows
    <3>2. Current \in Nat /\ Current <= MaxCommits
      BY <1>0 DEF OwnerType, LimitInv, Current
    <3> QED BY <3>1, <3>2, CommitAssumption
  <2>5. recorded' \in Seq(1 .. MaxCommits)
    <3>0. recorded \in Seq(1 .. MaxCommits)
      BY <1>0, Zenon DEF SinkType
    <3>1. recorded' = recorded \/ recorded' = Append(recorded, event.number)
      BY <1>17, Zenon DEF consume
    <3>2. Append(recorded, event.number) \in Seq(1 .. MaxCommits)
      BY <2>4, <3>0, AppendFacts, Zenon
    <3> QED BY <3>0, <3>1, <3>2, Zenon
  <2>6. health' \in [Source -> Health]
    <3>1. \/ health' = health
          \/ \E s : health' = [health EXCEPT ![s] = RowNoted(health[s])]
          \/ \E s : health' = [health EXCEPT ![s] = DropNoted(health[s])]
      BY <1>17, Zenon DEF consume
    <3>2. health \in [Source -> Health]
      BY <1>0, Zenon DEF SinkType
    <3> QED BY <3>1, <3>2, NotesType
  <2>7. SinkType'
    BY <1>0, <1>17, <2>5, <2>6, Zenon DEF consume, SinkType
  <2> QED BY <2>1, <2>2, <2>3, <2>7, <1>a
<1>18. CASE UNCHANGED vars
  <2>1. OwnerType' /\ FlagType' /\ RingType' /\ RowsType' /\ WorkerType' /\ SinkType'
    BY <1>0, <1>18 DEF vars, OwnerType, FlagType, RingType, RowsType, WorkerType,
                       SinkType
  <2>2. LimitInv'
    BY <1>0, <1>18, Zenon DEF vars, LimitInv, Current, FrameRows
  <2> QED BY <2>1, <2>2, <1>a, Zenon
<1>19. CASE Poll \/ Finalize
  BY <1>19, <1>1, <1>2, <1>3, <1>4, <1>5, <1>6, <1>7, <1>8, <1>9, <1>10, <1>11,
     <1>12, Zenon DEF Poll, Hook, Finalize
<1>20. CASE Drain
  BY <1>20, <1>14, <1>15, <1>16, <1>17, Zenon DEF Drain
<1> QED BY <1>13, <1>18, <1>19, <1>20, Zenon DEF Next

LEMMA PhaseInit == Init => PhaseInv
BY DEF Init, PhaseInv, Ended

LEMMA PhaseStep == TypeInv /\ PhaseInv /\ [Next]_vars => PhaseInv'
<1> SUFFICES ASSUME TypeInv, PhaseInv, [Next]_vars PROVE PhaseInv'
  BY Zenon
<1> USE DEF ownerVars, ringVars, arenaVars, flagVars, workerVars, sinkVars
<1>0. TypeOK
  BY Zenon DEF TypeInv
<1>1. CASE PollBegin
  BY <1>0, <1>1, Zenon DEF PollBegin, CaptureTerminal, PhaseInv, Ended, TypeOK
<1>2. ASSUME NEW ready, NEW connected, PollEnd(ready, connected)
      PROVE  PhaseInv'
  BY <1>0, <1>2, Zenon DEF PollEnd, CaptureTerminal, PhaseInv, Ended, TypeOK
<1>3. CASE Hook
  BY <1>0, <1>3 DEF Hook, HookCommit, onDepthCheck, onDepthReserve, onDepthCopy,
                    publish, tryPush, tryPushHead, HookLoses, PhaseInv, Ended
<1>4. CASE shutdown
  BY <1>4, Zenon DEF shutdown, PhaseInv, Ended
<1>5. CASE shutdownJoined
  BY <1>5, Zenon DEF shutdownJoined, PhaseInv, Ended
<1>6. ASSUME NEW k \in Sink, NEW eligible, NEW outcome,
             finalizeSession(k, eligible, outcome)
      PROVE  PhaseInv'
  BY <1>0, <1>6, Zenon DEF finalizeSession, PhaseInv, Ended, TypeOK
<1>7. ASSUME NEW refreshed, refreshManifests(refreshed) PROVE PhaseInv'
  <2>1. /\ UNCHANGED <<pc, workerPc, sessionStatus, lostBySource_, terminal>>
        /\ \A k \in Sink : \/ manifest'[k] = manifest[k]
                           \/ ~manifest'[k].exactReplayEligible
    BY <1>7 DEF refreshManifests, OpenManifest
  <2> QED BY <2>1, Zenon DEF PhaseInv, Ended
<1>8. CASE tryPop \/ tryPopTail \/ drainWorkerStop \/ drainWorkerRelease
  <2>1. /\ workerPc # "exited"
        /\ UNCHANGED <<pc, sessionStatus, manifest, lostBySource_, terminal>>
    BY <1>8, Zenon DEF tryPop, tryPopTail, drainWorkerStop, drainWorkerRelease
  <2> QED BY <2>1, Zenon DEF PhaseInv, Ended
<1>9. CASE drainWorkerCheck \/ account \/ noteExternalChannelError
  <2>1. /\ workerPc # "exited"
        /\ UNCHANGED <<pc, sessionStatus, manifest, terminal>>
    BY <1>9, Zenon DEF drainWorkerCheck, account, noteExternalChannelError
  <2> QED BY <2>1, Zenon DEF PhaseInv, Ended
<1>10. ASSUME NEW ok, consume(ok) PROVE PhaseInv'
  BY <1>10, Zenon DEF consume, PhaseInv, Ended
<1>11. CASE UNCHANGED vars
  BY <1>11, Zenon DEF vars, PhaseInv, Ended
<1>12. CASE Poll \/ Finalize
  BY <1>12, <1>1, <1>2, <1>3, <1>4, <1>5, <1>6 DEF Poll, Finalize
<1>13. CASE Drain
  BY <1>13, <1>8, <1>9, <1>10, Zenon DEF Drain
<1> QED BY <1>7, <1>11, <1>12, <1>13, Zenon DEF Next

LEMMA TypeInvariant == Spec => [](OrderInv /\ RowInv /\ TypeInv /\ PhaseInv)
<1>1. Init => OrderInv /\ RowInv /\ TypeInv /\ PhaseInv
  BY OrderInit, RowInit, TypeInit, PhaseInit, Zenon
<1>2. (OrderInv /\ RowInv /\ TypeInv /\ PhaseInv) /\ [Next]_vars
        => (OrderInv /\ RowInv /\ TypeInv /\ PhaseInv)'
  BY OrderStep, RowStep, TypeStep, PhaseStep, Zenon
<1> QED BY <1>1, <1>2, PTL DEF Spec

(* Every value stays in its C++ type, for every capacity and number of     *)
(* commits: the ring's indices stay inside it, the arena's row numbers     *)
(* never pass the limit onDepth() tests before it chooses a place, and the *)
(* tail given back by drainWorker() never passes the head.                 *)
THEOREM TypeCorrect == Spec => []TypeOK
<1>1. TypeInv => TypeOK
  BY Zenon DEF TypeInv
<1> QED BY <1>1, TypeInvariant, PTL
==============================================================================
