------------------- MODULE BinaryMarketCorpusWriterProofs -------------------
(***************************************************************************)
(* The byte ledger of the corpus writer keeps its promises for every       *)
(* number of shards, channels and sources, every budget and every size of  *)
(* the stored structures: the types are preserved, no call fails for want  *)
(* of a reservation, and the files stay within the budget.                 *)
(*                                                                         *)
(* They rest on one inductive invariant.  LedgerInv says what has been     *)
(* paid for; CutInv relates the part set aside for cuts to the rows,       *)
(* sources and reference bytes that a cut can come to list; LimitInv says  *)
(* what is left for the final drain; CallInv and SegmentInv carry what a   *)
(* call has measured from its first step to its last.                      *)
(***************************************************************************)
EXTENDS BinaryMarketCorpusWriter, FiniteSetTheorems, TLAPS

LedgerInv ==
    projectedBytes >= CutHeaderBytes + 2 * ManifestBytes + 3 * TableBytes
        + sources * SourceStorageBytes + cutReservedBytes
        + indexEntries * IndexBytes + segmentFiles * SegmentBytes + storedBytes
        + Cardinality(Buffered) * RecordBytes

CutInv ==
    /\ cutReservedBytes >= 2 * (CutHeaderBytes + sources * SourceStorageBytes
                                + recordCount * RangeBytes + referenceReservedBytes)
    /\ 2 * cutFile <= cutReservedBytes
    /\ 2 * cutPending <= cutReservedBytes

RowInv ==
    IsFiniteSet(Buffered) /\ blocks + Cardinality(Buffered) <= recordCount

LimitInv ==
    /\ projectedBytes <= writeLimitBytes
    /\ writeLimitBytes =
         IF finalDrain THEN MaximumBytes ELSE MaximumBytes - FinalDrainReserve
    /\ finalDrain =>
         /\ drained <= MaximumPendingRecords
         /\ drainedSources <= PendingNewSources
         /\ projectedBytes + (MaximumPendingRecords - drained) * WorstRecordBytes
              + (PendingNewSources - drainedSources) * SourceReservationBytes
              <= MaximumBytes
    /\ ~finalDrain => drained = 0 /\ drainedSources = 0

SegmentInv ==
    /\ \A s \in Shard : segmentBytes[s] >= pendingCount[s] * RecordBytes
    /\ \A s \in Shard : ~open[s] => pendingCount[s] = 0
    /\ pc = "seal" => todo = Dirty

CallInv ==
    pc \in {"measure", "commit"} =>
      /\ call.row.source \in 1 .. (sources + 1)
      /\ NewSource(call.row) => sources < MaximumSources
      /\ DrainAdmits(1, IF NewSource(call.row) THEN 1 ELSE 0)
      /\ (pc = "measure" /\ todo # {}) => todo = {call.row.shard}
      /\ (pc = "commit" \/ todo = {}) => pendingCount[call.row.shard] < BlockRecords
      /\ (pc = "commit" /\ call.openNeeded) => pendingCount[call.row.shard] = 0

IInv == TypeOK /\ LedgerInv /\ CutInv /\ RowInv /\ LimitInv /\ SegmentInv /\ CallInv

-----------------------------------------------------------------------------
(* Arithmetic: a product grows with its factor and distributes over sums. *)
LEMMA Distribute ==
    ASSUME NEW a \in Int, NEW b \in Int, NEW c \in Int
    PROVE  /\ (a + b) * c = a * c + b * c
           /\ (a - b) * c = a * c - b * c
           /\ 1 * c = c /\ 0 * c = 0
           /\ a * c \in Int
OBVIOUS

LEMMA ProductGrows ==
    ASSUME NEW a \in Nat, NEW b \in Nat, NEW c \in Nat, a <= b
    PROVE  a * c <= b * c /\ a * c \in Nat /\ b * c \in Nat
OBVIOUS

LEMMA ProductStep ==
    ASSUME NEW a \in Nat, NEW c \in Nat PROVE (a + 1) * c = a * c + c
OBVIOUS

LEMMA SumShrinks ==
    ASSUME NEW p \in Int, NEW q \in Int, NEW r \in Int, NEW t \in Int, NEW m \in Int,
           q <= p, p + r + t <= m
    PROVE  q + r + t <= m
OBVIOUS

(* The derived sizes are natural numbers. *)
LEMMA Sizes ==
    /\ Channels \in Nat /\ SourceStorageBytes \in Nat
    /\ SourceReservationBytes \in Nat /\ RecordCutReservationBytes \in Nat
    /\ WorstRecordBytes \in Nat /\ PendingNewSources \in Nat
    /\ FinalDrainReserve \in Nat /\ InitialCutReserve \in Nat
    /\ FixedMetadata \in Nat
<1>1. Channels \in Nat
  BY ChannelAssumption, FS_CardinalityType, Zenon DEF Channels
<1>2. SourceStorageBytes \in Nat
  BY <1>1, SizeAssumption DEF SourceStorageBytes
<1>3. SourceReservationBytes \in Nat /\ RecordCutReservationBytes \in Nat
      /\ WorstRecordBytes \in Nat
  BY <1>2, SizeAssumption
     DEF SourceReservationBytes, RecordCutReservationBytes, WorstRecordBytes
<1>4. PendingNewSources \in Nat
  BY SizeAssumption, SourceAssumption DEF PendingNewSources
<1>5. FinalDrainReserve \in Nat
  BY <1>3, <1>4, SizeAssumption DEF FinalDrainReserve
<1>6. InitialCutReserve \in Nat
  <2>1. InitialSources * Channels \in Nat /\ InitialSources * SourceBytes \in Nat
    BY <1>1, SizeAssumption
  <2>2. (InitialSources * Channels) * GapBytes \in Nat
    BY <2>1, SizeAssumption
  <2> QED
    BY <2>1, <2>2, SizeAssumption DEF InitialCutReserve, cutReservationBytes
<1>7. InitialSources * SourceStorageBytes \in Nat
  BY <1>2, SizeAssumption
<1>8. FixedMetadata \in Nat
  BY <1>6, <1>7, SizeAssumption DEF FixedMetadata
<1> QED
  BY <1>1, <1>2, <1>3, <1>4, <1>5, <1>6, <1>8, Zenon

(* What a row is charged covers what it can cost, and never more than the  *)
(* worst row of the drain reserve.                                         *)
LEMMA RequiredBound ==
    ASSUME NEW new \in BOOLEAN, NEW opens \in BOOLEAN, NEW indexes \in BOOLEAN
    PROVE  /\ RequiredBytes(new, opens, indexes) \in Nat
           /\ CutGrowth(new) \in Nat
           /\ RequiredBytes(new, opens, indexes) <=
                WorstRecordBytes + (IF new THEN SourceReservationBytes ELSE 0)
           /\ RequiredBytes(new, opens, indexes) =
                RecordBytes + CutGrowth(new)
                  + (IF new THEN SourceStorageBytes ELSE 0)
                  + (IF opens THEN SegmentBytes ELSE 0)
                  + (IF indexes THEN IndexBytes ELSE 0)
BY Sizes, SizeAssumption
   DEF RequiredBytes, CutGrowth, WorstRecordBytes, SourceReservationBytes

(* A flush takes the rows of one segment out of the buffered rows. *)
LEMMA BufferedFlush ==
    ASSUME NEW f \in [Shard -> Nat], NEW s \in Shard, IsFiniteSet(BufferedIn(f))
    PROVE  LET g == [f EXCEPT ![s] = 0] IN
           /\ IsFiniteSet(BufferedIn(g))
           /\ Cardinality(BufferedIn(f)) \in Nat
           /\ Cardinality(BufferedIn(g)) \in Nat
           /\ Cardinality(BufferedIn(g)) = Cardinality(BufferedIn(f)) - f[s]
<1> DEFINE g == [f EXCEPT ![s] = 0]
           own == {s} \X (1 .. f[s])
<1>1. BufferedIn(g) = BufferedIn(f) \ own
  <2>1. \A t \in Shard : g[t] = IF t = s THEN 0 ELSE f[t]
    BY Zenon
  <2>2. ASSUME NEW x PROVE x \in BufferedIn(g) <=> \E t \in Shard : x \in {t} \X (1 .. g[t])
    BY Zenon DEF BufferedIn
  <2>3. ASSUME NEW x PROVE x \in BufferedIn(f) <=> \E t \in Shard : x \in {t} \X (1 .. f[t])
    BY Zenon DEF BufferedIn
  <2>4. 1 .. g[s] = {}
    BY <2>1
  <2>5. ASSUME NEW x
        PROVE  x \in BufferedIn(g) <=> x \in BufferedIn(f) /\ x \notin own
    <3> HIDE DEF g
    <3>1. CASE x \in own
      BY <2>1, <2>2, <2>4, <3>1
    <3>2. CASE x \notin own
      BY <2>1, <2>2, <2>3, <2>4, <3>2, Zenon
    <3> QED
      BY <3>1, <3>2, Zenon
  <2> QED
    BY <2>5, Zenon
<1>2. own \subseteq BufferedIn(f)
  BY Zenon DEF BufferedIn
<1>3. IsFiniteSet(own) /\ Cardinality(own) = f[s]
  <2>1. f[s] \in Nat
    BY Zenon
  <2>2. IsFiniteSet(1 .. f[s]) /\ Cardinality(1 .. f[s]) = f[s]
    BY <2>1, FS_Interval
  <2>3. IsFiniteSet({s}) /\ Cardinality({s}) = 1
    BY FS_Singleton, Zenon
  <2> QED
    BY <2>1, <2>2, <2>3, FS_Product
<1>4. BufferedIn(f) \cap own = own
  BY <1>2, Zenon
<1>5. Cardinality(BufferedIn(f)) \in Nat
  BY FS_CardinalityType, Zenon
<1>6. /\ IsFiniteSet(BufferedIn(f) \ own)
      /\ Cardinality(BufferedIn(f) \ own)
           = Cardinality(BufferedIn(f)) - Cardinality(BufferedIn(f) \cap own)
  BY FS_Difference, Zenon
<1>7. Cardinality(BufferedIn(f) \ own) \in Nat
  BY <1>6, FS_CardinalityType, Zenon
<1> HIDE DEF g, own
<1>8. /\ IsFiniteSet(BufferedIn(g))
      /\ Cardinality(BufferedIn(g)) \in Nat
      /\ Cardinality(BufferedIn(g)) = Cardinality(BufferedIn(f)) - f[s]
  BY <1>1, <1>3, <1>4, <1>6, <1>7, Zenon
<1> QED
  BY <1>5, <1>8, Zenon DEF g

(* A row that is taken adds one slot. *)
LEMMA BufferedAppend ==
    ASSUME NEW f \in [Shard -> Nat], NEW s \in Shard, IsFiniteSet(BufferedIn(f))
    PROVE  LET g == [f EXCEPT ![s] = @ + 1] IN
           /\ IsFiniteSet(BufferedIn(g))
           /\ Cardinality(BufferedIn(f)) \in Nat
           /\ Cardinality(BufferedIn(g)) = Cardinality(BufferedIn(f)) + 1
<1> DEFINE g == [f EXCEPT ![s] = @ + 1]
           slot == <<s, f[s] + 1>>
<1>1. BufferedIn(g) = BufferedIn(f) \cup {slot}
  <2>1. \A t \in Shard : g[t] = IF t = s THEN f[t] + 1 ELSE f[t]
    BY Zenon
  <2>2. ASSUME NEW x PROVE x \in BufferedIn(g) <=> \E t \in Shard : x \in {t} \X (1 .. g[t])
    BY Zenon DEF BufferedIn
  <2>3. ASSUME NEW x PROVE x \in BufferedIn(f) <=> \E t \in Shard : x \in {t} \X (1 .. f[t])
    BY Zenon DEF BufferedIn
  <2>4. f[s] \in Nat /\ 1 .. (f[s] + 1) = (1 .. f[s]) \cup {f[s] + 1}
    OBVIOUS
  <2>5. {s} \X (1 .. (f[s] + 1)) = ({s} \X (1 .. f[s])) \cup {slot}
    BY <2>4
  <2> QED
    BY <2>1, <2>2, <2>3, <2>5, Zenon
<1>2. slot \notin BufferedIn(f)
  BY DEF BufferedIn
<1>3. Cardinality(BufferedIn(f)) \in Nat
  BY FS_CardinalityType, Zenon
<1>4. /\ IsFiniteSet(BufferedIn(f) \cup {slot})
      /\ Cardinality(BufferedIn(f) \cup {slot}) = Cardinality(BufferedIn(f)) + 1
  BY <1>2, FS_AddElement, Zenon
<1> HIDE DEF g, slot
<1>5. /\ IsFiniteSet(BufferedIn(g))
      /\ Cardinality(BufferedIn(g)) = Cardinality(BufferedIn(f)) + 1
  BY <1>1, <1>4, Zenon
<1> QED
  BY <1>3, <1>5, Zenon DEF g

(* There are no more gap cells than sources times channels. *)
LEMMA GapCells ==
    ASSUME NEW n \in Nat, NEW cells \in SUBSET ((1 .. n) \X Channel)
    PROVE  /\ IsFiniteSet(cells) /\ Cardinality(cells) \in Nat
           /\ Cardinality(cells) <= n * Channels
           /\ Cardinality(cells) = n * Channels => cells = (1 .. n) \X Channel
<1>1. IsFiniteSet(1 .. n) /\ Cardinality(1 .. n) = n
  BY FS_Interval
<1>2. IsFiniteSet((1 .. n) \X Channel)
      /\ Cardinality((1 .. n) \X Channel) = n * Channels
  BY <1>1, ChannelAssumption, FS_Product, Zenon DEF Channels
<1> QED
  BY <1>2, FS_Subset, FS_CardinalityType, Zenon

-----------------------------------------------------------------------------
(* The type invariant, in the three parts its steps are proved by. *)
CounterType ==
    /\ projectedBytes \in Nat /\ writeLimitBytes \in Nat /\ cutReservedBytes \in Nat
    /\ referenceReservedBytes \in Nat /\ referenceBytes \in 0 .. referenceReservedBytes
    /\ sources \in InitialSources .. MaximumSources
    /\ blocks \in Nat /\ recordCount \in Nat /\ indexEntries \in Nat
    /\ segmentFiles \in Nat /\ storedBytes \in Nat
    /\ cutFile \in Nat /\ cutPending \in Nat
    /\ drained \in Nat /\ drainedSources \in Nat
SegmentType ==
    /\ gaps \in SUBSET ((1 .. sources) \X Channel)
    /\ open \in [Shard -> BOOLEAN] /\ used \in [Shard -> BOOLEAN]
    /\ pendingCount \in [Shard -> 0 .. BlockRecords]
    /\ channel \in [Shard -> Channel]
    /\ segmentBytes \in [Shard -> Nat]
    /\ indexed \in [Shard -> SUBSET (Nat \X Generation \X Channel)]
ControlType ==
    /\ tables \in BOOLEAN /\ manifestFile \in BOOLEAN /\ finalizing \in BOOLEAN
    /\ finalDrain \in BOOLEAN
    /\ pc \in {"ready", "measure", "commit", "cut", "rename", "seal", "manifest",
               "ended"}
    /\ todo \subseteq Dirty
    /\ IF pc \in {"measure", "commit"} THEN call \in Plan ELSE call = NoCall
    /\ result \in {Ok, "Quota", "OutOfRange", "IoError", "CorruptData", "NoGapCell"}

LEMMA TypeParts ==
    /\ TypeOK <=> CounterType /\ SegmentType /\ ControlType
    /\ TypeOK' <=> CounterType' /\ SegmentType' /\ ControlType'
BY Zenon DEF TypeOK, CounterType, SegmentType, ControlType

-----------------------------------------------------------------------------
(* The state start() leaves satisfies the invariant. *)
LEMMA InitInv == Init => IInv
<1> SUFFICES ASSUME Init PROVE IInv
  BY Zenon
<1>1. BufferedIn(pendingCount) = {}
  <2>1. \A s \in Shard : 1 .. pendingCount[s] = {}
    BY DEF Init
  <2> QED
    BY <2>1, Zenon DEF BufferedIn
<1>2. IsFiniteSet(Buffered) /\ Cardinality(Buffered) = 0
  BY <1>1, FS_EmptySet, Zenon DEF Buffered
<1>3. TypeOK
  <2>1. /\ projectedBytes \in Nat /\ writeLimitBytes \in Nat
        /\ cutReservedBytes \in Nat
    BY Sizes, SizeAssumption DEF Init
  <2>2. CounterType
    BY <2>1, SourceAssumption, SizeAssumption DEF Init, CounterType
  <2>3. SegmentType
    BY SizeAssumption, ChannelAssumption DEF Init, SegmentType
  <2>4. ControlType
    BY Zenon DEF Init, ControlType, Ok
  <2> QED
    BY <2>2, <2>3, <2>4, TypeParts, Zenon
<1>4. LedgerInv
  BY <1>2, Sizes, SizeAssumption DEF Init, LedgerInv, FixedMetadata
<1>5. CutInv
  <2>1. InitialSources * SourceBytes + (InitialSources * Channels) * GapBytes
          = InitialSources * SourceStorageBytes
    BY Sizes, SizeAssumption DEF SourceStorageBytes
  <2>2. InitialCutReserve = 2 * (CutHeaderBytes + InitialSources * SourceStorageBytes)
    <3> DEFINE a == InitialSources * SourceBytes
               b == (InitialSources * Channels) * GapBytes
               c == InitialSources * SourceStorageBytes
    <3>1. a \in Nat /\ b \in Nat /\ c \in Nat /\ a + b = c
      BY <2>1, Sizes, SizeAssumption
    <3>2. InitialCutReserve = 2 * (CutHeaderBytes + a + b + 0 * RangeBytes + 0)
      BY Zenon DEF InitialCutReserve, cutReservationBytes
    <3> HIDE DEF a, b, c
    <3>3. InitialCutReserve = 2 * (CutHeaderBytes + c)
      BY <3>1, <3>2, SizeAssumption
    <3> QED
      BY <3>3, Zenon DEF c
  <2> QED
    BY <2>2, Sizes, SizeAssumption DEF Init, CutInv
<1>6. RowInv
  BY <1>2 DEF Init, RowInv
<1>7. LimitInv
  BY Sizes, SizeAssumption DEF Init, LimitInv
<1>8. SegmentInv /\ CallInv
  BY SizeAssumption DEF Init, SegmentInv, CallInv
<1> QED
  BY <1>3, <1>4, <1>5, <1>6, <1>7, <1>8, Zenon DEF IInv

-----------------------------------------------------------------------------
(* Six operations move the ledger; every other step leaves it alone. *)
LEMMA LedgerMoves ==
    ASSUME [Next]_vars
    PROVE  \/ \E s \in Shard :
                \E physicalBytes \in 1 .. (pendingCount[s] * RecordBytes) :
                  flushBlock(s, physicalBytes)
           \/ AppendCommit
           \/ \E left \in {0, 1} : AppendFails(left)
           \/ \E added \in 1 .. MaximumSources : registerSources(added)
           \/ \E size \in ReferenceSize : setReferencePayload(size)
           \/ beginFinalDrain
           \/ UNCHANGED <<ledgerVars, referenceVars, sources, blocks, rowVars,
                          pendingCount, segmentBytes, fileVars, drainVars>>
<1> DEFINE Still == UNCHANGED <<ledgerVars, referenceVars, sources, blocks, rowVars,
                                pendingCount, segmentBytes, fileVars, drainVars>>
<1>1. CASE FlushFails
  BY <1>1, Zenon DEF FlushFails, tableVars, segmentVars
<1>2. ASSUME NEW row, AppendCheck(row) PROVE Still
  BY <1>2, Zenon DEF AppendCheck, tableVars, segmentVars
<1>3. CASE AppendMeasure \/ AppendQuota
  BY <1>3, Zenon DEF AppendMeasure, AppendQuota, tableVars, segmentVars
<1>4. ASSUME NEW source, NEW ch, appendGap(source, ch) PROVE Still
  BY <1>4, Zenon DEF appendGap, segmentVars
<1>5. CASE publishCut \/ WriteCut
  BY <1>5, Zenon DEF publishCut, WriteCut, tableVars, segmentVars
<1>6. CASE RenameCut \/ CommitFails
  BY <1>6, Zenon DEF RenameCut, CommitFails, tableVars, segmentVars
<1>7. CASE finalize \/ FinalizeTables \/ FinalizeManifest
  BY <1>7, Zenon DEF finalize, FinalizeTables, FinalizeManifest, tableVars, segmentVars
<1>8. CASE UNCHANGED vars
  BY <1>8, Zenon DEF vars, tableVars, segmentVars
<1> HIDE DEF Still
<1> QED
  BY <1>1, <1>2, <1>3, <1>4, <1>5, <1>6, <1>7, <1>8, Zenon DEF Next, Still

(* What is known when append() reserves. *)
LEMMA CommitFacts ==
    ASSUME IInv, pc = "commit", todo = {}
    PROVE  /\ call \in Plan /\ call.row \in Row /\ call.row.shard \in Shard
           /\ NewSource(call.row) \in BOOLEAN
           /\ call.openNeeded \in BOOLEAN /\ call.indexNeeded \in BOOLEAN
           /\ Required \in Nat /\ CutGrowth(NewSource(call.row)) \in Nat
<1>1. call \in Plan
  BY TypeParts, Zenon DEF IInv, ControlType
<1>2. /\ call.row \in Row /\ call.row.shard \in Shard
      /\ call.openNeeded \in BOOLEAN /\ call.indexNeeded \in BOOLEAN
  BY <1>1, Zenon DEF Plan, Row
<1>3. NewSource(call.row) \in BOOLEAN
  BY Zenon DEF NewSource
<1> QED
  BY <1>1, <1>2, <1>3, RequiredBound, Zenon DEF Required

(* A flush releases no more than its rows had reserved. *)
LEMMA FlushFacts ==
    ASSUME IInv, NEW s \in Shard,
           NEW physicalBytes \in 1 .. (pendingCount[s] * RecordBytes)
    PROVE  /\ pendingCount \in [Shard -> Nat]
           /\ pendingCount[s] \in Nat \ {0}
           /\ pendingCount[s] * RecordBytes \in Nat
           /\ physicalBytes \in Nat /\ physicalBytes <= pendingCount[s] * RecordBytes
           /\ Cardinality(Buffered) \in Nat
           /\ pendingCount[s] <= Cardinality(Buffered)
<1>1. pendingCount \in [Shard -> Nat]
  BY TypeParts, SizeAssumption DEF IInv, SegmentType
<1>2. pendingCount[s] \in Nat /\ pendingCount[s] * RecordBytes \in Nat
  BY <1>1, SizeAssumption
<1>3. pendingCount[s] # 0
  <2>1. ASSUME pendingCount[s] = 0 PROVE FALSE
    <3>1. pendingCount[s] * RecordBytes = 0
      BY <2>1, SizeAssumption
    <3>2. 1 .. (pendingCount[s] * RecordBytes) = {}
      BY <3>1
    <3> QED
      BY <3>2, Zenon
  <2> QED
    BY <2>1, Zenon
<1>4. IsFiniteSet(BufferedIn(pendingCount))
  BY Zenon DEF IInv, RowInv, Buffered
<1>5. /\ Cardinality(Buffered) \in Nat
      /\ pendingCount[s] <= Cardinality(Buffered)
  <2> DEFINE after == BufferedIn([pendingCount EXCEPT ![s] = 0])
  <2>1. /\ Cardinality(Buffered) \in Nat /\ Cardinality(after) \in Nat
        /\ Cardinality(after) = Cardinality(Buffered) - pendingCount[s]
    BY <1>1, <1>4, BufferedFlush, Zenon DEF Buffered
  <2> HIDE DEF after
  <2> QED
    BY <1>2, <2>1
<1> QED
  BY <1>1, <1>2, <1>3, <1>5

(* The buffered rows and the blocks stay within the accepted rows. *)
LEMMA RowStep ==
    ASSUME IInv, [Next]_vars PROVE RowInv'
<1>0. /\ CounterType /\ RowInv /\ pendingCount \in [Shard -> Nat]
      /\ IsFiniteSet(BufferedIn(pendingCount))
  BY TypeParts, SizeAssumption DEF IInv, RowInv, Buffered, SegmentType
<1>1. ASSUME NEW s \in Shard, NEW physicalBytes \in 1 .. (pendingCount[s] * RecordBytes),
             flushBlock(s, physicalBytes)
      PROVE  RowInv'
  <2>1. pendingCount[s] \in Nat \ {0} /\ Cardinality(Buffered) \in Nat
    BY FlushFacts, Zenon
  <2>2. /\ IsFiniteSet(Buffered')
        /\ Cardinality(Buffered') \in Nat
        /\ Cardinality(Buffered') = Cardinality(Buffered) - pendingCount[s]
    BY <1>0, <1>1, BufferedFlush, Zenon DEF flushBlock, Buffered
  <2>3. blocks' = blocks + 1 /\ recordCount' = recordCount
    BY <1>1, Zenon DEF flushBlock, rowVars
  <2> QED
    BY <1>0, <2>1, <2>2, <2>3 DEF RowInv, CounterType
<1>2. CASE AppendCommit
  <2>1. call.row.shard \in Shard
    BY <1>2, CommitFacts, Zenon DEF AppendCommit
  <2>2. /\ IsFiniteSet(Buffered')
        /\ Cardinality(Buffered) \in Nat
        /\ Cardinality(Buffered') = Cardinality(Buffered) + 1
    BY <1>0, <1>2, <2>1, BufferedAppend, Zenon DEF AppendCommit, Buffered
  <2>3. blocks' = blocks /\ recordCount' = recordCount + 1
    BY <1>2, Zenon DEF AppendCommit
  <2> QED
    BY <1>0, <2>2, <2>3 DEF RowInv, CounterType
<1>3. CASE UNCHANGED <<blocks, recordCount, pendingCount>>
  BY <1>0, <1>3, Zenon DEF RowInv, Buffered
<1>4. ASSUME NEW left \in {0, 1}, AppendFails(left)
      PROVE  UNCHANGED <<blocks, recordCount, pendingCount>>
  BY <1>4, Zenon DEF AppendFails, tableVars, rowVars
<1>5. ASSUME NEW added \in 1 .. MaximumSources, registerSources(added)
      PROVE  UNCHANGED <<blocks, recordCount, pendingCount>>
  BY <1>5, Zenon DEF registerSources, rowVars, segmentVars
<1>6. ASSUME NEW size \in ReferenceSize, setReferencePayload(size)
      PROVE  UNCHANGED <<blocks, recordCount, pendingCount>>
  BY <1>6, Zenon DEF setReferencePayload, tableVars, rowVars, segmentVars
<1>7. CASE beginFinalDrain
  BY <1>3, <1>7, Zenon DEF beginFinalDrain, tableVars, rowVars, segmentVars
<1> QED
  BY <1>1, <1>2, <1>3, <1>4, <1>5, <1>6, <1>7, LedgerMoves, Zenon DEF rowVars

(* The types of everything the ledger adds up. *)
LEMMA LedgerTypes ==
    ASSUME IInv
    PROVE  /\ projectedBytes \in Nat /\ cutReservedBytes \in Nat
           /\ sources \in Nat /\ indexEntries \in Nat /\ segmentFiles \in Nat
           /\ storedBytes \in Nat /\ recordCount \in Nat /\ blocks \in Nat
           /\ referenceReservedBytes \in Nat /\ drained \in Nat
           /\ drainedSources \in Nat /\ writeLimitBytes \in Nat
           /\ Cardinality(Buffered) \in Nat
<1>1. CounterType /\ IsFiniteSet(Buffered)
  BY TypeParts, Zenon DEF IInv, RowInv
<1>2. Cardinality(Buffered) \in Nat
  BY <1>1, FS_CardinalityType, Zenon
<1> QED
  BY <1>1, <1>2, SizeAssumption DEF CounterType

(* Every step pays for what it puts on disk. *)
LEMMA LedgerStep ==
    ASSUME IInv, [Next]_vars PROVE LedgerInv'
<1> USE SizeAssumption
<1> DEFINE fixed == CutHeaderBytes + 2 * ManifestBytes + 3 * TableBytes
           owned == sources * SourceStorageBytes
           index == indexEntries * IndexBytes
           files == segmentFiles * SegmentBytes
           rows == Cardinality(Buffered) * RecordBytes
<1>0. /\ projectedBytes \in Nat /\ cutReservedBytes \in Nat /\ storedBytes \in Nat
      /\ fixed \in Nat /\ owned \in Nat /\ index \in Nat /\ files \in Nat /\ rows \in Nat
      /\ SourceStorageBytes \in Nat
  BY LedgerTypes, Sizes
<1>a. LedgerInv <=> projectedBytes >= fixed + owned + cutReservedBytes + index
                                        + files + storedBytes + rows
  BY Zenon DEF LedgerInv
<1>b. LedgerInv' <=> projectedBytes' >= fixed + owned' + cutReservedBytes' + index'
                                        + files' + storedBytes' + rows'
  BY Zenon DEF LedgerInv
<1>c. LedgerInv
  BY Zenon DEF IInv
<1>1. ASSUME NEW s \in Shard, NEW physicalBytes \in 1 .. (pendingCount[s] * RecordBytes),
             flushBlock(s, physicalBytes)
      PROVE  LedgerInv'
  <2> DEFINE reserved == pendingCount[s] * RecordBytes
  <2>1. reserved \in Nat /\ physicalBytes \in Nat
    BY FlushFacts, Zenon
  <2>2. rows' = rows - reserved
    <3>1. Cardinality(Buffered') = Cardinality(Buffered) - pendingCount[s]
      BY <1>1, BufferedFlush, FlushFacts, Zenon DEF flushBlock, Buffered, IInv, RowInv
    <3>2. Cardinality(Buffered) \in Nat /\ pendingCount[s] \in Nat
      BY FlushFacts, Zenon
    <3> QED
      BY <3>1, <3>2, Distribute
  <2>3. /\ projectedBytes' = projectedBytes - (reserved - physicalBytes)
        /\ storedBytes' = storedBytes + physicalBytes
        /\ owned' = owned /\ index' = index /\ files' = files
        /\ cutReservedBytes' = cutReservedBytes
    BY <1>1, Zenon DEF flushBlock, rowVars
  <2> HIDE DEF fixed, owned, index, files, rows, reserved
  <2> QED
    BY <1>0, <1>a, <1>b, <1>c, <2>1, <2>2, <2>3
<1>2. CASE AppendCommit
  <2> DEFINE new == NewSource(call.row)
             source == IF new THEN SourceStorageBytes ELSE 0
             segment == IF call.openNeeded THEN SegmentBytes ELSE 0
             entry == IF call.indexNeeded THEN IndexBytes ELSE 0
  <2>1. /\ call.row.shard \in Shard /\ new \in BOOLEAN
        /\ call.openNeeded \in BOOLEAN /\ call.indexNeeded \in BOOLEAN
        /\ CutGrowth(new) \in Nat
    BY <1>2, CommitFacts, Zenon DEF AppendCommit
  <2>2. Required = RecordBytes + CutGrowth(new) + source + segment + entry
    BY <2>1, RequiredBound, Zenon DEF Required
  <2>3. rows' = rows + RecordBytes
    <3>1. Cardinality(Buffered') = Cardinality(Buffered) + 1
      <4>1. pendingCount \in [Shard -> Nat] /\ IsFiniteSet(BufferedIn(pendingCount))
        BY TypeParts DEF IInv, RowInv, Buffered, SegmentType
      <4> QED
        BY <1>2, <2>1, <4>1, BufferedAppend, Zenon DEF AppendCommit, Buffered
    <3>2. Cardinality(Buffered) \in Nat
      BY LedgerTypes, Zenon
    <3> QED
      BY <3>1, <3>2, Distribute
  <2>4. /\ projectedBytes' = projectedBytes + Required
        /\ cutReservedBytes' = cutReservedBytes + CutGrowth(new)
        /\ storedBytes' = storedBytes
    BY <1>2, Zenon DEF AppendCommit, reserveBytes
  <2>a. /\ sources' = IF new THEN sources + 1 ELSE sources
        /\ indexEntries' = IF call.indexNeeded THEN indexEntries + 1 ELSE indexEntries
        /\ segmentFiles' = IF call.openNeeded THEN segmentFiles + 1 ELSE segmentFiles
    BY <1>2, LedgerTypes DEF AppendCommit
  <2>5. owned' = owned + source
    BY <2>a, <1>0, LedgerTypes, ProductStep, Sizes
  <2>6. index' = index + entry
    BY <2>a, <1>0, LedgerTypes, ProductStep
  <2>7. files' = files + segment
    BY <2>a, <1>0, LedgerTypes, ProductStep
  <2>8. source \in Nat /\ segment \in Nat /\ entry \in Nat
    BY <1>0, Zenon
  <2> HIDE DEF fixed, owned, index, files, rows, source, segment, entry, new
  <2> QED
    BY <1>0, <1>a, <1>b, <1>c, <2>1, <2>2, <2>3, <2>4, <2>5, <2>6, <2>7, <2>8
<1>3. ASSUME NEW left \in {0, 1}, AppendFails(left) PROVE LedgerInv'
  <2> DEFINE new == NewSource(call.row)
             source == IF new THEN SourceStorageBytes ELSE 0
             entry == IF call.indexNeeded THEN IndexBytes ELSE 0
  <2>1. /\ new \in BOOLEAN /\ call.openNeeded = TRUE /\ call.indexNeeded \in BOOLEAN
        /\ CutGrowth(new) \in Nat
    BY <1>3, CommitFacts, Zenon DEF AppendFails
  <2>2. Required = RecordBytes + CutGrowth(new) + source + SegmentBytes + entry
    BY <2>1, RequiredBound, Zenon DEF Required
  <2>3. files' <= files + SegmentBytes /\ files' \in Nat
    BY <1>3, LedgerTypes, Distribute DEF AppendFails
  <2>4. /\ projectedBytes' = projectedBytes + Required
        /\ cutReservedBytes' = cutReservedBytes + CutGrowth(new)
        /\ storedBytes' = storedBytes /\ owned' = owned /\ index' = index /\ rows' = rows
    BY <1>3, Zenon DEF AppendFails, reserveBytes, tableVars, rowVars, Buffered
  <2>5. source \in Nat /\ entry \in Nat
    BY <1>0, Zenon
  <2> HIDE DEF fixed, owned, index, files, rows, source, entry, new
  <2> QED
    BY <1>0, <1>a, <1>b, <1>c, <2>1, <2>2, <2>3, <2>4, <2>5
<1>4. ASSUME NEW added \in 1 .. MaximumSources, registerSources(added) PROVE LedgerInv'
  <2>1. index' = index /\ files' = files /\ storedBytes' = storedBytes /\ rows' = rows
    BY <1>4, Zenon DEF registerSources, rowVars, fileVars, segmentVars, Buffered
  <2>2. CASE UNCHANGED <<ledgerVars, sources>>
    BY <1>a, <1>b, <1>c, <2>1, <2>2, Zenon DEF ledgerVars
  <2>3. CASE /\ reserveBytes(added * SourceReservationBytes,
                             added * (2 * SourceStorageBytes))
             /\ sources' = sources + added
    <3> DEFINE grown == added * SourceStorageBytes
    <3>1. added \in Nat /\ grown \in Nat
      BY <1>0
    <3>2. /\ added * SourceReservationBytes = 3 * grown
          /\ added * (2 * SourceStorageBytes) = 2 * grown
      BY <1>0, <3>1 DEF SourceReservationBytes
    <3>3. owned' = owned + grown
      BY <1>0, <2>3, <3>1, LedgerTypes, Distribute
    <3>4. /\ projectedBytes' = projectedBytes + 3 * grown
          /\ cutReservedBytes' = cutReservedBytes + 2 * grown
      BY <2>3, <3>2, Zenon DEF reserveBytes
    <3> HIDE DEF fixed, owned, index, files, rows, grown
    <3> QED
      BY <1>0, <1>a, <1>b, <1>c, <2>1, <3>1, <3>3, <3>4
  <2> QED
    BY <1>4, <2>2, <2>3, Zenon DEF registerSources
<1>5. ASSUME NEW size \in ReferenceSize, setReferencePayload(size) PROVE LedgerInv'
  <2> DEFINE growth == IF size > referenceReservedBytes
                       THEN size - referenceReservedBytes ELSE 0
  <2>1. /\ index' = index /\ files' = files /\ storedBytes' = storedBytes
        /\ rows' = rows /\ owned' = owned
    BY <1>5, Zenon DEF setReferencePayload, tableVars, rowVars, fileVars, segmentVars, Buffered
  <2>2. growth \in Nat
    BY LedgerTypes
  <2>3. \/ /\ projectedBytes' = projectedBytes + 2 * growth
           /\ cutReservedBytes' = cutReservedBytes + 2 * growth
        \/ UNCHANGED <<projectedBytes, cutReservedBytes>>
    BY <1>5, Zenon DEF setReferencePayload, reserveBytes, ledgerVars
  <2> HIDE DEF fixed, owned, index, files, rows, growth
  <2> QED
    BY <1>0, <1>a, <1>b, <1>c, <2>1, <2>2, <2>3
<1>6. CASE UNCHANGED <<ledgerVars, sources, indexEntries, fileVars, pendingCount>>
  BY <1>6, <1>c, Zenon DEF LedgerInv, ledgerVars, fileVars, Buffered
<1>7. CASE beginFinalDrain
  BY <1>6, <1>7, Zenon DEF beginFinalDrain, tableVars, rowVars, segmentVars
<1> HIDE DEF fixed, owned, index, files, rows
<1> QED
  BY <1>1, <1>2, <1>3, <1>4, <1>5, <1>6, <1>7, LedgerMoves, Zenon DEF rowVars

(* The share set aside for cuts grows with every row, source and reference *)
(* byte, and holds both files of a replacement.                            *)
LEMMA CutStep ==
    ASSUME IInv, [Next]_vars PROVE CutInv'
<1> USE SizeAssumption
<1> DEFINE owned == sources * SourceStorageBytes
           ranges == recordCount * RangeBytes
           Paid == cutReservedBytes >=
                     2 * (CutHeaderBytes + owned + ranges + referenceReservedBytes)
           Files == 2 * cutFile <= cutReservedBytes /\ 2 * cutPending <= cutReservedBytes
<1>0. /\ cutReservedBytes \in Nat /\ owned \in Nat /\ ranges \in Nat
      /\ referenceReservedBytes \in Nat /\ SourceStorageBytes \in Nat
      /\ cutFile \in Nat /\ cutPending \in Nat
  BY LedgerTypes, Sizes, TypeParts DEF IInv, CounterType
<1>a. CutInv <=> Paid /\ Files
  BY Zenon DEF CutInv
<1>b. CutInv' <=> Paid' /\ Files'
  BY Zenon DEF CutInv
<1>c. Paid /\ Files
  BY <1>a, Zenon DEF IInv
<1>1. CASE AppendCommit
  <2> DEFINE new == NewSource(call.row)
             source == IF new THEN SourceStorageBytes ELSE 0
  <2>1. CutGrowth(new) = 2 * RangeBytes + 2 * source /\ source \in Nat
    BY <1>0 DEF CutGrowth, RecordCutReservationBytes
  <2>2. cutReservedBytes' = cutReservedBytes + CutGrowth(new)
    BY <1>1, Zenon DEF AppendCommit, reserveBytes
  <2>a. /\ sources' = IF new THEN sources + 1 ELSE sources
        /\ recordCount' = recordCount + 1
    BY <1>1, LedgerTypes DEF AppendCommit
  <2>3. owned' = owned + source
    BY <2>a, <1>0, LedgerTypes, ProductStep, Sizes
  <2>4. ranges' = ranges + RangeBytes
    BY <2>a, LedgerTypes, ProductStep, Zenon
  <2>5. /\ referenceReservedBytes' = referenceReservedBytes
        /\ cutFile' = cutFile /\ cutPending' = cutPending
    BY <1>1, Zenon DEF AppendCommit, referenceVars, cutVars
  <2> HIDE DEF owned, ranges, new, source
  <2> QED
    BY <1>0, <1>b, <1>c, <2>1, <2>2, <2>3, <2>4, <2>5
<1>2. ASSUME NEW left \in {0, 1}, AppendFails(left) PROVE CutInv'
  <2>1. CutGrowth(NewSource(call.row)) \in Nat
    BY <1>2, CommitFacts, Zenon DEF AppendFails
  <2>2. cutReservedBytes' = cutReservedBytes + CutGrowth(NewSource(call.row))
    BY <1>2, Zenon DEF AppendFails, reserveBytes
  <2>3. /\ owned' = owned /\ ranges' = ranges
        /\ referenceReservedBytes' = referenceReservedBytes
        /\ cutFile' = cutFile /\ cutPending' = cutPending
    BY <1>2, Zenon DEF AppendFails, referenceVars, cutVars, tableVars, rowVars
  <2> HIDE DEF owned, ranges
  <2> QED
    BY <1>0, <1>b, <1>c, <2>1, <2>2, <2>3
<1>3. ASSUME NEW added \in 1 .. MaximumSources, registerSources(added) PROVE CutInv'
  <2>1. /\ ranges' = ranges /\ referenceReservedBytes' = referenceReservedBytes
        /\ cutFile' = cutFile /\ cutPending' = cutPending
    BY <1>3, Zenon DEF registerSources, rowVars, referenceVars, cutVars
  <2>2. CASE UNCHANGED <<ledgerVars, sources>>
    BY <1>b, <1>c, <2>1, <2>2, Zenon DEF ledgerVars
  <2>3. CASE /\ reserveBytes(added * SourceReservationBytes,
                             added * (2 * SourceStorageBytes))
             /\ sources' = sources + added
    <3> DEFINE grown == added * SourceStorageBytes
    <3>1. added \in Nat /\ grown \in Nat
      BY <1>0
    <3>2. added * (2 * SourceStorageBytes) = 2 * grown
      BY <1>0, <3>1
    <3>3. owned' = owned + grown
      BY <1>0, <2>3, <3>1, LedgerTypes, Distribute
    <3>4. cutReservedBytes' = cutReservedBytes + 2 * grown
      BY <2>3, <3>2, Zenon DEF reserveBytes
    <3> HIDE DEF owned, ranges, grown
    <3> QED
      BY <1>0, <1>b, <1>c, <2>1, <3>1, <3>3, <3>4
  <2> QED
    BY <1>3, <2>2, <2>3, Zenon DEF registerSources
<1>4. ASSUME NEW size \in ReferenceSize, setReferencePayload(size) PROVE CutInv'
  <2> DEFINE growth == IF size > referenceReservedBytes
                       THEN size - referenceReservedBytes ELSE 0
  <2>1. /\ owned' = owned /\ ranges' = ranges
        /\ cutFile' = cutFile /\ cutPending' = cutPending
    BY <1>4, Zenon DEF setReferencePayload, tableVars, rowVars, cutVars
  <2>2. growth \in Nat
    BY LedgerTypes
  <2>3. \/ /\ cutReservedBytes' = cutReservedBytes + 2 * growth
           /\ referenceReservedBytes' = referenceReservedBytes + growth
        \/ UNCHANGED <<cutReservedBytes, referenceReservedBytes>>
    BY <1>4, Zenon DEF setReferencePayload, reserveBytes, ledgerVars, referenceVars
  <2> HIDE DEF owned, ranges, growth
  <2> QED
    BY <1>0, <1>b, <1>c, <2>1, <2>2, <2>3
<1>5. CASE WriteCut
  <2>1. /\ cutReservedBytes' = cutReservedBytes /\ owned' = owned /\ ranges' = ranges
        /\ referenceReservedBytes' = referenceReservedBytes /\ cutFile' = cutFile
    BY <1>5, Zenon DEF WriteCut, ledgerVars, referenceVars, tableVars, rowVars
  <2>2. 2 * cutPending' <= cutReservedBytes
    <3>1. CASE cutPending' = cutPending
      BY <3>1, <1>c, Zenon
    <3>2. CASE /\ CutRequired <= cutReservedBytes
               /\ cutPending' = CutHeaderBytes + sources * SourceBytes
                    + Cardinality(gaps) * GapBytes + blocks * RangeBytes + referenceBytes
      BY <3>2, Zenon DEF CutRequired, cutReservationBytes
    <3> QED
      BY <1>5, <3>1, <3>2, Zenon DEF WriteCut
  <2> HIDE DEF owned, ranges
  <2> QED
    BY <1>b, <1>c, <2>1, <2>2, Zenon
<1>6. CASE RenameCut
  <2>1. /\ cutReservedBytes' = cutReservedBytes /\ owned' = owned /\ ranges' = ranges
        /\ referenceReservedBytes' = referenceReservedBytes
        /\ cutFile' = cutPending /\ cutPending' = 0
    BY <1>6, Zenon DEF RenameCut, ledgerVars, referenceVars, tableVars, rowVars
  <2> HIDE DEF owned, ranges
  <2> QED
    BY <1>0, <1>b, <1>c, <2>1
<1>7. CASE UNCHANGED <<cutReservedBytes, sources, recordCount, referenceVars, cutVars>>
  BY <1>7, <1>b, <1>c, Zenon DEF referenceVars, cutVars
<1>8. ASSUME NEW s \in Shard, NEW physicalBytes, flushBlock(s, physicalBytes)
      PROVE  CutInv'
  BY <1>7, <1>8, Zenon DEF flushBlock, rowVars
<1>9. CASE FlushFails \/ AppendMeasure \/ AppendQuota \/ beginFinalDrain
  BY <1>7, <1>9, Zenon DEF FlushFails, AppendMeasure, AppendQuota, beginFinalDrain,
                    ledgerVars, tableVars, rowVars
<1>10. ASSUME NEW row, AppendCheck(row) PROVE CutInv'
  BY <1>7, <1>10, Zenon DEF AppendCheck, ledgerVars, tableVars, rowVars
<1>11. ASSUME NEW source, NEW ch, appendGap(source, ch) PROVE CutInv'
  BY <1>7, <1>11, Zenon DEF appendGap, ledgerVars, rowVars
<1>12. CASE publishCut \/ CommitFails \/ finalize \/ FinalizeTables \/ FinalizeManifest
  BY <1>7, <1>12, Zenon DEF publishCut, CommitFails, finalize, FinalizeTables,
                     FinalizeManifest, ledgerVars, tableVars, rowVars
<1>13. CASE UNCHANGED vars
  BY <1>7, <1>13, Zenon DEF vars, ledgerVars, tableVars, rowVars
<1> QED
  BY <1>1, <1>2, <1>3, <1>4, <1>5, <1>6, <1>8, <1>9, <1>10, <1>11, <1>12, <1>13, Zenon
     DEF Next

(* What a row or a source is charged leaves room for those still pending. *)
LEMMA LimitStep ==
    ASSUME IInv, [Next]_vars PROVE LimitInv'
<1> USE SizeAssumption
<1> DEFINE rowsLeft == (MaximumPendingRecords - drained) * WorstRecordBytes
           sourcesLeft == (PendingNewSources - drainedSources) * SourceReservationBytes
           limit == IF finalDrain THEN MaximumBytes ELSE MaximumBytes - FinalDrainReserve
           Drain == /\ drained <= MaximumPendingRecords
                    /\ drainedSources <= PendingNewSources
                    /\ projectedBytes + rowsLeft + sourcesLeft <= MaximumBytes
           Fresh == drained = 0 /\ drainedSources = 0
<1>0. /\ projectedBytes \in Nat /\ drained \in Nat /\ drainedSources \in Nat
      /\ writeLimitBytes \in Nat /\ finalDrain \in BOOLEAN
      /\ WorstRecordBytes \in Nat /\ SourceReservationBytes \in Nat
      /\ PendingNewSources \in Nat /\ FinalDrainReserve \in Nat
      /\ rowsLeft \in Int /\ sourcesLeft \in Int
  <2>1. /\ projectedBytes \in Nat /\ drained \in Nat /\ drainedSources \in Nat
        /\ writeLimitBytes \in Nat
    BY LedgerTypes, Zenon
  <2>2. finalDrain \in BOOLEAN
    BY TypeParts, Zenon DEF IInv, ControlType
  <2>3. /\ WorstRecordBytes \in Nat /\ SourceReservationBytes \in Nat
        /\ PendingNewSources \in Nat /\ FinalDrainReserve \in Nat
    BY Sizes, Zenon
  <2>4. rowsLeft \in Int
    BY <2>1, <2>3
  <2>5. sourcesLeft \in Int
    BY <2>1, <2>3
  <2> QED
    BY <2>1, <2>2, <2>3, <2>4, <2>5, Zenon
<1>a. /\ projectedBytes <= writeLimitBytes /\ writeLimitBytes = limit
      /\ finalDrain => Drain
      /\ ~finalDrain => Fresh
  BY Zenon DEF IInv, LimitInv
<1>b. LimitInv' <=> /\ projectedBytes' <= writeLimitBytes' /\ writeLimitBytes' = limit'
                    /\ finalDrain' => Drain'
                    /\ ~finalDrain' => Fresh'
  BY Zenon DEF LimitInv
<1>1. ASSUME NEW s \in Shard, NEW physicalBytes \in 1 .. (pendingCount[s] * RecordBytes),
             flushBlock(s, physicalBytes)
      PROVE  LimitInv'
  <2>1. projectedBytes' = projectedBytes - (pendingCount[s] * RecordBytes - physicalBytes)
    BY <1>1, Zenon DEF flushBlock
  <2>2. projectedBytes' <= projectedBytes /\ projectedBytes' \in Int
    BY <1>0, <2>1, FlushFacts
  <2>3. /\ writeLimitBytes' = writeLimitBytes /\ limit' = limit
        /\ finalDrain' = finalDrain /\ drained' = drained
        /\ drainedSources' = drainedSources
        /\ rowsLeft' = rowsLeft /\ sourcesLeft' = sourcesLeft
    BY <1>1, Zenon DEF flushBlock, drainVars
  <2>4. projectedBytes' <= writeLimitBytes'
    BY <1>0, <1>a, <2>2, <2>3
  <2> HIDE DEF rowsLeft, sourcesLeft, limit
  <2>5. ASSUME finalDrain PROVE projectedBytes' + rowsLeft + sourcesLeft <= MaximumBytes
    <3>1. projectedBytes + rowsLeft + sourcesLeft <= MaximumBytes
      BY <1>a, <2>5, Zenon
    <3>2. /\ projectedBytes \in Int /\ projectedBytes' \in Int /\ MaximumBytes \in Int
          /\ rowsLeft \in Int /\ sourcesLeft \in Int
      BY <1>0, <2>2
    <3> QED
      BY <2>2, <3>1, <3>2, SumShrinks, Zenon
  <2>6. finalDrain' => Drain'
    BY <1>a, <2>3, <2>5, Zenon
  <2>7. ~finalDrain' => Fresh'
    BY <1>a, <2>3, Zenon
  <2> HIDE DEF Drain, Fresh
  <2> QED
    BY <1>a, <1>b, <2>3, <2>4, <2>6, <2>7, Zenon
<1>2. ASSUME NEW rows \in {0, 1}, NEW added \in Nat, NEW bytes \in Nat, NEW growth,
             DrainAdmits(rows, added), CountDrained(rows, added),
             bytes <= rows * WorstRecordBytes + added * SourceReservationBytes,
             reserveBytes(bytes, growth)
      PROVE  LimitInv'
  <2>1. /\ projectedBytes' = projectedBytes + bytes
        /\ projectedBytes + bytes <= writeLimitBytes
        /\ writeLimitBytes' = writeLimitBytes /\ finalDrain' = finalDrain /\ limit' = limit
    BY <1>2, Zenon DEF reserveBytes, addWithin, CountDrained
  <2>2. CASE ~finalDrain
    <3>1. drained' = drained /\ drainedSources' = drainedSources
      BY <1>2, <2>2, Zenon DEF CountDrained
    <3> HIDE DEF rowsLeft, sourcesLeft, limit
    <3> QED
      BY <1>0, <1>a, <1>b, <2>1, <2>2, <3>1, Zenon
  <2>3. CASE finalDrain
    <3>1. drained' = drained + rows /\ drainedSources' = drainedSources + added
      BY <1>2, <2>3, Zenon DEF CountDrained
    <3>2. /\ drained + rows <= MaximumPendingRecords
          /\ drainedSources + added <= PendingNewSources
      BY <1>2, <2>3, Zenon DEF DrainAdmits
    <3>3. /\ rowsLeft' = rowsLeft - rows * WorstRecordBytes
          /\ rows * WorstRecordBytes \in Nat
      BY <1>0, <3>1
    <3>4. /\ sourcesLeft' = sourcesLeft - added * SourceReservationBytes
          /\ added * SourceReservationBytes \in Nat
      BY <1>0, <3>1
    <3> DEFINE charge == rows * WorstRecordBytes
               sourceCharge == added * SourceReservationBytes
    <3>5. bytes <= charge + sourceCharge
      BY <1>2, Zenon
    <3> HIDE DEF rowsLeft, sourcesLeft, limit, charge, sourceCharge
    <3>6. projectedBytes' + rowsLeft' + sourcesLeft' <= MaximumBytes
      BY <1>0, <1>a, <2>1, <2>3, <3>3, <3>4, <3>5 DEF charge, sourceCharge
    <3> QED
      BY <1>0, <1>a, <1>b, <2>1, <2>3, <3>1, <3>2, <3>6, Zenon
  <2> QED
    BY <1>0, <2>2, <2>3, Zenon
<1>3. ASSUME pc = "commit", todo = {},
             reserveBytes(Required, CutGrowth(NewSource(call.row))),
             CountDrained(1, IF NewSource(call.row) THEN 1 ELSE 0)
      PROVE  LimitInv'
  <2> DEFINE added == IF NewSource(call.row) THEN 1 ELSE 0
  <2>1. Required \in Nat /\ NewSource(call.row) \in BOOLEAN
    BY <1>3, CommitFacts, Zenon
  <2>2. Required <= WorstRecordBytes
                      + (IF NewSource(call.row) THEN SourceReservationBytes ELSE 0)
    BY <1>3, CommitFacts, RequiredBound, Zenon DEF Required
  <2>3. Required <= 1 * WorstRecordBytes + added * SourceReservationBytes
    BY <1>0, <2>1, <2>2
  <2>4. DrainAdmits(1, added)
    BY <1>3, Zenon DEF IInv, CallInv
  <2>5. added \in Nat
    BY Zenon
  <2>6. CountDrained(1, added)
    BY <1>3, Zenon
  <2> HIDE DEF added
  <2> QED
    BY <1>2, <1>3, <2>1, <2>3, <2>4, <2>5, <2>6, Zenon
<1>4. CASE AppendCommit
  BY <1>3, <1>4, Zenon DEF AppendCommit
<1>5. ASSUME NEW left \in {0, 1}, AppendFails(left) PROVE LimitInv'
  BY <1>3, <1>5, Zenon DEF AppendFails
<1>6. CASE UNCHANGED <<ledgerVars, drainVars>>
  BY <1>6, Zenon DEF IInv, LimitInv, ledgerVars, drainVars
<1>7. ASSUME NEW added \in 1 .. MaximumSources, registerSources(added) PROVE LimitInv'
  <2>1. CASE UNCHANGED <<ledgerVars, drainVars>>
    BY <1>6, <2>1, Zenon
  <2>2. CASE /\ reserveBytes(added * SourceReservationBytes,
                             added * (2 * SourceStorageBytes))
             /\ CountDrained(0, added)
    <3>1. added \in Nat /\ added * SourceReservationBytes \in Nat
      BY <1>0
    <3>2. added * SourceReservationBytes <=
            0 * WorstRecordBytes + added * SourceReservationBytes
      BY <1>0, <3>1
    <3>3. DrainAdmits(0, added)
      BY <1>7, Zenon DEF registerSources
    <3> QED
      BY <1>2, <2>2, <3>1, <3>2, <3>3, Zenon
  <2> QED
    BY <1>7, <2>1, <2>2, Zenon DEF registerSources
<1>8. ASSUME NEW size \in ReferenceSize, setReferencePayload(size) PROVE LimitInv'
  <2>1. ~finalDrain /\ UNCHANGED drainVars
    BY <1>8, Zenon DEF setReferencePayload
  <2>2. projectedBytes' <= writeLimitBytes
    BY <1>8, <1>a, Zenon DEF setReferencePayload, reserveBytes, addWithin, ledgerVars
  <2>3. /\ writeLimitBytes' = writeLimitBytes /\ finalDrain' = finalDrain
        /\ drained' = drained /\ drainedSources' = drainedSources /\ limit' = limit
    BY <2>1, Zenon DEF drainVars
  <2> HIDE DEF rowsLeft, sourcesLeft, limit
  <2> QED
    BY <1>a, <1>b, <2>1, <2>2, <2>3, Zenon
<1>9. CASE beginFinalDrain
  <2>1. /\ ~finalDrain /\ finalDrain' = TRUE /\ writeLimitBytes' = MaximumBytes
        /\ projectedBytes' = projectedBytes
        /\ drained' = drained /\ drainedSources' = drainedSources
    BY <1>9, Zenon DEF beginFinalDrain, ledgerVars
  <2>2. drained = 0 /\ drainedSources = 0
    BY <1>a, <2>1, Zenon
  <2>3. rowsLeft' + sourcesLeft' = FinalDrainReserve
    BY <1>0, <2>1, <2>2 DEF FinalDrainReserve
  <2>4. rowsLeft' \in Int /\ sourcesLeft' \in Int
    BY <1>0, <2>1, Zenon
  <2>5. projectedBytes <= MaximumBytes - FinalDrainReserve
    BY <1>a, <2>1, Zenon
  <2>6. limit' = MaximumBytes
    BY <2>1, Zenon
  <2>7. projectedBytes' + rowsLeft' + sourcesLeft' <= MaximumBytes
    <3> DEFINE left == rowsLeft' + sourcesLeft'
    <3>1. left = FinalDrainReserve
      BY <2>3, Zenon
    <3>2. projectedBytes + left <= MaximumBytes
      <4> HIDE DEF left
      <4> QED
        BY <1>0, <2>5, <3>1
    <3>3. projectedBytes + left = projectedBytes' + rowsLeft' + sourcesLeft'
      <4> HIDE DEF rowsLeft, sourcesLeft
      <4> QED
        BY <1>0, <2>1, <2>4
    <3> HIDE DEF left
    <3> QED
      BY <3>2, <3>3, Zenon
  <2>8. Drain'
    BY <1>0, <2>1, <2>2, <2>7
  <2>9. projectedBytes' <= writeLimitBytes'
    BY <1>0, <2>1, <2>5
  <2> HIDE DEF rowsLeft, sourcesLeft, limit, Drain, Fresh
  <2> QED
    BY <1>b, <2>1, <2>6, <2>8, <2>9, Zenon
<1> HIDE DEF rowsLeft, sourcesLeft, limit, Drain, Fresh
<1> QED
  BY <1>1, <1>4, <1>5, <1>6, <1>7, <1>8, <1>9, LedgerMoves, Zenon

-----------------------------------------------------------------------------
(* The files of a cut have natural sizes. *)
LEMMA CutTypeStep ==
    ASSUME IInv, [Next]_vars PROVE cutFile' \in Nat /\ cutPending' \in Nat
<1> USE SizeAssumption
<1>0. cutFile \in Nat /\ cutPending \in Nat
  BY TypeParts, Zenon DEF IInv, CounterType
<1>1. CASE UNCHANGED cutVars
  BY <1>0, <1>1, Zenon DEF cutVars
<1>2. CASE WriteCut
  <2>1. Cardinality(gaps) \in Nat
    <3>1. gaps \in SUBSET ((1 .. sources) \X Channel)
      BY TypeParts, Zenon DEF IInv, SegmentType
    <3> QED
      BY <3>1, LedgerTypes, GapCells, Zenon
  <2>2. /\ sources * SourceBytes \in Nat /\ Cardinality(gaps) * GapBytes \in Nat
        /\ blocks * RangeBytes \in Nat /\ referenceBytes \in Nat
    BY <2>1, LedgerTypes, TypeParts DEF IInv, CounterType
  <2> QED
    BY <1>0, <1>2, <2>2 DEF WriteCut
<1>3. CASE RenameCut
  BY <1>0, <1>3, Zenon DEF RenameCut
<1>4. ASSUME NEW s, NEW physicalBytes, flushBlock(s, physicalBytes) PROVE UNCHANGED cutVars
  BY <1>4, Zenon DEF flushBlock
<1>5. ASSUME FlushFails \/ AppendMeasure \/ AppendQuota \/ AppendCommit
      PROVE  UNCHANGED cutVars
  BY <1>5, Zenon DEF FlushFails, AppendMeasure, AppendQuota, AppendCommit, cutVars
<1>6. ASSUME NEW row, AppendCheck(row) PROVE UNCHANGED cutVars
  BY <1>6, Zenon DEF AppendCheck
<1>7. ASSUME NEW left, AppendFails(left) PROVE UNCHANGED cutVars
  BY <1>7, Zenon DEF AppendFails
<1>8. ASSUME NEW added, registerSources(added) PROVE UNCHANGED cutVars
  BY <1>8, Zenon DEF registerSources
<1>9. ASSUME NEW source, NEW ch, appendGap(source, ch) PROVE UNCHANGED cutVars
  BY <1>9, Zenon DEF appendGap
<1>10. ASSUME NEW size, setReferencePayload(size) PROVE UNCHANGED cutVars
  BY <1>10, Zenon DEF setReferencePayload
<1>11. ASSUME \/ beginFinalDrain \/ publishCut \/ CommitFails \/ finalize
              \/ FinalizeTables \/ FinalizeManifest
       PROVE  UNCHANGED cutVars
  BY <1>11, Zenon DEF beginFinalDrain, publishCut, CommitFails, finalize, FinalizeTables,
     FinalizeManifest, cutVars
<1>12. ASSUME UNCHANGED vars PROVE UNCHANGED cutVars
  BY <1>12, Zenon DEF vars
<1>13. \/ UNCHANGED cutVars \/ WriteCut \/ RenameCut
  BY <1>4, <1>5, <1>6, <1>7, <1>8, <1>9, <1>10, <1>11, <1>12, Zenon DEF Next
<1> QED
  BY <1>1, <1>2, <1>3, <1>13, Zenon

(* The counters stay in their ranges. *)
Counters ==
    /\ projectedBytes \in Nat /\ writeLimitBytes \in Nat /\ cutReservedBytes \in Nat
    /\ referenceReservedBytes \in Nat /\ referenceBytes \in 0 .. referenceReservedBytes
    /\ sources \in InitialSources .. MaximumSources
    /\ blocks \in Nat /\ recordCount \in Nat /\ indexEntries \in Nat
    /\ segmentFiles \in Nat /\ storedBytes \in Nat
    /\ drained \in Nat /\ drainedSources \in Nat

LEMMA CounterStep ==
    ASSUME IInv, [Next]_vars PROVE CounterType'
<1>z. /\ MaximumBytes \in Nat /\ MaximumSources \in Nat /\ InitialSources \in Nat
      /\ IndexBytes \in Nat /\ SegmentBytes \in Nat /\ RecordBytes \in Nat
      /\ CutHeaderBytes \in Nat /\ ManifestBytes \in Nat /\ TableBytes \in Nat
      /\ ReferenceSize \subseteq Nat
  BY SizeAssumption, Zenon
<1> USE <1>z
<1>0. CounterType
  BY TypeParts, Zenon DEF IInv
<1>a. Counters
  BY <1>0, Zenon DEF CounterType, Counters
<1> SUFFICES Counters'
  BY CutTypeStep, Zenon DEF CounterType, Counters
<1>1. ASSUME NEW s \in Shard, NEW physicalBytes \in 1 .. (pendingCount[s] * RecordBytes),
             flushBlock(s, physicalBytes)
      PROVE  Counters'
  <2> DEFINE reserved == pendingCount[s] * RecordBytes
             rows == Cardinality(Buffered) * RecordBytes
  <2>1. reserved \in Nat /\ reserved <= rows /\ rows \in Nat
    BY FlushFacts, ProductGrows, Zenon
  <2>2. projectedBytes >= rows
    <3>1. /\ sources * SourceStorageBytes \in Nat /\ indexEntries * IndexBytes \in Nat
          /\ segmentFiles * SegmentBytes \in Nat /\ cutReservedBytes \in Nat
          /\ storedBytes \in Nat /\ projectedBytes \in Nat
      BY <1>0, Sizes DEF CounterType
    <3> DEFINE a == sources * SourceStorageBytes
               b == indexEntries * IndexBytes
               c == segmentFiles * SegmentBytes
    <3>2. projectedBytes >= CutHeaderBytes + 2 * ManifestBytes + 3 * TableBytes
             + a + cutReservedBytes + b + c + storedBytes + rows
      BY Zenon DEF IInv, LedgerInv
    <3>3. a \in Nat /\ b \in Nat /\ c \in Nat
      BY <3>1, Zenon
    <3> HIDE DEF a, b, c, rows
    <3> QED
      BY <2>1, <3>1, <3>2, <3>3
  <2>3. projectedBytes' = projectedBytes - (reserved - physicalBytes)
    BY <1>1, Zenon DEF flushBlock
  <2>4. physicalBytes \in Nat
    BY <2>1
  <2> HIDE DEF reserved, rows
  <2>5. projectedBytes' \in Nat
    BY <1>0, <2>1, <2>2, <2>3, <2>4 DEF CounterType
  <2> QED
    BY <1>a, <1>1, <2>4, <2>5 DEF Counters, flushBlock, referenceVars, rowVars, drainVars
<1>2. ASSUME pc = "commit", todo = {},
             reserveBytes(Required, CutGrowth(NewSource(call.row))),
             CountDrained(1, IF NewSource(call.row) THEN 1 ELSE 0)
      PROVE  /\ projectedBytes' \in Nat /\ cutReservedBytes' \in Nat
             /\ writeLimitBytes' \in Nat /\ drained' \in Nat /\ drainedSources' \in Nat
  BY <1>2, <1>a, CommitFacts DEF Counters, reserveBytes, CountDrained
<1>3. CASE AppendCommit
  <2>1. NewSource(call.row) => sources < MaximumSources
    BY <1>3, Zenon DEF IInv, CallInv, AppendCommit
  <2>2. sources' \in InitialSources .. MaximumSources
    BY <1>3, <1>a, <2>1, SourceAssumption DEF Counters, AppendCommit
  <2>3. /\ projectedBytes' \in Nat /\ cutReservedBytes' \in Nat
        /\ writeLimitBytes' \in Nat /\ drained' \in Nat /\ drainedSources' \in Nat
    BY <1>2, <1>3, Zenon DEF AppendCommit
  <2> QED
    BY <1>3, <1>a, <2>2, <2>3 DEF Counters, AppendCommit, referenceVars
<1>4. ASSUME NEW left \in {0, 1}, AppendFails(left) PROVE Counters'
  <2>1. /\ projectedBytes' \in Nat /\ cutReservedBytes' \in Nat
        /\ writeLimitBytes' \in Nat /\ drained' \in Nat /\ drainedSources' \in Nat
    BY <1>2, <1>4, Zenon DEF AppendFails
  <2> QED
    BY <1>4, <1>a, <2>1 DEF Counters, AppendFails, referenceVars, tableVars, rowVars
<1>5. ASSUME NEW added \in 1 .. MaximumSources, registerSources(added) PROVE Counters'
  <2>1. /\ added \in Nat /\ added * SourceReservationBytes \in Nat
        /\ added * (2 * SourceStorageBytes) \in Nat
    BY Sizes
  <2>2. CASE UNCHANGED <<ledgerVars, sources, drainVars>>
    BY <1>5, <1>a, <2>2, Zenon
       DEF Counters, registerSources, ledgerVars, referenceVars, rowVars, fileVars, drainVars
  <2>3. CASE /\ reserveBytes(added * SourceReservationBytes,
                             added * (2 * SourceStorageBytes))
             /\ sources' = sources + added
             /\ CountDrained(0, added)
    <3>1. /\ projectedBytes' \in Nat /\ cutReservedBytes' \in Nat
          /\ writeLimitBytes' \in Nat /\ drained' \in Nat /\ drainedSources' \in Nat
      BY <1>a, <2>1, <2>3 DEF Counters, reserveBytes, CountDrained
    <3>2. sources' \in InitialSources .. MaximumSources
      BY <1>5, <1>a, <2>1, <2>3, SourceAssumption DEF Counters, registerSources
    <3> QED
      BY <1>5, <1>a, <3>1, <3>2, Zenon DEF Counters, registerSources, referenceVars, rowVars, fileVars
  <2> QED
    BY <1>5, <2>2, <2>3, Zenon DEF registerSources
<1>6. ASSUME NEW size \in ReferenceSize, setReferencePayload(size) PROVE Counters'
  <2>1. size \in Nat
    BY Zenon
  <2>2. CASE UNCHANGED <<ledgerVars, referenceVars>>
    BY <1>6, <1>a, <2>2, Zenon
       DEF Counters, setReferencePayload, ledgerVars, referenceVars, tableVars, rowVars,
           fileVars, drainVars
  <2>3. CASE ~UNCHANGED <<ledgerVars, referenceVars>>
    <3> DEFINE growth == IF size > referenceReservedBytes
                         THEN size - referenceReservedBytes ELSE 0
    <3>1. growth \in Nat /\ size <= referenceReservedBytes + growth
      BY <1>a, <2>1 DEF Counters
    <3>2. /\ projectedBytes' = projectedBytes + 2 * growth
          /\ cutReservedBytes' = cutReservedBytes + 2 * growth
          /\ referenceReservedBytes' = referenceReservedBytes + growth
          /\ referenceBytes' = size
      BY <1>6, <2>3, Zenon DEF setReferencePayload, reserveBytes
    <3> HIDE DEF growth
    <3>3. /\ projectedBytes' \in Nat /\ cutReservedBytes' \in Nat
          /\ referenceReservedBytes' \in Nat
          /\ referenceBytes' \in 0 .. referenceReservedBytes'
      BY <1>a, <2>1, <3>1, <3>2 DEF Counters
    <3> QED
      BY <1>6, <1>a, <3>3, Zenon
         DEF Counters, setReferencePayload, tableVars, rowVars, fileVars, drainVars
  <2> QED
    BY <2>2, <2>3, Zenon
<1>7. CASE beginFinalDrain
  <2>1. /\ UNCHANGED <<projectedBytes, cutReservedBytes, referenceReservedBytes,
                       referenceBytes, sources, blocks, recordCount, indexEntries>>
        /\ UNCHANGED <<segmentFiles, storedBytes, drained, drainedSources>>
        /\ writeLimitBytes' = MaximumBytes
    BY <1>7, Zenon DEF beginFinalDrain, ledgerVars, referenceVars, tableVars, rowVars, fileVars
  <2> QED
    BY <1>a, <2>1, Zenon DEF Counters
<1>8. CASE UNCHANGED <<ledgerVars, referenceVars, sources, blocks, rowVars,
                       pendingCount, segmentBytes, fileVars, drainVars>>
  <2>1. /\ UNCHANGED <<projectedBytes, cutReservedBytes, referenceReservedBytes,
                       referenceBytes, sources, blocks, recordCount, indexEntries>>
        /\ UNCHANGED <<segmentFiles, storedBytes, drained, drainedSources>>
        /\ UNCHANGED writeLimitBytes
    BY <1>8, Zenon DEF ledgerVars, referenceVars, rowVars, fileVars, drainVars
  <2> QED
    BY <1>a, <2>1, Zenon DEF Counters
<1> QED
  BY <1>1, <1>3, <1>4, <1>5, <1>6, <1>7, <1>8, LedgerMoves, Zenon

(* The steps that touch a segment or a table. *)
LEMMA SegmentMoves ==
    ASSUME [Next]_vars
    PROVE  \/ \E s \in Shard :
                \E physicalBytes \in 1 .. (pendingCount[s] * RecordBytes) :
                  flushBlock(s, physicalBytes)
           \/ AppendCommit
           \/ \E left \in {0, 1} : AppendFails(left)
           \/ \E added \in 1 .. MaximumSources : registerSources(added)
           \/ \E source \in 1 .. sources, ch \in Channel : appendGap(source, ch)
           \/ FinalizeTables
           \/ UNCHANGED <<sources, gaps, segmentVars>>
<1> DEFINE Still == UNCHANGED <<sources, gaps, segmentVars>>
<1>1. ASSUME FlushFails \/ AppendMeasure \/ AppendQuota PROVE Still
  BY <1>1, Zenon DEF FlushFails, AppendMeasure, AppendQuota, tableVars
<1>2. ASSUME NEW row, AppendCheck(row) PROVE Still
  BY <1>2, Zenon DEF AppendCheck, tableVars
<1>3. ASSUME NEW size, setReferencePayload(size) PROVE Still
  BY <1>3, Zenon DEF setReferencePayload, tableVars
<1>4. ASSUME beginFinalDrain \/ publishCut \/ WriteCut PROVE Still
  BY <1>4, Zenon DEF beginFinalDrain, publishCut, WriteCut, tableVars
<1>5. ASSUME RenameCut \/ CommitFails \/ finalize \/ FinalizeManifest PROVE Still
  BY <1>5, Zenon DEF RenameCut, CommitFails, finalize, FinalizeManifest, tableVars
<1>6. ASSUME UNCHANGED vars PROVE Still
  BY <1>6, Zenon DEF vars, tableVars
<1> HIDE DEF Still
<1>7. \/ Next \/ Still
  BY <1>6, Zenon
<1> QED
  BY <1>1, <1>2, <1>3, <1>4, <1>5, <1>7, Zenon DEF Next, Still

(* The first two conjuncts of SegmentInv. *)
ShardInv ==
    /\ \A s \in Shard : segmentBytes[s] >= pendingCount[s] * RecordBytes
    /\ \A s \in Shard : ~open[s] => pendingCount[s] = 0

(* Segments keep their types and the bytes of their buffered rows. *)
LEMMA ShardStep ==
    ASSUME IInv, [Next]_vars PROVE SegmentType' /\ ShardInv'
<1>z. RecordBytes \in Nat /\ SegmentBytes \in Nat /\ BlockRecords \in Nat \ {0}
  BY SizeAssumption, Zenon
<1> USE <1>z
<1>0. SegmentType /\ ShardInv /\ sources \in Nat
  BY TypeParts, LedgerTypes, Zenon DEF IInv, SegmentInv, ShardInv
<1>1. ASSUME NEW s \in Shard, NEW physicalBytes \in 1 .. (pendingCount[s] * RecordBytes),
             flushBlock(s, physicalBytes)
      PROVE  SegmentType' /\ ShardInv'
  <2>1. /\ pendingCount[s] * RecordBytes \in Nat /\ physicalBytes \in Nat
        /\ segmentBytes[s] \in Nat /\ segmentBytes[s] >= pendingCount[s] * RecordBytes
    BY <1>0, FlushFacts, Zenon DEF SegmentType, ShardInv
  <2>2. segmentBytes[s] - (pendingCount[s] * RecordBytes - physicalBytes) \in Nat
    BY <2>1
  <2>3. /\ segmentBytes' = [segmentBytes EXCEPT
                  ![s] = @ - (pendingCount[s] * RecordBytes - physicalBytes)]
        /\ pendingCount' = [pendingCount EXCEPT ![s] = 0]
        /\ UNCHANGED <<gaps, sources, open, used, channel, indexed>>
    BY <1>1, Zenon DEF flushBlock
  <2>4. segmentBytes' \in [Shard -> Nat] /\ pendingCount' \in [Shard -> 0 .. BlockRecords]
    BY <1>0, <2>2, <2>3 DEF SegmentType
  <2>5. SegmentType'
    BY <1>0, <2>3, <2>4, Zenon DEF SegmentType
  <2>6. ASSUME NEW t \in Shard
        PROVE  /\ segmentBytes'[t] >= pendingCount'[t] * RecordBytes
               /\ ~open'[t] => pendingCount'[t] = 0
    <3>1. CASE t = s
      BY <1>0, <2>2, <2>3, <3>1 DEF SegmentType
    <3>2. CASE t # s
      BY <1>0, <2>3, <3>2, Zenon DEF SegmentType, ShardInv
    <3> QED
      BY <3>1, <3>2, Zenon
  <2> QED
    BY <2>5, <2>6, Zenon DEF ShardInv
<1>2. CASE AppendCommit
  <2> DEFINE s == call.row.shard
             old == IF call.openNeeded THEN SegmentBytes ELSE segmentBytes[s]
  <2>1. /\ s \in Shard /\ call.row \in Row /\ call.openNeeded \in BOOLEAN
        /\ pendingCount[s] < BlockRecords
        /\ call.openNeeded => pendingCount[s] = 0
    BY <1>2, CommitFacts, Zenon DEF IInv, CallInv, AppendCommit
  <2>2. /\ segmentBytes' = [segmentBytes EXCEPT ![s] = old + RecordBytes]
        /\ pendingCount' = [pendingCount EXCEPT ![s] = pendingCount[s] + 1]
        /\ open' = [open EXCEPT ![s] = TRUE]
        /\ channel' = [channel EXCEPT ![s] = call.row.channel]
        /\ used' = [used EXCEPT ![s] = TRUE]
        /\ indexed' = [indexed EXCEPT
             ![s] = (IF call.openNeeded THEN {} ELSE indexed[s]) \cup {Key(call.row)}]
        /\ gaps' = gaps
    BY <1>2, Zenon DEF AppendCommit
  <2>3. /\ pendingCount[s] \in Nat /\ pendingCount[s] + 1 \in 0 .. BlockRecords
        /\ segmentBytes[s] \in Nat /\ segmentBytes[s] >= pendingCount[s] * RecordBytes
    BY <1>0, <2>1 DEF SegmentType, ShardInv
  <2>4. old \in Nat /\ old >= pendingCount[s] * RecordBytes
    BY <2>1, <2>3
  <2>5. (pendingCount[s] + 1) * RecordBytes = pendingCount[s] * RecordBytes + RecordBytes
    BY <2>3, Distribute
  <2>6. sources' \in Nat /\ sources' >= sources
    BY <1>0, <1>2 DEF AppendCommit
  <2>7. gaps' \in SUBSET ((1 .. sources') \X Channel)
    BY <1>0, <2>2, <2>6 DEF SegmentType
  <2>8. Key(call.row) \in Nat \X Generation \X Channel /\ call.row.channel \in Channel
    BY <2>1, Zenon DEF Key, Row
  <2>9. indexed' \in [Shard -> SUBSET (Nat \X Generation \X Channel)]
    BY <1>0, <2>1, <2>2, <2>8, Zenon DEF SegmentType
  <2>10. /\ open' \in [Shard -> BOOLEAN] /\ used' \in [Shard -> BOOLEAN]
         /\ channel' \in [Shard -> Channel]
    BY <1>0, <2>1, <2>2, <2>8, Zenon DEF SegmentType
  <2> HIDE DEF s, old
  <2>11. /\ segmentBytes' \in [Shard -> Nat]
         /\ pendingCount' \in [Shard -> 0 .. BlockRecords]
    BY <1>0, <2>1, <2>2, <2>3, <2>4 DEF SegmentType
  <2>12. ASSUME NEW t \in Shard
         PROVE  /\ segmentBytes'[t] >= pendingCount'[t] * RecordBytes
                /\ ~open'[t] => pendingCount'[t] = 0
    <3>1. CASE t = s
      <4>1. /\ segmentBytes'[t] = old + RecordBytes
            /\ pendingCount'[t] * RecordBytes = (pendingCount[s] + 1) * RecordBytes
            /\ open'[t] = TRUE
        BY <1>0, <2>1, <2>2, <3>1, Zenon DEF SegmentType
      <4>2. pendingCount[s] * RecordBytes \in Nat
        BY <2>3
      <4> QED
        BY <2>4, <2>5, <4>1, <4>2
    <3>2. CASE t # s
      BY <1>0, <2>1, <2>2, <3>2, Zenon DEF SegmentType, ShardInv
    <3> QED
      BY <3>1, <3>2, Zenon
  <2> QED
    BY <2>7, <2>9, <2>10, <2>11, <2>12, Zenon DEF SegmentType, ShardInv
<1>3. ASSUME NEW left \in {0, 1}, AppendFails(left) PROVE SegmentType' /\ ShardInv'
  <2>1. /\ call.row.shard \in Shard
        /\ pendingCount[call.row.shard] = 0
    BY <1>3, CommitFacts, Zenon DEF IInv, CallInv, AppendFails
  <2>2. /\ UNCHANGED <<gaps, sources, pendingCount, channel, used, segmentBytes, indexed>>
        /\ \/ open' = open
           \/ open' = [open EXCEPT ![call.row.shard] = FALSE]
    BY <1>3, Zenon DEF AppendFails, tableVars
  <2> QED
    BY <1>0, <2>1, <2>2, Zenon DEF SegmentType, ShardInv
<1>4. ASSUME NEW added \in 1 .. MaximumSources, registerSources(added)
      PROVE  SegmentType' /\ ShardInv'
  <2>1. /\ UNCHANGED <<gaps, open, used, pendingCount, channel, segmentBytes, indexed>>
        /\ sources' = sources \/ sources' = sources + added
    BY <1>4, Zenon DEF registerSources, segmentVars
  <2>2. gaps' \in SUBSET ((1 .. sources') \X Channel)
    BY <1>0, <2>1 DEF SegmentType
  <2> QED
    BY <1>0, <2>1, <2>2, Zenon DEF SegmentType, ShardInv
<1>5. ASSUME NEW source \in 1 .. sources, NEW ch \in Channel, appendGap(source, ch)
      PROVE  SegmentType' /\ ShardInv'
  BY <1>0, <1>5 DEF SegmentType, ShardInv, appendGap, segmentVars
<1>6. CASE FinalizeTables
  <2>1. /\ UNCHANGED <<gaps, sources, pendingCount, channel, used, segmentBytes>>
        /\ open' = [s \in Shard |-> FALSE] /\ indexed' = [s \in Shard |-> {}]
    BY <1>6, Zenon DEF FinalizeTables, tableVars
  <2>2. \A s \in Shard : pendingCount[s] = 0
    BY <1>0, <1>6, Zenon DEF IInv, SegmentInv, FinalizeTables, Dirty, SegmentType
  <2> QED
    BY <1>0, <2>1, <2>2, Zenon DEF SegmentType, ShardInv
<1>7. CASE UNCHANGED <<sources, gaps, segmentVars>>
  BY <1>0, <1>7, Zenon DEF SegmentType, ShardInv, segmentVars
<1> QED
  BY <1>1, <1>2, <1>3, <1>4, <1>5, <1>6, <1>7, SegmentMoves, Zenon

(* Where a call stands: its step, what it still flushes and its plan. *)
Position ==
    /\ finalizing \in BOOLEAN
    /\ pc \in {"ready", "measure", "commit", "cut", "rename", "seal", "manifest",
               "ended"}
    /\ todo \subseteq Dirty
    /\ IF pc \in {"measure", "commit"} THEN call \in Plan ELSE call = NoCall
    /\ pc = "seal" => todo = Dirty

(* A call flushes only segments with buffered rows, and finalize() all.    *)
LEMMA PositionStep ==
    ASSUME IInv, [Next]_vars PROVE Position'
<1>0. Position /\ SegmentType
  BY TypeParts, Zenon DEF IInv, ControlType, SegmentInv, Position
<1>1. ASSUME NEW s \in Shard, NEW physicalBytes \in 1 .. (pendingCount[s] * RecordBytes),
             flushBlock(s, physicalBytes)
      PROVE  Position'
  <2>1. /\ pendingCount' = [pendingCount EXCEPT ![s] = 0] /\ open' = open
        /\ todo' = todo \ {s} /\ UNCHANGED <<pc, call, finalizing>>
    BY <1>1, Zenon DEF flushBlock, sealVars
  <2>2. Dirty' = Dirty \ {s}
    BY <1>0, <2>1, Zenon DEF Dirty, SegmentType
  <2> QED
    BY <1>0, <2>1, <2>2, Zenon DEF Position
<1>2. ASSUME FlushFails \/ AppendQuota \/ CommitFails \/ FinalizeManifest PROVE Position'
  BY <1>0, <1>2, Zenon DEF FlushFails, AppendQuota, CommitFails, FinalizeManifest, Fail, Return,
     Position, sealVars
<1>3. ASSUME NEW row \in [shard : Shard, source : 1 .. (sources + 1),
                          generation : Generation, channel : Channel],
             AppendCheck(row)
      PROVE  Position'
  <2>1. row \in Row /\ row.shard \in Shard
    BY LedgerTypes DEF Row
  <2>2. Dirty' = Dirty /\ finalizing' = finalizing
    BY <1>3, Zenon DEF AppendCheck, segmentVars, sealVars, Dirty
  <2>3. CASE pc' = "ready" /\ todo' = {} /\ call' = NoCall
    BY <1>0, <2>2, <2>3, Zenon DEF Position
  <2>4. CASE /\ call' = [row |-> row, rotate |-> FALSE, openNeeded |-> FALSE,
                         indexNeeded |-> FALSE]
             /\ pc' = "measure"
             /\ todo' = IF BlockEnds(row.shard, row.channel) THEN {row.shard} ELSE {}
    <3>1. call' \in Plan
      BY <2>1, <2>4, Zenon DEF Plan
    <3>2. todo' \subseteq Dirty
      BY <2>4, Zenon DEF BlockEnds
    <3> QED
      BY <1>0, <2>2, <2>4, <3>1, <3>2, Zenon DEF Position
  <2> QED
    BY <1>3, <2>3, <2>4, Zenon DEF AppendCheck, Return, Goto
<1>4. CASE AppendMeasure
  <2>1. call \in Plan /\ call.row.shard \in Shard
    BY <1>0, <1>4, Zenon DEF Position, AppendMeasure, Plan, Row
  <2>2. open[call.row.shard] \in BOOLEAN /\ used[call.row.shard] \in BOOLEAN
    BY <1>0, <2>1, Zenon DEF SegmentType
  <2>3. call' \in Plan
    BY <1>4, <2>1, <2>2, Zenon DEF AppendMeasure, Plan
  <2>4. Dirty' = Dirty /\ finalizing' = finalizing
    BY <1>4, Zenon DEF AppendMeasure, segmentVars, sealVars, Dirty
  <2>5. pc' = "commit" /\ todo' \subseteq Dirty
    BY <1>4, Zenon DEF AppendMeasure, Goto
  <2> QED
    BY <1>0, <2>3, <2>4, <2>5, Zenon DEF Position
<1>5. CASE AppendCommit
  BY <1>0, <1>5, Zenon DEF AppendCommit, Return, Position, sealVars
<1>6. ASSUME NEW left, AppendFails(left) PROVE Position'
  BY <1>0, <1>6, Zenon DEF AppendFails, Return, Position, sealVars
<1>7. ASSUME NEW added, registerSources(added) PROVE Position'
  BY <1>0, <1>7, Zenon DEF registerSources, Return, Position, sealVars
<1>8. ASSUME NEW source, NEW ch, appendGap(source, ch) PROVE Position'
  BY <1>0, <1>8, Zenon DEF appendGap, Return, Position, sealVars
<1>9. ASSUME NEW size, setReferencePayload(size) PROVE Position'
  BY <1>0, <1>9, Zenon DEF setReferencePayload, Return, Position, sealVars
<1>10. CASE beginFinalDrain
  BY <1>0, <1>10, Zenon DEF beginFinalDrain, Return, Position, sealVars
<1>11. CASE publishCut
  BY <1>0, <1>11, Zenon DEF publishCut, Calling, Goto, Position, sealVars, segmentVars, Dirty
<1>12. CASE WriteCut
  BY <1>0, <1>12, Zenon DEF WriteCut, Goto, Fail, Position, sealVars
<1>13. CASE RenameCut
  BY <1>0, <1>13, Zenon DEF RenameCut, Goto, Return, Position, sealVars
<1>14. CASE finalize
  BY <1>0, <1>14, Zenon DEF finalize, Goto, Position, segmentVars, Dirty
<1>15. CASE FinalizeTables
  BY <1>0, <1>15, Zenon DEF FinalizeTables, Goto, Position
<1>16. CASE UNCHANGED vars
  BY <1>0, <1>16, Zenon DEF vars, callVars, sealVars, segmentVars, Position, Dirty
<1> QED
  BY <1>1, <1>2, <1>3, <1>4, <1>5, <1>6, <1>7, <1>8, <1>9, <1>10, <1>11, <1>12, <1>13,
     <1>14, <1>15, <1>16 DEF Next

(* What append() has checked and measured still holds at its last step.    *)
LEMMA CallStep ==
    ASSUME IInv, [Next]_vars PROVE CallInv'
<1>z. BlockRecords \in Nat \ {0} /\ MaximumSources \in Nat
  BY SizeAssumption, Zenon
<1> USE <1>z
<1>0. /\ Position /\ SegmentType /\ ShardInv /\ CallInv
      /\ sources \in Nat
      /\ pc \in {"measure", "commit"} => call \in Plan
  BY TypeParts, LedgerTypes, Zenon DEF IInv, ControlType, SegmentInv, Position, ShardInv
<1>1. ASSUME NEW s \in Shard, NEW physicalBytes \in 1 .. (pendingCount[s] * RecordBytes),
             flushBlock(s, physicalBytes)
      PROVE  CallInv'
  <2>1. /\ pendingCount' = [pendingCount EXCEPT ![s] = 0]
        /\ s \in todo /\ todo' = todo \ {s} /\ UNCHANGED <<pc, call, sources, drainVars>>
    BY <1>1, Zenon DEF flushBlock
  <2>2. NewSource(call.row)' <=> NewSource(call.row)
    BY <2>1, Zenon DEF NewSource
  <2>3. SUFFICES ASSUME pc \in {"measure", "commit"}
                 PROVE  /\ (pc = "measure" /\ todo' # {}) => todo' = {call.row.shard}
                        /\ (pc = "commit" \/ todo' = {}) =>
                             pendingCount'[call.row.shard] < BlockRecords
                        /\ (pc = "commit" /\ call.openNeeded) =>
                             pendingCount'[call.row.shard] = 0
    BY <1>0, <2>1, <2>2, Zenon DEF CallInv, DrainAdmits, drainVars
  <2>4. call.row.shard \in Shard
    BY <1>0, <2>3, Zenon DEF Plan, Row
  <2>5. pc = "measure" => s = call.row.shard /\ todo' = {}
    BY <1>0, <2>1, Zenon DEF CallInv
  <2>6. CASE s = call.row.shard
    BY <1>0, <2>1, <2>4, <2>5, <2>6 DEF SegmentType
  <2>7. CASE s # call.row.shard
    <3>1. pendingCount'[call.row.shard] = pendingCount[call.row.shard]
      BY <1>0, <2>1, <2>4, <2>7, Zenon DEF SegmentType
    <3> QED
      BY <1>0, <2>3, <2>5, <2>7, <3>1, Zenon DEF CallInv
  <2> QED
    BY <2>6, <2>7, Zenon
<1>2. ASSUME NEW row \in [shard : Shard, source : 1 .. (sources + 1),
                          generation : Generation, channel : Channel],
             AppendCheck(row)
      PROVE  CallInv'
  <2>1. /\ row.shard \in Shard /\ row.source \in 1 .. (sources + 1)
        /\ UNCHANGED <<sources, pendingCount, drainVars>>
        /\ DrainAdmits(1, IF NewSource(row) THEN 1 ELSE 0)
    BY <1>2, Zenon DEF AppendCheck, tableVars, segmentVars
  <2>2. CASE pc' = "ready"
    BY <2>2, Zenon DEF CallInv
  <2>3. CASE /\ ~(NewSource(row) /\ sources >= MaximumSources)
             /\ call' = [row |-> row, rotate |-> FALSE, openNeeded |-> FALSE,
                         indexNeeded |-> FALSE]
             /\ pc' = "measure"
             /\ todo' = IF BlockEnds(row.shard, row.channel) THEN {row.shard} ELSE {}
    <3>1. call'.row = row
      BY <2>3, Zenon
    <3>2. NewSource(call.row)' <=> NewSource(row)
      BY <2>1, <3>1, Zenon DEF NewSource
    <3>3. todo' = {} => pendingCount[row.shard] < BlockRecords
      <4>1. /\ pendingCount[row.shard] \in 0 .. BlockRecords
            /\ ~open[row.shard] => pendingCount[row.shard] = 0
        BY <1>0, <2>1, Zenon DEF SegmentType, ShardInv
      <4>2. todo' = {} => \/ row.shard \notin Dirty
                         \/ pendingCount[row.shard] # BlockRecords
        BY <2>3 DEF BlockEnds
      <4> QED
        BY <2>1, <4>1, <4>2 DEF Dirty
    <3>4. NewSource(row) => sources < MaximumSources
      BY <1>0, <2>3
    <3>5. DrainAdmits(1, IF NewSource(call.row) THEN 1 ELSE 0)'
      BY <2>1, <3>2, Zenon DEF DrainAdmits, drainVars
    <3>6. todo' # {} => todo' = {row.shard}
      BY <2>3, Zenon
    <3> QED
      BY <2>1, <2>3, <3>1, <3>2, <3>3, <3>4, <3>5, <3>6, Zenon DEF CallInv
  <2> QED
    BY <1>2, <2>2, <2>3, Zenon DEF AppendCheck, Return, Goto
<1>3. CASE AppendMeasure
  <2> DEFINE s == call.row.shard
             rotate == /\ open[s] /\ pendingCount[s] = 0 /\ used[s]
                       /\ segmentBytes[s] + RecordBytes > SegmentTargetBytes
  <2>1. /\ pc' = "commit" /\ UNCHANGED <<sources, pendingCount, drainVars>>
        /\ pc = "measure" /\ todo = {}
    BY <1>3, Zenon DEF AppendMeasure, Goto, tableVars, segmentVars
  <2>2. call \in Plan /\ s \in Shard
    BY <1>0, <2>1, Zenon DEF Plan, Row
  <2>3. /\ call'.row = call.row
        /\ call'.openNeeded = (~open[s] \/ rotate)
    BY <1>3, <2>2, Zenon DEF AppendMeasure, Plan
  <2>4. call'.openNeeded => pendingCount[s] = 0
    BY <1>0, <2>2, <2>3, Zenon DEF ShardInv
  <2>5. NewSource(call.row)' <=> NewSource(call.row)
    BY <2>1, <2>3, Zenon DEF NewSource
  <2> HIDE DEF rotate
  <2> QED
    BY <1>0, <2>1, <2>3, <2>4, <2>5, Zenon DEF CallInv, DrainAdmits, drainVars
<1>4. CASE UNCHANGED vars
  BY <1>0, <1>4, Zenon DEF vars, callVars, tableVars, segmentVars, drainVars, CallInv,
     DrainAdmits, NewSource
<1>5. CASE pc' \notin {"measure", "commit"}
  BY <1>5, Zenon DEF CallInv
<1>6. ASSUME FlushFails \/ AppendQuota \/ CommitFails \/ FinalizeManifest
      PROVE  pc' \notin {"measure", "commit"}
  BY <1>6, Zenon DEF FlushFails, AppendQuota, CommitFails, FinalizeManifest, Fail, Return
<1>7. ASSUME AppendCommit \/ beginFinalDrain \/ publishCut \/ WriteCut
      PROVE  pc' \notin {"measure", "commit"}
  BY <1>7, Zenon DEF AppendCommit, beginFinalDrain, publishCut, WriteCut, Goto, Return, Fail
<1>8. ASSUME RenameCut \/ finalize \/ FinalizeTables PROVE pc' \notin {"measure", "commit"}
  BY <1>8, Zenon DEF RenameCut, finalize, FinalizeTables, Goto, Return
<1>9. ASSUME NEW left, AppendFails(left) PROVE pc' \notin {"measure", "commit"}
  BY <1>9, Zenon DEF AppendFails, Return
<1>10. ASSUME NEW added, registerSources(added) PROVE pc' \notin {"measure", "commit"}
  BY <1>10, Zenon DEF registerSources, Return
<1>11. ASSUME NEW source, NEW ch, appendGap(source, ch)
       PROVE  pc' \notin {"measure", "commit"}
  BY <1>11, Zenon DEF appendGap, Return
<1>12. ASSUME NEW size, setReferencePayload(size) PROVE pc' \notin {"measure", "commit"}
  BY <1>12, Zenon DEF setReferencePayload, Return
<1> QED
  BY <1>1, <1>2, <1>3, <1>4, <1>5, <1>6, <1>7, <1>8, <1>9, <1>10, <1>11, <1>12 DEF Next

-----------------------------------------------------------------------------
(* Why no call fails for want of a reservation.                            *)

(* The cells of the gap table, as the invariant types them. *)
LEMMA GapFacts ==
    ASSUME IInv
    PROVE  /\ Cardinality(gaps) \in Nat
           /\ Cardinality(gaps) <= sources * Channels
           /\ Cardinality(gaps) = sources * Channels => gaps = (1 .. sources) \X Channel
<1>1. sources \in Nat /\ gaps \in SUBSET ((1 .. sources) \X Channel)
  BY TypeParts, LedgerTypes, Zenon DEF IInv, SegmentType
<1> QED
  BY <1>1, GapCells, Zenon

(* A table of sources with a full set of gap cells is what a source has    *)
(* reserved.                                                               *)
LEMMA SourceTable ==
    ASSUME IInv
    PROVE  /\ sources * SourceBytes \in Nat /\ Cardinality(gaps) * GapBytes \in Nat
           /\ sources * SourceStorageBytes \in Nat
           /\ sources * SourceBytes + Cardinality(gaps) * GapBytes
                <= sources * SourceStorageBytes
<1> USE SizeAssumption
<1>1. sources \in Nat /\ Channels \in Nat /\ sources * Channels \in Nat
  BY LedgerTypes, Sizes
<1>2. Cardinality(gaps) * GapBytes <= (sources * Channels) * GapBytes
      /\ Cardinality(gaps) * GapBytes \in Nat
  BY <1>1, GapFacts, ProductGrows, Zenon
<1>3. (sources * Channels) * GapBytes = sources * (Channels * GapBytes)
      /\ Channels * GapBytes \in Nat
  BY <1>1
<1> DEFINE cells == Channels * GapBytes
<1>4. sources * SourceStorageBytes = sources * SourceBytes + sources * cells
  <2>1. SourceStorageBytes = SourceBytes + cells
    BY Zenon DEF SourceStorageBytes
  <2>2. cells \in Nat
    BY <1>3, Zenon
  <2> HIDE DEF cells
  <2> QED
    BY <1>1, <2>1, <2>2
<1>5. sources * SourceBytes \in Nat /\ sources * cells \in Nat
  BY <1>1, <1>3
<1> DEFINE allCells == sources * cells
           owned == sources * SourceStorageBytes
           own == sources * SourceBytes
           used1 == Cardinality(gaps) * GapBytes
<1>6. used1 <= allCells /\ used1 \in Nat /\ own \in Nat /\ allCells \in Nat
      /\ owned = own + allCells
  BY <1>2, <1>3, <1>4, <1>5, Zenon
<1> SUFFICES own \in Nat /\ used1 \in Nat /\ owned \in Nat /\ own + used1 <= owned
  BY Zenon
<1> HIDE DEF allCells, owned, own, used1
<1> QED
  BY <1>6

(* A cut never needs more than was set aside for cuts: its blocks are at   *)
(* most the rows accepted, its sources and gaps are paid for.              *)
LEMMA CutFits ==
    ASSUME IInv PROVE CutRequired <= cutReservedBytes
<1> USE SizeAssumption
<1> DEFINE own == sources * SourceBytes
           cells == Cardinality(gaps) * GapBytes
           owned == sources * SourceStorageBytes
           ranges == blocks * RangeBytes
           paid == recordCount * RangeBytes
<1>1. own \in Nat /\ cells \in Nat /\ owned \in Nat /\ own + cells <= owned
  BY SourceTable, Zenon
<1>2. blocks <= recordCount
  BY LedgerTypes DEF IInv, RowInv
<1>3. ranges <= paid /\ ranges \in Nat /\ paid \in Nat
  BY <1>2, LedgerTypes, ProductGrows, Zenon
<1>4. /\ referenceBytes \in Nat /\ referenceReservedBytes \in Nat
      /\ referenceBytes <= referenceReservedBytes /\ cutReservedBytes \in Nat
  BY TypeParts DEF IInv, CounterType
<1>5. cutReservedBytes >= 2 * (CutHeaderBytes + owned + paid + referenceReservedBytes)
  BY Zenon DEF IInv, CutInv
<1>6. CutRequired = 2 * (CutHeaderBytes + own + cells + ranges + referenceBytes)
  BY Zenon DEF CutRequired, cutReservationBytes
<1> HIDE DEF own, cells, owned, ranges, paid
<1> QED
  BY <1>1, <1>3, <1>4, <1>5, <1>6

(* In the final drain a row or a source that is still pending fits. *)
LEMMA DrainFits ==
    ASSUME IInv, finalDrain, NEW rows \in {0, 1}, NEW added \in Nat, NEW bytes \in Nat,
           DrainAdmits(rows, added),
           bytes <= rows * WorstRecordBytes + added * SourceReservationBytes
    PROVE  addWithin(projectedBytes, bytes, writeLimitBytes)
<1> USE SizeAssumption
<1> DEFINE rowsLeft == (MaximumPendingRecords - drained) * WorstRecordBytes
           sourcesLeft == (PendingNewSources - drainedSources) * SourceReservationBytes
           charge == rows * WorstRecordBytes
           sourceCharge == added * SourceReservationBytes
<1>1. /\ projectedBytes \in Nat /\ drained \in Nat /\ drainedSources \in Nat
      /\ WorstRecordBytes \in Nat /\ SourceReservationBytes \in Nat
      /\ PendingNewSources \in Nat
  BY LedgerTypes, Sizes, Zenon
<1>2. /\ rows <= MaximumPendingRecords - drained
      /\ added <= PendingNewSources - drainedSources
      /\ MaximumPendingRecords - drained \in Nat
      /\ PendingNewSources - drainedSources \in Nat
  BY <1>1 DEF DrainAdmits
<1>3. charge <= rowsLeft /\ charge \in Nat /\ rowsLeft \in Nat
  BY <1>1, <1>2, ProductGrows
<1>4. sourceCharge <= sourcesLeft /\ sourceCharge \in Nat /\ sourcesLeft \in Nat
  BY <1>1, <1>2, ProductGrows, Zenon
<1>5. /\ projectedBytes + rowsLeft + sourcesLeft <= MaximumBytes
      /\ writeLimitBytes = MaximumBytes
  BY Zenon DEF IInv, LimitInv
<1>6. bytes <= charge + sourceCharge
  BY Zenon
<1> HIDE DEF rowsLeft, sourcesLeft, charge, sourceCharge
<1> QED
  BY <1>1, <1>3, <1>4, <1>5, <1>6 DEF addWithin

(* What the calls may return. *)
Outcome ==
    /\ result \in {Ok, "Quota", "OutOfRange", "IoError", "CorruptData", "NoGapCell"}
    /\ CutIsPrepaid /\ FinalDrainFits /\ LossAlwaysFits

LEMMA OutcomeStep ==
    ASSUME IInv, Outcome, [Next]_vars PROVE Outcome'
<1> USE DEF Outcome, CutIsPrepaid, FinalDrainFits, LossAlwaysFits, Ok
<1>1. CASE AppendQuota
  <2> DEFINE added == IF NewSource(call.row) THEN 1 ELSE 0
  <2>1. pc = "commit" /\ todo = {} /\ result' = "Quota" /\ finalDrain' = finalDrain
        /\ ~addWithin(projectedBytes, Required, writeLimitBytes)
    BY <1>1, Zenon DEF AppendQuota, Return, drainVars
  <2>2. Required \in Nat /\ NewSource(call.row) \in BOOLEAN
        /\ SourceReservationBytes \in Nat /\ WorstRecordBytes \in Nat
    BY <2>1, CommitFacts, Sizes, Zenon
  <2>3. Required <= WorstRecordBytes
                      + (IF NewSource(call.row) THEN SourceReservationBytes ELSE 0)
    BY <2>1, CommitFacts, RequiredBound, Zenon DEF Required
  <2>4. Required <= 1 * WorstRecordBytes + added * SourceReservationBytes
    BY <2>2, <2>3
  <2>5. DrainAdmits(1, added) /\ added \in Nat
    BY <2>1, Zenon DEF IInv, CallInv
  <2>6. ~finalDrain
    <3> HIDE DEF added
    <3> QED
      BY <2>1, <2>2, <2>4, <2>5, DrainFits, Zenon
  <2> QED
    BY <2>1, <2>6, Zenon
<1>2. ASSUME NEW added \in 1 .. MaximumSources, registerSources(added) PROVE Outcome'
  <2> DEFINE bytes == added * SourceReservationBytes
  <2>1. /\ added \in Nat /\ bytes \in Nat
        /\ WorstRecordBytes \in Nat
    BY Sizes, SizeAssumption
  <2>2. bytes <= 0 * WorstRecordBytes + added * SourceReservationBytes
    BY <2>1
  <2>3. DrainAdmits(0, added)
    BY <1>2, Zenon DEF registerSources
  <2>4. finalDrain => addWithin(projectedBytes, bytes, writeLimitBytes)
    <3> HIDE DEF bytes
    <3> QED
      BY <2>1, <2>2, <2>3, DrainFits, Zenon
  <2> QED
    BY <1>2, <2>4 DEF registerSources, Return, drainVars
<1>3. ASSUME NEW source \in 1 .. sources, NEW ch \in Channel, appendGap(source, ch)
      PROVE  Outcome'
  <2>1. sources * Channels \in Nat
    BY LedgerTypes, Sizes
  <2>2. <<source, ch>> \in gaps \/ Cardinality(gaps) < maximumGapRecords(sources)
    BY <2>1, GapFacts DEF maximumGapRecords
  <2> QED
    BY <1>3, <2>2, Zenon DEF appendGap, Return, drainVars
<1>4. CASE WriteCut
  <2>1. result' = result /\ finalDrain' = finalDrain
    <3>1. cutReservedBytes \in Nat /\ CutRequired <= cutReservedBytes
      BY LedgerTypes, CutFits, Zenon
    <3>2. CASE CutRequired > cutReservedBytes
      <4>1. CutRequired \in Int
        <5>1. /\ blocks * RangeBytes \in Nat /\ sources * SourceBytes \in Nat
              /\ Cardinality(gaps) * GapBytes \in Nat /\ referenceBytes \in Nat
          BY SourceTable, LedgerTypes, SizeAssumption, TypeParts DEF IInv, CounterType
        <5> QED
          BY <5>1, SizeAssumption DEF CutRequired, cutReservationBytes
      <4> QED
        BY <3>1, <3>2, <4>1
    <3>3. CASE ~(CutRequired > cutReservedBytes)
      BY <1>4, <3>3, Zenon DEF WriteCut, Goto, drainVars
    <3> QED
      BY <3>2, <3>3, Zenon
  <2> QED
    BY <2>1, Zenon
<1>5. ASSUME NEW size, setReferencePayload(size) PROVE Outcome'
  BY <1>5, Zenon DEF setReferencePayload, Return, drainVars
<1>6. ASSUME NEW s, NEW physicalBytes, flushBlock(s, physicalBytes) PROVE Outcome'
  BY <1>6, Zenon DEF flushBlock, drainVars
<1>7. ASSUME NEW row, AppendCheck(row) PROVE Outcome'
  BY <1>7, Zenon DEF AppendCheck, Return, Goto, drainVars
<1>8. ASSUME NEW left, AppendFails(left) PROVE Outcome'
  BY <1>8, Zenon DEF AppendFails, Return
<1>9. CASE AppendCommit \/ beginFinalDrain
  BY <1>9, Zenon DEF AppendCommit, beginFinalDrain, Return
<1>10. CASE FlushFails \/ CommitFails \/ FinalizeManifest
  BY <1>10, Zenon DEF FlushFails, CommitFails, FinalizeManifest, Fail
<1>11. CASE AppendMeasure \/ publishCut \/ RenameCut
  BY <1>11 DEF AppendMeasure, publishCut, RenameCut, Goto, Return, drainVars
<1>12. CASE finalize \/ FinalizeTables
  BY <1>12 DEF finalize, FinalizeTables, Goto, drainVars
<1>13. CASE UNCHANGED vars
  BY <1>13, Zenon DEF vars, callVars, drainVars
<1> USE DEF Next
<1> HIDE DEF Outcome, CutIsPrepaid, FinalDrainFits, LossAlwaysFits, Ok
<1> QED
  BY <1>1, <1>2, <1>3, <1>4, <1>5, <1>6, <1>7, <1>8, <1>9, <1>10, <1>11, <1>12, <1>13

-----------------------------------------------------------------------------
LEMMA FlagStep ==
    ASSUME IInv, [Next]_vars
    PROVE  tables' \in BOOLEAN /\ manifestFile' \in BOOLEAN /\ finalDrain' \in BOOLEAN
<1>0. tables \in BOOLEAN /\ manifestFile \in BOOLEAN /\ finalDrain \in BOOLEAN
  BY TypeParts, Zenon DEF IInv, ControlType
<1>1. ASSUME NEW s, NEW physicalBytes, flushBlock(s, physicalBytes)
      PROVE  UNCHANGED <<tables, manifestFile, finalDrain>>
  BY <1>1, Zenon DEF flushBlock, sealVars, drainVars
<1>2. ASSUME FlushFails \/ AppendMeasure \/ AppendQuota \/ AppendCommit
      PROVE  UNCHANGED <<tables, manifestFile, finalDrain>>
  BY <1>2, Zenon DEF FlushFails, AppendMeasure, AppendQuota, AppendCommit, CountDrained,
     sealVars, drainVars
<1>3. ASSUME NEW row, AppendCheck(row) PROVE UNCHANGED <<tables, manifestFile, finalDrain>>
  BY <1>3, Zenon DEF AppendCheck, sealVars, drainVars
<1>4. ASSUME NEW left, AppendFails(left)
      PROVE  UNCHANGED <<tables, manifestFile, finalDrain>>
  BY <1>4, Zenon DEF AppendFails, CountDrained, sealVars
<1>5. ASSUME NEW added, registerSources(added)
      PROVE  UNCHANGED <<tables, manifestFile, finalDrain>>
  BY <1>5, Zenon DEF registerSources, CountDrained, sealVars, drainVars
<1>6. ASSUME NEW source, NEW ch, appendGap(source, ch)
      PROVE  UNCHANGED <<tables, manifestFile, finalDrain>>
  BY <1>6, Zenon DEF appendGap, sealVars, drainVars
<1>7. ASSUME NEW size, setReferencePayload(size)
      PROVE  UNCHANGED <<tables, manifestFile, finalDrain>>
  BY <1>7, Zenon DEF setReferencePayload, sealVars, drainVars
<1>8. ASSUME publishCut \/ WriteCut \/ RenameCut \/ finalize
      PROVE  UNCHANGED <<tables, manifestFile, finalDrain>>
  BY <1>8, Zenon DEF publishCut, WriteCut, RenameCut, finalize, sealVars, drainVars
<1>9. CASE beginFinalDrain
  BY <1>0, <1>9, Zenon DEF beginFinalDrain, sealVars
<1>10. CASE CommitFails
  BY <1>0, <1>10, Zenon DEF CommitFails, drainVars
<1>11. CASE FinalizeTables
  BY <1>0, <1>11, Zenon DEF FinalizeTables, drainVars
<1>12. CASE FinalizeManifest
  BY <1>0, <1>12, Zenon DEF FinalizeManifest, drainVars
<1>13. CASE UNCHANGED <<tables, manifestFile, finalDrain>>
  BY <1>0, <1>13, Zenon
<1>14. ASSUME UNCHANGED vars PROVE UNCHANGED <<tables, manifestFile, finalDrain>>
  BY <1>14, Zenon DEF vars, sealVars, drainVars
<1> QED
  BY <1>1, <1>2, <1>3, <1>4, <1>5, <1>6, <1>7, <1>8, <1>9, <1>10, <1>11, <1>12, <1>13,
     <1>14, Zenon DEF Next

(* The whole invariant is inductive. *)
LEMMA InvStep ==
    ASSUME IInv, Outcome, [Next]_vars PROVE IInv' /\ Outcome'
<1>1. Position' /\ Outcome' /\ SegmentType' /\ ShardInv' /\ CounterType'
  BY PositionStep, OutcomeStep, ShardStep, CounterStep, Zenon
<1>2. ControlType'
  BY <1>1, FlagStep, Zenon DEF Position, Outcome, ControlType
<1>3. TypeOK'
  BY <1>1, <1>2, TypeParts, Zenon
<1>4. SegmentInv'
  BY <1>1, Zenon DEF SegmentInv, ShardInv, Position
<1> QED
  BY <1>1, <1>3, <1>4, LedgerStep, CutStep, RowStep, LimitStep, CallStep, Zenon DEF IInv

(* The invariant holds in every state of every recording. *)
THEOREM Invariance == Spec => [](IInv /\ Outcome)
<1>1. Init => IInv /\ Outcome
  <2>1. Init => Outcome
    BY Zenon DEF Init, Outcome, CutIsPrepaid, FinalDrainFits, LossAlwaysFits, Ok
  <2> QED
    BY <2>1, InitInv, Zenon
<1>2. IInv /\ Outcome /\ [Next]_vars => (IInv /\ Outcome)'
  BY InvStep, Zenon
<1> QED
  BY <1>1, <1>2, PTL DEF Spec

(* The members of the writer stay in their ranges: in particular no flush  *)
(* releases more than its rows reserved and no block outgrows its limit.   *)
THEOREM TypeCorrect == Spec => []TypeOK
<1>1. IInv => TypeOK
  BY Zenon DEF IInv
<1> QED
  BY <1>1, Invariance, PTL

(* What the ledger has projected covers every file the writer can have     *)
(* left, and the projection stays within config.maximumBytes.              *)
LEMMA FootprintFits ==
    ASSUME IInv PROVE WithinMaximumBytes
<1> USE SizeAssumption
<1> DEFINE own == sources * SourceBytes
           cells == Cardinality(gaps) * GapBytes
           owned == sources * SourceStorageBytes
           index == indexEntries * IndexBytes
           files == segmentFiles * SegmentBytes
           rows == Cardinality(Buffered) * RecordBytes
           manifests == (IF manifestFile THEN 2 ELSE 1) * ManifestBytes
           sealed == IF tables THEN 3 * TableBytes + own + index + cells ELSE 0
<1>1. own \in Nat /\ cells \in Nat /\ owned \in Nat /\ own + cells <= owned
  BY SourceTable, Zenon
<1>2. index \in Nat /\ files \in Nat /\ rows \in Nat
  BY LedgerTypes
<1>3. /\ projectedBytes \in Nat /\ storedBytes \in Nat /\ cutReservedBytes \in Nat
      /\ cutFile \in Nat /\ cutPending \in Nat
      /\ 2 * cutFile <= cutReservedBytes /\ 2 * cutPending <= cutReservedBytes
  BY LedgerTypes, TypeParts, Zenon DEF IInv, CutInv, CounterType
<1>4. projectedBytes >= CutHeaderBytes + 2 * ManifestBytes + 3 * TableBytes + owned
        + cutReservedBytes + index + files + storedBytes + rows
  BY Zenon DEF IInv, LedgerInv
<1>5. manifests \in Nat /\ manifests <= 2 * ManifestBytes
  OBVIOUS
<1>6. sealed \in Nat /\ sealed <= 3 * TableBytes + owned + index
  <2> HIDE DEF own, cells, owned, index
  <2> QED
    BY <1>1, <1>2
<1>7. Footprint = manifests + sealed + files + storedBytes + rows + cutFile + cutPending
  BY Zenon DEF Footprint
<1>8. Footprint <= projectedBytes
  <2> HIDE DEF own, cells, owned, index, files, rows, manifests, sealed
  <2> QED
    BY <1>1, <1>2, <1>3, <1>4, <1>5, <1>6, <1>7
<1>9. projectedBytes <= MaximumBytes
  <2>1. /\ projectedBytes <= writeLimitBytes /\ FinalDrainReserve \in Nat
        /\ writeLimitBytes = IF finalDrain THEN MaximumBytes
                             ELSE MaximumBytes - FinalDrainReserve
    BY Sizes, Zenon DEF IInv, LimitInv
  <2> QED
    BY <1>3, <2>1
<1> QED
  BY <1>8, <1>9, Zenon DEF WithinMaximumBytes

(* The recording stays within its budget at every step of every call, for  *)
(* every budget and every size of the stored structures.                   *)
THEOREM BudgetCorrect == Spec => []WithinMaximumBytes
<1>1. IInv => WithinMaximumBytes
  BY FootprintFits, Zenon
<1> QED
  BY <1>1, Invariance, PTL

(* publishCut() never returns CorruptData for want of a reservation. *)
THEOREM CutCorrect == Spec => []CutIsPrepaid
<1>1. Outcome => CutIsPrepaid
  BY Zenon DEF Outcome
<1> QED
  BY <1>1, Invariance, PTL

(* The final drain never meets the quota. *)
THEOREM DrainCorrect == Spec => []FinalDrainFits
<1>1. Outcome => FinalDrainFits
  BY Zenon DEF Outcome
<1> QED
  BY <1>1, Invariance, PTL

(* appendGap() always finds a cell. *)
THEOREM LossCorrect == Spec => []LossAlwaysFits
<1>1. Outcome => LossAlwaysFits
  BY Zenon DEF Outcome
<1> QED
  BY <1>1, Invariance, PTL

=============================================================================
