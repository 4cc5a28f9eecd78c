---------------------- MODULE BinaryMarketCorpusWriter ----------------------
(***************************************************************************)
(* The byte ledger of the corpus writer.  Every call that will cost disk   *)
(* space pays for it in projectedBytes before it is accepted: a row pays   *)
(* its worst block, its two cut references, its index entry and, when it   *)
(* opens one, its segment; a source pays its table row, its gap cells and  *)
(* the two cut files that will repeat them.  A flushed block gives back    *)
(* what compression saved.  start() keeps a reserve that only the final    *)
(* drain may spend.                                                        *)
(*                                                                         *)
(* The writer is sequential, so the steps of one call follow each other:   *)
(* pc names the step that comes next and todo the segments the call still  *)
(* has to flush.  Refusals that change nothing (a row out of order, an     *)
(* invalid transaction or source state) are stuttering steps here.  Bytes  *)
(* are symbolic sizes; the 64-bit overflow tests of addProduct and         *)
(* addWithin only add refusals to the comparison they precede.             *)
(***************************************************************************)
EXTENDS Integers, FiniteSets

CONSTANTS
    Shard, Channel, Lifecycle, Generation,
    BlockRecords,             \* kBinaryMarketBlockRecords
    InitialSources,           \* config.sources.size()
    MaximumSources,           \* kBinaryMarketMaximumSources
    MaximumPendingRecords,    \* shardCount * ringCapacity + pendingRecordCapacity
    MaximumBytes,             \* config.maximumBytes
    SegmentTargetBytes,       \* config.segmentTargetBytes
    RecordBytes,              \* binaryMarketPendingRecordBytes()
    RangeBytes, IndexBytes, SourceBytes, GapBytes, ManifestBytes, TableBytes,
    SegmentBytes,             \* a segment's header and footer
    CutHeaderBytes,           \* kCutHeaderReserveBytes
    ReferenceSize             \* the sizes a reference payload may have

ASSUME SizeAssumption ==
    /\ InitialSources \in Nat /\ MaximumSources \in Nat
    /\ MaximumPendingRecords \in Nat /\ MaximumBytes \in Nat
    /\ SegmentTargetBytes \in Nat /\ RangeBytes \in Nat /\ IndexBytes \in Nat
    /\ SourceBytes \in Nat /\ GapBytes \in Nat /\ ManifestBytes \in Nat
    /\ TableBytes \in Nat /\ SegmentBytes \in Nat /\ CutHeaderBytes \in Nat
    /\ BlockRecords \in Nat \ {0}
    /\ RecordBytes \in Nat \ {0}
    /\ ReferenceSize \subseteq Nat
ASSUME SourceAssumption == InitialSources \in 1 .. MaximumSources
ASSUME ChannelAssumption == Lifecycle \in Channel /\ IsFiniteSet(Channel)

VARIABLES
    projectedBytes, writeLimitBytes, cutReservedBytes, referenceReservedBytes,
    sources, gaps, blocks, referenceBytes, recordCount, indexEntries,
    open, pendingCount, channel, used, segmentBytes, indexed,
    segmentFiles, storedBytes, cutFile, cutPending, tables, manifestFile,
    finalizing, pc, todo, call, result,
    finalDrain, drained, drainedSources   \* ghosts: the final drain so far

ledgerVars == <<projectedBytes, cutReservedBytes>>
referenceVars == <<referenceReservedBytes, referenceBytes>>
tableVars == <<sources, gaps, blocks>>
rowVars == <<recordCount, indexEntries>>
segmentVars == <<open, pendingCount, channel, used, segmentBytes, indexed>>
fileVars == <<segmentFiles, storedBytes>>
cutVars == <<cutFile, cutPending>>
sealVars == <<tables, manifestFile, finalizing>>
drainVars == <<writeLimitBytes, finalDrain, drained, drainedSources>>
callVars == <<pc, todo, call, result>>
vars == <<ledgerVars, referenceVars, tableVars, rowVars, segmentVars, fileVars,
          cutVars, sealVars, drainVars, callVars>>

-----------------------------------------------------------------------------
(* What things cost.                                                       *)

Channels == Cardinality(Channel)   \* kBinaryMarketStoredChannelCount
SourceStorageBytes == SourceBytes + Channels * GapBytes
SourceReservationBytes == 3 * SourceStorageBytes
RecordCutReservationBytes == 2 * RangeBytes

(* Both files of the atomic replacement of a cut. *)
cutReservationBytes(sourceCount, gapCount, blockCount, reference) ==
    2 * (CutHeaderBytes + sourceCount * SourceBytes + gapCount * GapBytes
           + blockCount * RangeBytes + reference)

InitialCutReserve ==
    cutReservationBytes(InitialSources, InitialSources * Channels, 0, 0)
FixedMetadata ==
    CutHeaderBytes + 2 * ManifestBytes + 3 * TableBytes
      + InitialSources * SourceStorageBytes + InitialCutReserve
WorstRecordBytes ==
    RecordBytes + RecordCutReservationBytes + IndexBytes + SegmentBytes
PendingNewSources ==
    IF MaximumPendingRecords <= MaximumSources - InitialSources
    THEN MaximumPendingRecords ELSE MaximumSources - InitialSources

(* The sources that the drained rows may add are not paid for. *)
FinalDrainReserveRowsOnly == MaximumPendingRecords * WorstRecordBytes

FinalDrainReserve ==
    MaximumPendingRecords * WorstRecordBytes
      + PendingNewSources * SourceReservationBytes

(* Each source has one gap cell for each stored channel; a source added    *)
(* later brings no cells.                                                  *)
maximumGapRecordsInitial(sourceCount) == InitialSources * Channels

maximumGapRecords(sourceCount) == sourceCount * Channels

addWithin(current, amount, limit) == current + amount <= limit

Key(row) == <<row.source, row.generation, row.channel>>
NewSource(row) == row.source = sources + 1

(* The index entry is left to be paid when the index is written. *)
RequiredBytesNoIndex(newSource, openNeeded, indexNeeded) ==
    RecordBytes + RecordCutReservationBytes
      + (IF newSource THEN SourceReservationBytes ELSE 0)
      + (IF openNeeded THEN SegmentBytes ELSE 0)

RequiredBytes(newSource, openNeeded, indexNeeded) ==
    RecordBytes + RecordCutReservationBytes
      + (IF newSource THEN SourceReservationBytes ELSE 0)
      + (IF openNeeded THEN SegmentBytes ELSE 0)
      + (IF indexNeeded THEN IndexBytes ELSE 0)

(* A row pays one of the two cut files that will list its block. *)
CutGrowthOneFile(newSource) ==
    RangeBytes + (IF newSource THEN 2 * SourceStorageBytes ELSE 0)

CutGrowth(newSource) ==
    RecordCutReservationBytes + (IF newSource THEN 2 * SourceStorageBytes ELSE 0)

(* The rows that wait in a block buffer; a row counts for its slot. *)
BufferedIn(counts) == UNION {{s} \X (1 .. counts[s]) : s \in Shard}
Buffered == BufferedIn(pendingCount)
Dirty == {s \in Shard : open[s] /\ pendingCount[s] # 0}

Row == [shard : Shard, source : Nat, generation : Generation, channel : Channel]
Plan == [row : Row, rotate : BOOLEAN, openNeeded : BOOLEAN, indexNeeded : BOOLEAN]
NoCall == "none"
Ok == "Ok"

-----------------------------------------------------------------------------
(* The state start() leaves when it returns Ok. *)
Init ==
    /\ FixedMetadata + FinalDrainReserve + WorstRecordBytes <= MaximumBytes
    /\ projectedBytes = FixedMetadata
    /\ writeLimitBytes = MaximumBytes - FinalDrainReserve
    /\ cutReservedBytes = InitialCutReserve
    /\ referenceReservedBytes = 0 /\ referenceBytes = 0
    /\ sources = InitialSources /\ gaps = {} /\ blocks = 0
    /\ recordCount = 0 /\ indexEntries = 0
    /\ open = [s \in Shard |-> FALSE]
    /\ pendingCount = [s \in Shard |-> 0]
    /\ channel = [s \in Shard |-> Lifecycle]
    /\ used = [s \in Shard |-> FALSE]
    /\ segmentBytes = [s \in Shard |-> 0]
    /\ indexed = [s \in Shard |-> {}]
    /\ segmentFiles = 0 /\ storedBytes = 0
    /\ cutFile = 0 /\ cutPending = 0
    /\ tables = FALSE /\ manifestFile = FALSE /\ finalizing = FALSE
    /\ finalDrain = FALSE /\ drained = 0 /\ drainedSources = 0
    /\ pc = "ready" /\ todo = {} /\ call = NoCall /\ result = Ok

Return(status) ==
    pc' = "ready" /\ todo' = {} /\ call' = NoCall /\ result' = status

(* An error of finalize() is the last thing the writer is asked. *)
Fail(status) ==
    /\ pc' = IF finalizing THEN "ended" ELSE "ready"
    /\ todo' = {} /\ call' = NoCall /\ result' = status

Goto(step, flushes) ==
    pc' = step /\ todo' = flushes /\ UNCHANGED result

(* A new call; after an I/O error only finalize() is called any more. *)
Calling == pc = "ready" /\ result # "IoError"

-----------------------------------------------------------------------------
(* flushBlock(): a block of any size the reserve of its rows covers. *)
flushBlock(s, physicalBytes) ==
    LET reserved == pendingCount[s] * RecordBytes
        released == reserved - physicalBytes IN
    /\ s \in todo
    /\ physicalBytes \in 1 .. reserved
    /\ blocks' = blocks + 1
    /\ projectedBytes' = projectedBytes - released
    /\ segmentBytes' = [segmentBytes EXCEPT ![s] = @ - released]
    /\ storedBytes' = storedBytes + physicalBytes
    /\ pendingCount' = [pendingCount EXCEPT ![s] = 0]
    /\ todo' = todo \ {s}
    /\ UNCHANGED <<cutReservedBytes, referenceVars, sources, gaps, rowVars, open,
                   channel, used, indexed, segmentFiles, cutVars, sealVars,
                   drainVars, pc, call, result>>

(* A codec or stream error ends the call; the rows stay buffered. *)
FlushFails ==
    /\ todo # {}
    /\ Fail("IoError")
    /\ UNCHANGED <<ledgerVars, referenceVars, tableVars, rowVars, segmentVars,
                   fileVars, cutVars, sealVars, drainVars>>

-----------------------------------------------------------------------------
(* The final drain brings no more rows than the rings and the queue hold,  *)
(* and one membership row for each source it adds.                         *)
DrainAdmits(rows, newSources) ==
    finalDrain => /\ drained + rows <= MaximumPendingRecords
                  /\ drainedSources + newSources <= PendingNewSources

CountDrained(rows, newSources) ==
    /\ drained' = IF finalDrain THEN drained + rows ELSE drained
    /\ drainedSources' = IF finalDrain THEN drainedSources + newSources
                         ELSE drainedSources
    /\ UNCHANGED <<writeLimitBytes, finalDrain>>

(* A full block is flushed only when its channel changes. *)
BlockEndsOnChannel(s, ch) == s \in Dirty /\ channel[s] # ch

BlockEnds(s, ch) ==
    s \in Dirty /\ (pendingCount[s] = BlockRecords \/ channel[s] # ch)

(* append() up to the flush of the row's own segment. *)
AppendCheck(row) ==
    LET s == row.shard IN
    /\ Calling
    /\ row.source \in 1 .. (sources + (IF row.channel = Lifecycle THEN 1 ELSE 0))
    /\ DrainAdmits(1, IF NewSource(row) THEN 1 ELSE 0)
    /\ IF NewSource(row) /\ sources >= MaximumSources
       THEN Return("OutOfRange")
       ELSE /\ call' = [row |-> row, rotate |-> FALSE, openNeeded |-> FALSE,
                        indexNeeded |-> FALSE]
            /\ Goto("measure", IF BlockEnds(s, row.channel) THEN {s} ELSE {})
    /\ UNCHANGED <<ledgerVars, referenceVars, tableVars, rowVars, segmentVars,
                   fileVars, cutVars, sealVars, drainVars>>

(* append(): what the row needs, and a flush of every open segment when it *)
(* does not fit.                                                           *)
AppendMeasure ==
    LET s == call.row.shard
        rotate == /\ open[s] /\ pendingCount[s] = 0 /\ used[s]
                  /\ segmentBytes[s] + RecordBytes > SegmentTargetBytes
        openNeeded == ~open[s] \/ rotate
        indexNeeded == openNeeded \/ Key(call.row) \notin indexed[s]
        required == RequiredBytes(NewSource(call.row), openNeeded, indexNeeded) IN
    /\ pc = "measure" /\ todo = {}
    /\ call' = [call EXCEPT !.rotate = rotate, !.openNeeded = openNeeded,
                            !.indexNeeded = indexNeeded]
    /\ Goto("commit", IF addWithin(projectedBytes, required, writeLimitBytes)
                      THEN {} ELSE Dirty)
    /\ UNCHANGED <<ledgerVars, referenceVars, tableVars, rowVars, segmentVars,
                   fileVars, cutVars, sealVars, drainVars>>

Required ==
    RequiredBytes(NewSource(call.row), call.openNeeded, call.indexNeeded)

AppendQuota ==
    /\ pc = "commit" /\ todo = {}
    /\ ~addWithin(projectedBytes, Required, writeLimitBytes)
    /\ Return("Quota")
    /\ UNCHANGED <<ledgerVars, referenceVars, tableVars, rowVars, segmentVars,
                   fileVars, cutVars, sealVars, drainVars>>

reserveBytes(bytes, cutBytes) ==
    /\ addWithin(projectedBytes, bytes, writeLimitBytes)
    /\ projectedBytes' = projectedBytes + bytes
    /\ cutReservedBytes' = cutReservedBytes + cutBytes

(* append(): reserve, seal and open the segment as planned, take the row. *)
AppendCommit ==
    LET row == call.row
        s == row.shard
        added == IF NewSource(row) THEN 1 ELSE 0
        fresh == call.openNeeded IN
    /\ pc = "commit" /\ todo = {}
    /\ reserveBytes(Required, CutGrowth(NewSource(row)))
    /\ sources' = sources + added
    /\ recordCount' = recordCount + 1
    /\ indexEntries' = indexEntries + (IF call.indexNeeded THEN 1 ELSE 0)
    /\ open' = [open EXCEPT ![s] = TRUE]
    /\ pendingCount' = [pendingCount EXCEPT ![s] = @ + 1]
    /\ channel' = [channel EXCEPT ![s] = row.channel]
    /\ used' = [used EXCEPT ![s] = TRUE]
    /\ segmentBytes' = [segmentBytes EXCEPT
                          ![s] = (IF fresh THEN SegmentBytes ELSE @) + RecordBytes]
    /\ indexed' = [indexed EXCEPT ![s] = (IF fresh THEN {} ELSE @) \cup {Key(row)}]
    /\ segmentFiles' = segmentFiles + (IF fresh THEN 1 ELSE 0)
    /\ CountDrained(1, added)
    /\ Return(Ok)
    /\ UNCHANGED <<referenceVars, gaps, blocks, storedBytes, cutVars, sealVars>>

(* append(): the segment cannot be sealed or its successor not opened. The *)
(* reservation stays, and a file may be left behind.                       *)
AppendFails(left) ==
    LET s == call.row.shard IN
    /\ pc = "commit" /\ todo = {}
    /\ call.openNeeded
    /\ reserveBytes(Required, CutGrowth(NewSource(call.row)))
    /\ open' \in {open, [open EXCEPT ![s] = FALSE]}
    /\ segmentFiles' = segmentFiles + left
    /\ CountDrained(1, IF NewSource(call.row) THEN 1 ELSE 0)
    /\ Return("IoError")
    /\ UNCHANGED <<referenceVars, tableVars, rowVars, pendingCount, channel, used,
                   segmentBytes, indexed, storedBytes, cutVars, sealVars>>

-----------------------------------------------------------------------------
(* registerSources() with `added` sources the writer does not know. *)
registerSources(added) ==
    LET required == added * SourceReservationBytes IN
    /\ Calling
    /\ sources + added <= MaximumSources
    /\ DrainAdmits(0, added)
    /\ \/ /\ reserveBytes(required, added * (2 * SourceStorageBytes))
          /\ sources' = sources + added
          /\ CountDrained(0, added)
          /\ Return(Ok)
       \/ /\ ~addWithin(projectedBytes, required, writeLimitBytes)
          /\ Return("Quota")
          /\ UNCHANGED <<ledgerVars, sources, drainVars>>
    /\ UNCHANGED <<referenceVars, gaps, blocks, rowVars, segmentVars, fileVars,
                   cutVars, sealVars>>

(* appendGap() of a valid gap: its cell is replaced or added. *)
appendGap(source, ch) ==
    LET fits == Cardinality(gaps) < maximumGapRecords(sources) IN
    /\ Calling
    /\ source \in 1 .. sources
    /\ gaps' = IF fits THEN gaps \cup {<<source, ch>>} ELSE gaps
    /\ Return(IF <<source, ch>> \in gaps \/ fits THEN Ok ELSE "NoGapCell")
    /\ UNCHANGED <<ledgerVars, referenceVars, sources, blocks, rowVars, segmentVars,
                   fileVars, cutVars, sealVars, drainVars>>

(* setReferencePayload(); the queue hands none over in the final drain. *)
setReferencePayload(size) ==
    LET growth == IF size > referenceReservedBytes
                  THEN size - referenceReservedBytes ELSE 0 IN
    /\ Calling /\ ~finalDrain
    /\ \/ /\ reserveBytes(2 * growth, 2 * growth)
          /\ referenceReservedBytes' = referenceReservedBytes + growth
          /\ referenceBytes' = size
          /\ Return(Ok)
       \/ /\ ~addWithin(projectedBytes, 2 * growth, writeLimitBytes)
          /\ Return("Quota")
          /\ UNCHANGED <<ledgerVars, referenceVars>>
    /\ UNCHANGED <<tableVars, rowVars, segmentVars, fileVars, cutVars, sealVars,
                   drainVars>>

beginFinalDrain ==
    /\ Calling /\ ~finalDrain
    /\ writeLimitBytes' = MaximumBytes
    /\ finalDrain' = TRUE
    /\ Return(Ok)
    /\ UNCHANGED <<ledgerVars, referenceVars, tableVars, rowVars, segmentVars,
                   fileVars, cutVars, sealVars, drained, drainedSources>>

-----------------------------------------------------------------------------
publishCut ==
    /\ Calling
    /\ Goto("cut", Dirty)
    /\ UNCHANGED <<call, ledgerVars, referenceVars, tableVars, rowVars, segmentVars,
                   fileVars, cutVars, sealVars, drainVars>>

CutRequired ==
    cutReservationBytes(sources, Cardinality(gaps), blocks, referenceBytes)

(* publishCut() and writeCorpusCut() once the segments are flushed: the    *)
(* reservation is tested and cut.pending is written beside cut.bin.        *)
WriteCut ==
    /\ pc = "cut" /\ todo = {}
    /\ \/ /\ CutRequired > cutReservedBytes
          /\ Fail("CorruptData")
          /\ UNCHANGED cutPending
       \/ /\ CutRequired <= cutReservedBytes
          /\ cutPending' = CutHeaderBytes + sources * SourceBytes
               + Cardinality(gaps) * GapBytes + blocks * RangeBytes + referenceBytes
          /\ Goto("rename", {}) /\ UNCHANGED call
    /\ UNCHANGED <<ledgerVars, referenceVars, tableVars, rowVars, segmentVars,
                   fileVars, cutFile, sealVars, drainVars>>

RenameCut ==
    /\ pc = "rename"
    /\ cutFile' = cutPending /\ cutPending' = 0
    /\ IF finalizing THEN Goto("manifest", {}) /\ UNCHANGED call ELSE Return(Ok)
    /\ UNCHANGED <<ledgerVars, referenceVars, tableVars, rowVars, segmentVars,
                   fileVars, sealVars, drainVars>>

(* Any write, fsync or rename of a commit may fail and leave its file, and *)
(* the reference binder may refuse the payload of a cut.                   *)
CommitFails ==
    /\ pc \in {"cut", "rename", "seal", "manifest"} /\ todo = {}
    /\ tables' = (tables \/ pc = "seal")
    /\ manifestFile' = (pc = "manifest")
    /\ Fail("IoError")
    /\ UNCHANGED <<ledgerVars, referenceVars, tableVars, rowVars, segmentVars,
                   fileVars, cutVars, finalizing, drainVars>>

(* finalize() starts by flushing every open segment; inside a depth        *)
(* transaction it returns before, and changes nothing here.                *)
finalize ==
    /\ pc = "ready"
    /\ finalizing' = TRUE
    /\ Goto("seal", Dirty)
    /\ UNCHANGED <<call, ledgerVars, referenceVars, tableVars, rowVars, segmentVars,
                   fileVars, cutVars, tables, manifestFile, drainVars>>

(* finalize() seals the segments and writes the three tables. *)
FinalizeTables ==
    /\ pc = "seal" /\ todo = {}
    /\ open' = [s \in Shard |-> FALSE]
    /\ indexed' = [s \in Shard |-> {}]
    /\ tables' = TRUE
    /\ Goto("cut", {})
    /\ UNCHANGED <<call, ledgerVars, referenceVars, tableVars, rowVars, pendingCount,
                   channel, used, segmentBytes, fileVars, cutVars, manifestFile,
                   finalizing, drainVars>>

(* finalize() writes manifest.bin and ends the recording. *)
FinalizeManifest ==
    /\ pc = "manifest"
    /\ manifestFile' = TRUE
    /\ Fail(Ok)
    /\ UNCHANGED <<ledgerVars, referenceVars, tableVars, rowVars, segmentVars,
                   fileVars, cutVars, tables, finalizing, drainVars>>

-----------------------------------------------------------------------------
Next ==
    \/ \E s \in Shard : \E physicalBytes \in 1 .. (pendingCount[s] * RecordBytes) :
         flushBlock(s, physicalBytes)
    \/ FlushFails
    \/ \E row \in [shard : Shard, source : 1 .. (sources + 1),
                   generation : Generation, channel : Channel] : AppendCheck(row)
    \/ AppendMeasure
    \/ AppendQuota
    \/ AppendCommit
    \/ \E left \in {0, 1} : AppendFails(left)
    \/ \E added \in 1 .. MaximumSources : registerSources(added)
    \/ \E source \in 1 .. sources, ch \in Channel : appendGap(source, ch)
    \/ \E size \in ReferenceSize : setReferencePayload(size)
    \/ beginFinalDrain
    \/ publishCut
    \/ WriteCut
    \/ RenameCut
    \/ CommitFails
    \/ finalize
    \/ FinalizeTables
    \/ FinalizeManifest

Spec == Init /\ [][Next]_vars

-----------------------------------------------------------------------------
(* The ranges the writer's members stay in: no counter of bytes goes       *)
(* negative, a block never holds more than kBinaryMarketBlockRecords rows  *)
(* and no row is buffered in two segments.                                 *)
TypeOK ==
    /\ projectedBytes \in Nat /\ writeLimitBytes \in Nat /\ cutReservedBytes \in Nat
    /\ referenceReservedBytes \in Nat /\ referenceBytes \in 0 .. referenceReservedBytes
    /\ sources \in InitialSources .. MaximumSources
    /\ gaps \in SUBSET ((1 .. sources) \X Channel)
    /\ blocks \in Nat /\ recordCount \in Nat /\ indexEntries \in Nat
    /\ open \in [Shard -> BOOLEAN] /\ used \in [Shard -> BOOLEAN]
    /\ pendingCount \in [Shard -> 0 .. BlockRecords]
    /\ channel \in [Shard -> Channel]
    /\ segmentBytes \in [Shard -> Nat]
    /\ indexed \in [Shard -> SUBSET (Nat \X Generation \X Channel)]
    /\ segmentFiles \in Nat /\ storedBytes \in Nat
    /\ cutFile \in Nat /\ cutPending \in Nat
    /\ tables \in BOOLEAN /\ manifestFile \in BOOLEAN /\ finalizing \in BOOLEAN
    /\ finalDrain \in BOOLEAN /\ drained \in Nat /\ drainedSources \in Nat
    /\ pc \in {"ready", "measure", "commit", "cut", "rename", "seal", "manifest",
               "ended"}
    /\ todo \subseteq Dirty
    /\ IF pc \in {"measure", "commit"} THEN call \in Plan ELSE call = NoCall
    /\ result \in {Ok, "Quota", "OutOfRange", "IoError", "CorruptData", "NoGapCell"}

(* What the recording may occupy: manifest.pending and manifest.bin, the   *)
(* tables, the segments with every buffered row at its reserve, cut.bin    *)
(* and cut.pending.                                                        *)
Footprint ==
    (IF manifestFile THEN 2 ELSE 1) * ManifestBytes
      + (IF tables THEN 3 * TableBytes + sources * SourceBytes
                        + indexEntries * IndexBytes + Cardinality(gaps) * GapBytes
         ELSE 0)
      + segmentFiles * SegmentBytes + storedBytes
      + Cardinality(Buffered) * RecordBytes + cutFile + cutPending

(* The recording never outgrows what the ledger projects, nor the ledger   *)
(* config.maximumBytes: at any step of any call, after any failure, with   *)
(* both files of a cut replacement on disk.                                *)
WithinMaximumBytes ==
    Footprint <= projectedBytes /\ projectedBytes <= MaximumBytes

(* publishCut() never finds its reservation short: a flush produces at     *)
(* most one block per accepted row, so admission has paid for every cut.   *)
CutIsPrepaid == result # "CorruptData"

(* The records that were committed to the rings and the queue when         *)
(* admission stopped all fit: after beginFinalDrain() no row and no source *)
(* meets the quota.                                                        *)
FinalDrainFits == finalDrain => result # "Quota"

(* A loss can always be recorded: appendGap() never runs out of gap cells, *)
(* for sources added during the recording either.                          *)
LossAlwaysFits == result # "NoGapCell"
=============================================================================
