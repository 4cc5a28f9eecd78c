-------------------------- MODULE CorpusCutProofs --------------------------
(***************************************************************************)
(* The durability theorems of CorpusCut, for any number of shards, blocks, *)
(* segments and generations, and the inductive invariant behind them.  The *)
(* first half of the induction concerns the writer and its segment files:  *)
(* types, phases, directory entries, and how far blocks are synced.  The   *)
(* second half concerns cut.bin, manifest.bin and the cursors that read    *)
(* them.                                                                   *)
(***************************************************************************)
EXTENDS CorpusCut, TLAPS

(* Where blocks may still be unsynced: in the open segments, and while a cut
   is being taken in the open segments it has not visited yet. *)
Unsynced ==
    CASE pc \in {"cut_pending", "cut_rename", "cut_root"} -> {}
      [] pc = "cut" -> {segmentOf[s] : s \in todo}
      [] OTHER -> {segmentOf[s] : s \in OpenShards}

(* What the shards hold. *)
ShardInv ==
    /\ pendingRows \subseteq OpenShards
    /\ pc \in {"flush", "seal", "seal_sync", "seal_rename", "cut"} => todo \subseteq OpenShards
    /\ pc = "flush" /\ call.rotate => segmentOf[call.shard] # 0
    /\ pc \in {"seal_sync", "seal_rename"} => \A s \in todo : First(s) => s \notin pendingRows

(* Which segment files have a directory entry. *)
NamesInv ==
    /\ alive => \A n \in Segment : nextSegmentNumber <= n => name[n] = "none"
    /\ alive => \A s \in OpenShards : name[segmentOf[s]] # "none"
    /\ alive => \A i \in DOMAIN blocks : name[blocks[i].segment] # "none"
    /\ \A n \in Segment : nameDurable[n] # "none" => name[n] # "none"
    /\ pc \in {"cut_pending", "cut_rename", "cut_root"} =>
          \A i \in DOMAIN blocks : nameDurable[blocks[i].segment] # "none"

(* How far the blocks are on their way to the disk. *)
KeptInv ==
    /\ alive => \A i \in DOMAIN blocks :
          /\ blocks[i].kept # "lost"
          /\ blocks[i].kept = "synced" \/ blocks[i].segment \in Unsynced
    /\ pc = "seal_sync" => \A s \in todo : First(s) =>
          \A i \in DOMAIN blocks : blocks[i].segment = segmentOf[s] => blocks[i].kept # "buffered"
    /\ pc = "seal_rename" => \A s \in todo : First(s) =>
          \A i \in DOMAIN blocks : blocks[i].segment = segmentOf[s] => blocks[i].kept = "synced"

PhaseInv ==
    /\ alive <=> pc \notin {"dead", "off"}
    /\ alive /\ health = "ended" => pc = "idle"
    /\ pc \in {"flush", "row"} => call.kind = "append"
    /\ pc \in {"seal", "seal_sync", "seal_rename"} => call.kind \in {"append", "finalize"}
    /\ pc \in {"manifest", "manifest_root"} => call.kind = "finalize"
    /\ pc \in {"cut", "cut_pending", "cut_rename", "cut_root"} =>
          /\ call.kind \in {"publishCut", "finalize"}
          /\ call.kind = "finalize" => finalized
    /\ call.kind = "publishCut" /\ pc \notin {"dead", "off"} => cutGeneration < GenerationLimit - 1
    /\ alive => \/ cutGeneration < GenerationLimit
                \/ pc \in {"manifest", "manifest_root"} \/ health = "ended"
    /\ call.kind = "append" /\ pc \in {"flush", "seal", "seal_sync", "seal_rename", "row"}
          /\ (segmentOf[call.shard] = 0 \/ call.rotate)
          => nextSegmentNumber < SegmentLimit
    /\ call.kind = "append" /\ pc \in {"seal", "seal_sync", "seal_rename", "row"} => call.rotate
    /\ pc = "cut_rename" => pendingSynced

(* No outcome of a power failure falls behind the cut c. *)
Safe(c) ==
    \A v \in cutSurvivors : /\ c.blocks <= v.blocks
                            /\ c.finalized => v.finalized

CutInv ==
    /\ cutBin \in cutSurvivors /\ manifestBin \in manifestSurvivors
    /\ \A v \in cutSurvivors : v.finalized => finalized
    /\ latest.generation = cutGeneration /\ Safe(latest)
    /\ cutBin.generation <= cutGeneration => Safe(cutBin)
    /\ alive => cutGeneration <= cutBin.generation /\ cutBin.generation <= cutGeneration + 1
    /\ \A v \in cutSurvivors : v.blocks <= cutBin.blocks
    /\ pc = "cut_root" => cutBin = NewCut
    /\ pc \in {"manifest", "manifest_root"} => cutBin = latest /\ latest.finalized
    /\ pc \in {"manifest", "manifest_root"} => cutSurvivors = {cutBin}
    /\ manifestSurvivors # {NoManifest} =>
          /\ pc \in {"manifest_root", "dead", "off"} \/ health = "ended"
          /\ cutSurvivors = {cutBin}
          /\ alive => cutBin = latest

Behind(a, b) == a.generation <= b.generation /\ a.blocks <= b.blocks

CursorInv ==
    /\ Safe(cut) /\ Safe(shown)
    /\ Behind(cut, cutBin)
    /\ mode = "local" => alive /\ Behind(cut, latest)
    /\ cursorPc \in {"acknowledged", "visible", "approve"} =>
          /\ Behind(cut, next) /\ Behind(next, cutBin)
          /\ next.finalized => finalized
    /\ cursorPc = "acknowledged" => Safe(next) /\ mode = "local" /\ Behind(next, latest)
    /\ cursorPc \in {"visible", "approve"} /\ next.generation <= cutGeneration => Safe(next)
    /\ cursorPc = "approve" => mode = "remote"
    /\ cursorPc \in {"open_sealed", "open_partial", "reopen_sealed"} => seek < cut.blocks
    /\ cursorPc = "reopen_sealed" => name[Wanted.segment] = "cxm"

IInv ==
    /\ TypeOK /\ PhaseInv /\ ShardInv /\ NamesInv /\ KeptInv /\ CutInv /\ CursorInv
    /\ CutIsWhole /\ ManifestIsWitness /\ CursorNeverBreaks

-----------------------------------------------------------------------------
(* Helpers on the list of blocks. *)

(* list becomes longer, keeps its segments and loses nothing that was synced. *)
Grows(list, longer) ==
    /\ longer \in Seq(Block) /\ Len(list) <= Len(longer)
    /\ \A i \in DOMAIN list : /\ i \in DOMAIN longer
                              /\ longer[i].segment = list[i].segment
                              /\ list[i].kept = "synced" => longer[i].kept = "synced"

(* Marking a block changes where it is kept and nothing else. *)
LEMMA MarkFacts ==
    ASSUME NEW b \in Block, NEW k \in Kept
    PROVE  Mark(b, k) \in Block /\ Mark(b, k).segment = b.segment /\ Mark(b, k).kept = k
BY Zenon DEF Mark, Block

(* g is list after its blocks of segment n left the stream buffer. *)
Flushes(list, g, n) ==
    /\ Grows(list, g) /\ g \in Seq(Block) /\ DOMAIN g = DOMAIN list
    /\ \A i \in DOMAIN list :
           /\ g[i].segment = list[i].segment
           /\ g[i].kept = list[i].kept \/ g[i].segment = n
           /\ g[i].segment = n => g[i].kept # "buffered"
           /\ g[i].kept = "lost" => list[i].kept = "lost"

(* A stream flush moves a segment's buffered blocks to the page cache. *)
LEMMA StreamFlushedFacts ==
    ASSUME NEW list \in Seq(Block), NEW n, NEW g, g = StreamFlushed(list, n)
    PROVE  Flushes(list, g, n)
<1> DEFINE Moves(i) == list[i].segment = n /\ list[i].kept = "buffered"
           f == [i \in DOMAIN list |-> IF Moves(i) THEN Mark(list[i], "stored") ELSE list[i]]
<1>1. DOMAIN list = 1 .. Len(list) /\ Len(list) \in Nat
  OBVIOUS
<1>2. \A i \in DOMAIN list : list[i] \in Block
  OBVIOUS
<1>3. "stored" \in Kept
  BY Zenon DEF Kept
<1>4. ASSUME NEW i \in DOMAIN list
      PROVE  /\ f[i] \in Block /\ f[i].segment = list[i].segment
             /\ f[i].kept = IF Moves(i) THEN "stored" ELSE list[i].kept
  <2>1. f[i] = IF Moves(i) THEN Mark(list[i], "stored") ELSE list[i]
    BY Zenon
  <2> QED
    BY <2>1, <1>2, <1>3, MarkFacts, Zenon
<1>5. DOMAIN f = 1 .. Len(list)
  BY <1>1, Zenon
<1>6. f \in Seq(Block) /\ Len(f) = Len(list)
  BY <1>1, <1>4, <1>5
<1>7. g = f
  BY Zenon DEF StreamFlushed
<1> HIDE DEF f
<1> QED
  BY <1>1, <1>4, <1>5, <1>6, <1>7 DEF Grows, Flushes

(* g is list after its blocks of segment n in the page cache were synced. *)
Syncs(list, g, n) ==
    /\ Grows(list, g) /\ g \in Seq(Block) /\ DOMAIN g = DOMAIN list
    /\ \A i \in DOMAIN list :
           /\ g[i].segment = list[i].segment
           /\ g[i].kept = list[i].kept \/ g[i].segment = n
           /\ g[i].segment = n /\ list[i].kept = "stored"
                 => g[i].kept = "synced"
           /\ list[i].kept # "stored" => g[i].kept = list[i].kept
           /\ g[i].kept = "lost" => list[i].kept = "lost"

(* A sync of a segment's file persists what the page cache holds of it. *)
LEMMA FileSyncedFacts ==
    ASSUME NEW list \in Seq(Block), NEW n, NEW g, g = FileSynced(list, n)
    PROVE  Syncs(list, g, n)
<1> DEFINE Moves(i) == list[i].segment = n /\ list[i].kept = "stored"
           f == [i \in DOMAIN list |-> IF Moves(i) THEN Mark(list[i], "synced") ELSE list[i]]
<1>1. DOMAIN list = 1 .. Len(list) /\ Len(list) \in Nat
  OBVIOUS
<1>2. \A i \in DOMAIN list : list[i] \in Block
  OBVIOUS
<1>3. "synced" \in Kept
  BY Zenon DEF Kept
<1>4. ASSUME NEW i \in DOMAIN list
      PROVE  /\ f[i] \in Block /\ f[i].segment = list[i].segment
             /\ f[i].kept = IF Moves(i) THEN "synced" ELSE list[i].kept
  <2>1. f[i] = IF Moves(i) THEN Mark(list[i], "synced") ELSE list[i]
    BY Zenon
  <2> QED
    BY <2>1, <1>2, <1>3, MarkFacts, Zenon
<1>5. DOMAIN f = 1 .. Len(list)
  BY <1>1, Zenon
<1>6. f \in Seq(Block) /\ Len(f) = Len(list)
  BY <1>1, <1>4, <1>5
<1>7. g = f
  BY Zenon DEF FileSynced
<1> HIDE DEF f
<1> QED
  BY <1>1, <1>4, <1>5, <1>6, <1>7 DEF Grows, Syncs

(* A list in which blocks were only marked again, none of them away from disk. *)
LEMMA MarkedGrows ==
    ASSUME NEW list \in Seq(Block), NEW f,
           f = [i \in DOMAIN list |-> f[i]],
           \A i \in DOMAIN list : f[i] = list[i] \/ \E k \in Kept : f[i] = Mark(list[i], k),
           \A i \in DOMAIN list : list[i].kept = "synced" => f[i].kept = "synced"
    PROVE  Grows(list, f) /\ Len(f) = Len(list)
<1>1. DOMAIN list = 1 .. Len(list) /\ Len(list) \in Nat /\ DOMAIN f = DOMAIN list
  OBVIOUS
<1>2. \A i \in DOMAIN list : f[i] \in Block /\ f[i].segment = list[i].segment
  BY MarkFacts
<1>3. f \in Seq(Block) /\ Len(f) = Len(list)
  BY <1>1, <1>2
<1> QED
  BY <1>1, <1>2, <1>3 DEF Grows

(* flushBlock() appends at most one block, of the shard's open segment. *)
LEMMA FlushedBlockFacts ==
    ASSUME TypeOK, NEW s \in Shard, s \in pendingRows => segmentOf[s] # 0
    PROVE  LET f == FlushedBlock(s) IN
           /\ Grows(blocks, f)
           /\ \A i \in DOMAIN f : \/ i \in DOMAIN blocks /\ f[i] = blocks[i]
                                  \/ /\ i = Len(blocks) + 1 /\ segmentOf[s] # 0
                                     /\ f[i].segment = segmentOf[s] /\ f[i].kept = "buffered"
<1>1. CASE s \notin pendingRows
  BY <1>1 DEF FlushedBlock, Grows, TypeOK
<1>2. CASE s \in pendingRows
  <2>1. segmentOf[s] \in Segment
    BY <1>2 DEF TypeOK, Segment
  <2> QED
    BY <1>2, <2>1 DEF FlushedBlock, Grows, TypeOK, Block, Kept
<1> QED
  BY <1>1, <1>2, Zenon

-----------------------------------------------------------------------------
(* Which step changes what. *)

(* A cursor only reads what the Recorder writes. *)
LEMMA CursorFrame ==
    CursorStep => UNCHANGED <<alive, recorderVars>>
BY Zenon DEF CursorStep, RefreshRead, RefreshAuthority, RefreshApprove, LoadRetained, Fetch,
       StartArchive, OpenArchive, OpenFile, CatchUp, Adopt, KeepCut

(* The writer runs only in a live process and never touches a cursor. *)
LEMMA WriterFrame ==
    WriterStep => alive /\ UNCHANGED <<alive, cursorVars, shown>>
<1> SUFFICES ASSUME WriterStep
             PROVE  alive /\ UNCHANGED <<alive, cursorVars, shown>>
  BY Zenon
<1>1. CASE AppendAny \/ AppendRotate \/ AppendRow
  BY <1>1, Zenon DEF AppendAny, AppendCall, AppendRotate, AppendRow
<1>2. CASE PublishCut \/ CutDirectory \/ CutPending \/ CutRename \/ CutRoot
  BY <1>2, Zenon DEF PublishCut, CutDirectory, CutPending, CutRename, CutRoot
<1>3. CASE Finalize \/ FinalizeTables \/ ManifestRename \/ ManifestRoot
  BY <1>3, Zenon DEF Finalize, FinalizeTables, ManifestRename, ManifestRoot
<1>4. ASSUME NEW s \in Shard, AppendFlush(s) \/ CutSegment(s)
      PROVE  alive /\ UNCHANGED <<alive, cursorVars, shown>>
  BY <1>4, Zenon DEF AppendFlush, CutSegment
<1>5. ASSUME NEW s \in Shard, SealWrite(s) \/ SealSync(s) \/ SealRename(s)
      PROVE  alive /\ UNCHANGED <<alive, cursorVars, shown>>
  BY <1>5, Zenon DEF SealWrite, SealSync, SealRename
<1> QED
  BY <1>1, <1>2, <1>3, <1>4, <1>5, Zenon DEF WriterStep

(* The list of blocks only grows, and what was synced stays synced. *)
LEMMA BlocksGrow ==
    ASSUME TypeOK, ShardInv, [Next]_vars
    PROVE  Grows(blocks, blocks')
<1>0. blocks \in Seq(Block) /\ segmentOf \in [Shard -> 0 .. SegmentLimit]
  BY Zenon DEF TypeOK
<1>z. ASSUME blocks' = blocks PROVE Grows(blocks, blocks')
  BY <1>0, <1>z DEF Grows
<1>f. ASSUME NEW s \in Shard PROVE s \in pendingRows => segmentOf[s] # 0
  BY Zenon DEF ShardInv, OpenShards
<1>t. ASSUME NEW a, NEW b, NEW c, Grows(a, b), Grows(b, c), a \in Seq(Block)
      PROVE  Grows(a, c)
  <2>1. b \in Seq(Block) /\ c \in Seq(Block)
    BY <1>t, Zenon DEF Grows
  <2>2. Len(a) \in Nat /\ Len(b) \in Nat /\ Len(c) \in Nat
    BY <1>t, <2>1
  <2>3. Len(a) <= Len(c)
    <3>1. Len(a) <= Len(b) /\ Len(b) <= Len(c)
      BY <1>t, Zenon DEF Grows
    <3> QED
      BY <2>2, <3>1
  <2>4. ASSUME NEW i \in DOMAIN a
        PROVE  /\ i \in DOMAIN c /\ c[i].segment = a[i].segment
               /\ a[i].kept = "synced" => c[i].kept = "synced"
    <3>1. /\ i \in DOMAIN b /\ b[i].segment = a[i].segment
          /\ a[i].kept = "synced" => b[i].kept = "synced"
      BY <1>t, Zenon DEF Grows
    <3> QED
      BY <1>t, <3>1, Zenon DEF Grows
  <2> QED
    BY <2>1, <2>3, <2>4, Zenon DEF Grows
<1>1. CASE AppendAny \/ AppendRotate \/ AppendRow
  BY <1>1, <1>z DEF AppendAny, AppendCall, AppendRotate, AppendRow
<1>2. CASE PublishCut \/ CutDirectory \/ CutPending \/ CutRename \/ CutRoot
  BY <1>2, <1>z, Zenon DEF PublishCut, CutDirectory, CutPending, CutRename, CutRoot
<1>3. CASE Finalize \/ FinalizeTables \/ ManifestRename \/ ManifestRoot
  BY <1>3, <1>z, Zenon DEF Finalize, FinalizeTables, ManifestRename, ManifestRoot
<1>4. ASSUME NEW s \in Shard, AppendFlush(s)
      PROVE  Grows(blocks, blocks')
  <2>1. blocks' = blocks \/ blocks' = FlushedBlock(s)
    BY <1>4, Zenon DEF AppendFlush
  <2> QED
    BY <2>1, <1>z, <1>f, FlushedBlockFacts, Zenon
<1>5. ASSUME NEW s \in Shard, CutSegment(s) \/ SealWrite(s)
      PROVE  Grows(blocks, blocks')
  <2> DEFINE b1 == FlushedBlock(s)
             b2 == StreamFlushed(b1, segmentOf[s])
             b3 == FileSynced(b2, segmentOf[s])
  <2>1. blocks' = blocks \/ blocks' = b2 \/ blocks' = b3
    BY <1>5, Zenon DEF CutSegment, SealWrite
  <2>2. Grows(blocks, b1) /\ b1 \in Seq(Block)
    BY <1>f, FlushedBlockFacts, Zenon DEF Grows
  <2> HIDE DEF b1
  <2>3. Grows(b1, b2) /\ b2 \in Seq(Block)
    BY <2>2, StreamFlushedFacts, Zenon DEF Flushes
  <2> HIDE DEF b2
  <2>4. Grows(b2, b3)
    BY <2>3, FileSyncedFacts, Zenon DEF Syncs
  <2> HIDE DEF b3
  <2>5. Grows(blocks, b2)
    BY <1>0, <2>2, <2>3, <1>t, Zenon
  <2>6. Grows(blocks, b3)
    BY <1>0, <2>4, <2>5, <1>t, Zenon
  <2> QED
    BY <2>1, <2>5, <2>6, <1>z, Zenon
<1>6. ASSUME NEW s \in Shard, SealSync(s) \/ SealRename(s)
      PROVE  Grows(blocks, blocks')
  <2>1. blocks' = blocks \/ blocks' = FileSynced(blocks, segmentOf[s])
    BY <1>6, Zenon DEF SealSync, SealRename
  <2> QED
    BY <2>1, <1>0, <1>z, FileSyncedFacts, Zenon DEF Syncs
<1>7. CASE CursorStep
  BY <1>7, <1>z, CursorFrame, Zenon DEF recorderVars
<1>8. CASE UNCHANGED vars
  BY <1>8, <1>z, Zenon DEF vars, recorderVars
<1>k. "lost" \in Kept /\ "synced" \in Kept
  BY Zenon DEF Kept
<1>m. \A i \in DOMAIN blocks : Mark(blocks[i], "synced").kept = "synced"
  BY Zenon DEF Mark
<1>9. CASE ProcessDies
  <2>1. blocks' = [i \in DOMAIN blocks |-> IF blocks[i].kept = "buffered"
                                           THEN Mark(blocks[i], "lost") ELSE blocks[i]]
    BY <1>9, Zenon DEF ProcessDies
  <2> QED
    BY <2>1, <1>0, <1>k, MarkedGrows, Zenon
<1>10. CASE PowerFails
  <2>1. PICK surviving :
           blocks' = [i \in DOMAIN blocks |->
                        IF i \in surviving \/ blocks[i].kept = "synced"
                        THEN Mark(blocks[i], "synced") ELSE Mark(blocks[i], "lost")]
    BY <1>10, Zenon DEF PowerFails
  <2> QED
    BY <2>1, <1>0, <1>k, <1>m, MarkedGrows, Zenon
<1> QED
  BY <1>1, <1>2, <1>3, <1>4, <1>5, <1>6, <1>7, <1>8, <1>9, <1>10, Zenon DEF Next, WriterStep

-----------------------------------------------------------------------------
(* Type correctness. *)

(* The cut being published has a generation within the bound. *)
LEMMA NewCutType ==
    ASSUME TypeOK, PhaseInv, pc \in {"cut_rename", "cut_root"}
    PROVE  NewCut \in Cut /\ cutGeneration + 1 \in 0 .. GenerationLimit
<1>1. cutGeneration \in 0 .. GenerationLimit /\ finalized \in BOOLEAN /\ Len(blocks) \in Nat
  BY DEF TypeOK
<1>2. cutGeneration < GenerationLimit
  BY <1>1, LimitAssumption, Zenon DEF PhaseInv
<1> QED
  BY <1>1, <1>2, LimitAssumption DEF NewCut, Cut

ControlType ==
    /\ alive \in BOOLEAN /\ health \in {"ok", "failed", "ended"}
    /\ pc \in {"idle", "flush", "row", "seal", "seal_sync", "seal_rename", "cut",
               "cut_pending", "cut_rename", "cut_root", "manifest",
               "manifest_root", "dead", "off"}
    /\ call \in Call /\ todo \subseteq Shard
    /\ segmentOf \in [Shard -> 0 .. SegmentLimit]
    /\ pendingRows \subseteq Shard /\ broken \subseteq Shard
    /\ nextSegmentNumber \in 1 .. SegmentLimit

StoreType ==
    /\ cutGeneration \in 0 .. GenerationLimit /\ finalized \in BOOLEAN
    /\ name \in [Segment -> {"none", "partial", "cxm"}]
    /\ nameDurable \in [Segment -> {"none", "partial", "cxm"}]
    /\ pendingSynced \in BOOLEAN
    /\ latest \in Cut /\ cutBin \in Cut /\ cutSurvivors \subseteq Cut
    /\ manifestBin \in Manifest /\ manifestSurvivors \subseteq Manifest

CursorType ==
    /\ next \in Cut /\ cut \in Cut /\ shown \in Cut /\ seek \in Nat
    /\ mode \in {"local", "remote", "archive"}
    /\ cursorPc \in {"idle", "acknowledged", "visible", "approve",
                     "open_sealed", "open_partial", "reopen_sealed"}
    /\ feedDetached \in BOOLEAN /\ caughtUp \in BOOLEAN
    /\ failure \in {"none", "continuity", "archive", "fetch"}

(* The type invariant by its parts. *)
LEMMA TypeParts ==
    TypeOK <=> ControlType /\ blocks \in Seq(Block) /\ StoreType /\ CursorType
BY Zenon DEF TypeOK, ControlType, StoreType, CursorType

(* The writer's program counter, call and shards keep their types. *)
LEMMA ControlStep ==
    ASSUME IInv, [Next]_vars
    PROVE  ControlType'
<1>0. ControlType /\ PhaseInv
  BY TypeParts, Zenon DEF IInv
<1>l. Idle \in Call
  BY LimitAssumption DEF Idle, Call, Shard
<1>o. OpenShards \subseteq Shard
  BY Zenon DEF OpenShards
<1>n. ASSUME NEW k \in {"append", "publishCut", "finalize"}, NEW s \in Shard, NEW r \in BOOLEAN
      PROVE  [kind |-> k, shard |-> s, rotate |-> r] \in Call
  BY Zenon DEF Call
<1>s. 0 \in Shard
  BY LimitAssumption DEF Shard
<1>1. CASE AppendAny
  <2>1. ASSUME NEW s \in Shard, NEW r \in BOOLEAN, NEW f \in SUBSET Shard, AppendCall(s, f, r)
        PROVE  ControlType'
    BY <2>1, <1>0, <1>n, Zenon DEF AppendCall, ControlType, segmentVars
  <2> QED
    BY <2>1, <1>1, <1>o, Zenon DEF AppendAny
<1>2. CASE AppendRotate
  BY <1>2, <1>0, Zenon DEF AppendRotate, ControlType, Goto, Call, segmentVars
<1>3. CASE AppendRow
  <2>1. call.shard \in Shard /\ (segmentOf[call.shard] = 0 => nextSegmentNumber < SegmentLimit)
    BY <1>3, <1>0, Zenon DEF AppendRow, ControlType, PhaseInv, Call
  <2>2. nextSegmentNumber \in 1 .. SegmentLimit /\ SegmentLimit \in Nat
    BY <1>0, LimitAssumption, Zenon DEF ControlType
  <2>3. nextSegmentNumber' \in 1 .. SegmentLimit /\ segmentOf' \in [Shard -> 0 .. SegmentLimit]
    BY <1>3, <1>0, <2>1, <2>2 DEF AppendRow, ControlType
  <2> QED
    BY <1>3, <1>0, <1>l, <2>1, <2>3, Zenon DEF AppendRow, ControlType, Fail
<1>4. CASE PublishCut
  BY <1>4, <1>0, <1>n, <1>s, <1>o, Zenon DEF PublishCut, ControlType, segmentVars
<1>5. CASE CutDirectory \/ CutPending \/ CutRename
  BY <1>5, <1>0, <1>l, Zenon DEF CutDirectory, CutPending, CutRename, Fail, Goto, ControlType, segmentVars
<1>6. CASE CutRoot \/ ManifestRename \/ ManifestRoot
  BY <1>6, <1>0, <1>l, Zenon DEF CutRoot, ManifestRename, ManifestRoot, Fail, Goto, ControlType, segmentVars
<1>7. CASE Finalize
  BY <1>7, <1>0, <1>n, <1>s, <1>o, Zenon DEF Finalize, ControlType, segmentVars
<1>8. CASE FinalizeTables
  BY <1>8, <1>0, <1>l, <1>o, Zenon DEF FinalizeTables, Fail, Goto, ControlType, segmentVars
<1>9. ASSUME NEW s \in Shard, AppendFlush(s) \/ CutSegment(s)
      PROVE  ControlType'
  BY <1>9, <1>0, <1>l, Zenon DEF AppendFlush, CutSegment, Fail, Goto, ControlType
<1>10. ASSUME NEW s \in Shard, SealWrite(s) \/ SealSync(s)
      PROVE  ControlType'
  BY <1>10, <1>0, <1>l, Zenon DEF SealWrite, SealSync, Fail, Goto, ControlType
<1>11. ASSUME NEW s \in Shard, SealRename(s)
      PROVE  ControlType'
  BY <1>11, <1>0, <1>l, LimitAssumption DEF SealRename, Fail, Goto, ControlType
<1>12. CASE ProcessDies \/ PowerFails
  BY <1>12, <1>0, Zenon DEF ProcessDies, PowerFails, ControlType, segmentVars
<1>13. CASE CursorStep \/ UNCHANGED vars
  BY <1>13, <1>0, CursorFrame, Zenon DEF vars, recorderVars, writerVars, segmentVars, ControlType
<1> QED
  BY <1>1, <1>2, <1>3, <1>4, <1>5, <1>6, <1>7, <1>8, <1>9, <1>10, <1>11, <1>12, <1>13, Zenon
     DEF Next, WriterStep

(* The contents of the files keep their types. *)
LEMMA StoreStep ==
    ASSUME IInv, [Next]_vars
    PROVE  StoreType'
<1>0. StoreType /\ ControlType /\ TypeOK /\ PhaseInv
  BY TypeParts, Zenon DEF IInv
<1>1. CASE AppendAny \/ AppendRotate \/ PublishCut \/ Finalize
  BY <1>1, <1>0 DEF AppendAny, AppendCall, AppendRotate, PublishCut, Finalize, StoreType,
        nameVars, cutVars, manifestVars
<1>2. CASE AppendRow
  BY <1>2, <1>0, Zenon DEF AppendRow, StoreType, Segment, cutVars, manifestVars
<1>3. CASE CutDirectory \/ CutPending
  BY <1>3, <1>0, Zenon DEF CutDirectory, CutPending, StoreType, nameVars, cutVars, manifestVars
<1>4. CASE CutRename
  <2>1. NewCut \in Cut /\ NoCut \in Cut
    BY <1>4, <1>0, NewCutType, LimitAssumption DEF CutRename, NoCut, Cut
  <2> QED
    BY <1>4, <1>0, <2>1, Zenon DEF CutRename, StoreType, nameVars, manifestVars
<1>5. CASE CutRoot
  <2>1. NewCut \in Cut /\ cutGeneration + 1 \in 0 .. GenerationLimit
    BY <1>5, <1>0, NewCutType, Zenon DEF CutRoot
  <2> QED
    BY <1>5, <1>0, <2>1, Zenon DEF CutRoot, RootSynced, StoreType, nameVars
<1>6. CASE FinalizeTables \/ ManifestRoot
  BY <1>6, <1>0, Zenon DEF FinalizeTables, ManifestRoot, RootSynced, StoreType, nameVars
<1>7. CASE ManifestRename
  BY <1>7, <1>0 DEF ManifestRename, ManifestOf, Manifest, Cut, StoreType, nameVars, cutVars, manifestVars
<1>8. ASSUME NEW s \in Shard,
             AppendFlush(s) \/ CutSegment(s) \/ SealWrite(s) \/ SealSync(s)
      PROVE  StoreType'
  BY <1>8, <1>0, Zenon DEF AppendFlush, CutSegment, SealWrite, SealSync, StoreType,
        nameVars, cutVars, manifestVars
<1>9. ASSUME NEW s \in Shard, SealRename(s)
      PROVE  StoreType'
  BY <1>9, <1>0, Zenon DEF SealRename, StoreType, cutVars, manifestVars
<1>10. CASE ProcessDies
  BY <1>10, <1>0, Zenon DEF ProcessDies, StoreType, nameVars, cutVars, manifestVars
<1>11. CASE PowerFails
  BY <1>11, <1>0, Zenon DEF PowerFails, StoreType
<1>12. CASE CursorStep \/ UNCHANGED vars
  BY <1>12, <1>0, CursorFrame, Zenon DEF vars, recorderVars, nameVars, cutVars, manifestVars, StoreType
<1> QED
  BY <1>1, <1>2, <1>3, <1>4, <1>5, <1>6, <1>7, <1>8, <1>9, <1>10, <1>11, <1>12, Zenon
     DEF Next, WriterStep

(* The cursor keeps its types. *)
LEMMA CursorTypeStep ==
    ASSUME IInv, [Next]_vars
    PROVE  CursorType'
<1>0. CursorType /\ StoreType
  BY TypeParts, Zenon DEF IInv
<1>l. NoCut \in Cut
  BY LimitAssumption DEF NoCut, Cut
<1>a. ASSUME NEW b \in BOOLEAN, Adopt(b) PROVE CursorType'
  BY <1>0, <1>a, Zenon DEF Adopt, Furthest, CursorType
<1>k. ASSUME KeepCut PROVE CursorType'
  BY <1>0, <1>k, Zenon DEF KeepCut, CursorType
<1>b. FinalizedCutIsDurable(next) \in BOOLEAN
  BY <1>0, Zenon DEF FinalizedCutIsDurable, CursorType, Cut
<1>1. CASE RefreshRead
  BY <1>1, <1>0, Zenon DEF RefreshRead, CursorType, StoreType
<1>2. CASE RefreshAuthority
  BY <1>2, <1>0, <1>a, <1>b, <1>k, Zenon DEF RefreshAuthority, CursorType
<1>3. CASE RefreshApprove
  BY <1>3, <1>a, <1>k, Zenon DEF RefreshApprove
<1>4. CASE LoadRetained \/ StartArchive \/ CatchUp \/ Fetch
  <2>1. feedDetached' \in BOOLEAN /\ caughtUp' \in BOOLEAN
    BY <1>4, <1>0, Zenon DEF LoadRetained, StartArchive, CatchUp, Fetch, CursorType
  <2>2. CASE LoadRetained
    BY <2>1, <2>2, <1>0 DEF LoadRetained, Loaded, CursorType
  <2>3. CASE StartArchive
    BY <2>1, <2>3, <1>0, Zenon DEF StartArchive, CursorType
  <2>5. CASE CatchUp
    BY <2>1, <2>5, <1>0, Zenon DEF CatchUp, CursorType
  <2>4. CASE Fetch
    BY <2>1, <2>4, <1>0 DEF Fetch, Loaded, CursorType
  <2> QED
    BY <1>4, <2>2, <2>3, <2>4, <2>5, Zenon
<1>6. CASE OpenArchive
  BY <1>6, <1>0 DEF OpenArchive, OpenFile, Loaded, CursorType
<1>7. CASE ProcessDies
  <2>1. CASE mode = "local"
    <3>1. FreshCursor /\ mode' = "archive" /\ shown' = shown
      BY <1>7, <2>1, Zenon DEF ProcessDies
    <3> QED
      BY <3>1, <1>0, <1>l, Zenon DEF FreshCursor, CursorType
  <2>2. CASE mode # "local"
    BY <1>7, <2>2, <1>0, Zenon DEF ProcessDies, CursorType, cursorVars
  <2> QED
    BY <2>1, <2>2, Zenon
<1>8. CASE PowerFails
  BY <1>8, <1>0, <1>l, Zenon DEF PowerFails, FreshCursor, CursorType
<1>9. CASE WriterStep \/ UNCHANGED vars
  BY <1>9, <1>0, WriterFrame, Zenon DEF vars, cursorVars, CursorType
<1> QED
  BY <1>1, <1>2, <1>3, <1>4, <1>6, <1>7, <1>8, <1>9, Zenon DEF Next, CursorStep

(* Every step keeps the type invariant. *)
LEMMA TypeStep ==
    ASSUME IInv, [Next]_vars
    PROVE  TypeOK'
<1>1. blocks' \in Seq(Block)
  BY BlocksGrow, Zenon DEF IInv, Grows
<1> QED
  BY <1>1, ControlStep, StoreStep, CursorTypeStep, Zenon
     DEF TypeOK, ControlType, StoreType, CursorType

-----------------------------------------------------------------------------
(* The phases of the writer. *)

(* Every step keeps the order of the writer's phases. *)
LEMMA PhaseStep ==
    ASSUME IInv, [Next]_vars
    PROVE  PhaseInv'
<1>0. TypeOK /\ PhaseInv /\ LimitAssumption
  BY LimitAssumption, Zenon DEF IInv
<1>g. cutGeneration \in Nat /\ GenerationLimit \in Nat \ {0}
  BY <1>0 DEF TypeOK, LimitAssumption
<1>1. CASE AppendAny
  <2>1. ASSUME NEW s \in Shard, NEW r \in BOOLEAN, NEW f, AppendCall(s, f, r)
        PROVE  PhaseInv'
    BY <2>1, <1>0, Zenon DEF AppendCall, PhaseInv, segmentVars, cutVars
  <2> QED
    BY <2>1, <1>1, Zenon DEF AppendAny
<1>2. CASE AppendRotate \/ AppendRow
  BY <1>2, <1>0 DEF AppendRotate, AppendRow, Goto, Fail, Idle, PhaseInv, segmentVars, cutVars
<1>3. CASE PublishCut \/ Finalize
  BY <1>3, <1>0 DEF PublishCut, Finalize, PhaseInv, segmentVars, cutVars
<1>4. CASE CutDirectory \/ CutPending
  BY <1>4, <1>0 DEF CutDirectory, CutPending, Goto, Fail, Idle, PhaseInv, segmentVars, cutVars
<1>5. CASE CutRename
  BY <1>5, <1>0 DEF CutRename, Goto, Fail, Idle, PhaseInv, segmentVars
<1>6. CASE CutRoot
  BY <1>6, <1>0, <1>g DEF CutRoot, Goto, Fail, Idle, PhaseInv, TypeOK, Call, segmentVars
<1>7. CASE FinalizeTables \/ ManifestRename \/ ManifestRoot
  BY <1>7, <1>0 DEF FinalizeTables, ManifestRename, ManifestRoot, Goto, Fail, Idle, PhaseInv,
        segmentVars, cutVars
<1>8. ASSUME NEW s \in Shard, AppendFlush(s) \/ CutSegment(s)
      PROVE  PhaseInv'
  BY <1>8, <1>0 DEF AppendFlush, CutSegment, Goto, Fail, Idle, PhaseInv, cutVars
<1>9. ASSUME NEW s \in Shard, SealWrite(s) \/ SealSync(s)
      PROVE  PhaseInv'
  BY <1>9, <1>0 DEF SealWrite, SealSync, Goto, Fail, Idle, PhaseInv, cutVars
<1>10. ASSUME NEW s \in Shard, SealRename(s)
      PROVE  PhaseInv'
  BY <1>10, <1>0 DEF SealRename, Goto, Fail, Idle, PhaseInv, cutVars
<1>11. CASE ProcessDies \/ PowerFails
  BY <1>11, <1>0, Zenon DEF ProcessDies, PowerFails, PhaseInv, segmentVars, cutVars
<1>12. CASE CursorStep \/ UNCHANGED vars
  <2>1. UNCHANGED <<alive, writerVars, segmentVars, cutVars>>
    BY <1>12, CursorFrame, Zenon DEF vars, recorderVars
  <2> QED
    BY <2>1, <1>0, Zenon DEF writerVars, segmentVars, cutVars, PhaseInv
<1> QED
  BY <1>1, <1>2, <1>3, <1>4, <1>5, <1>6, <1>7, <1>8, <1>9, <1>10, <1>11, <1>12, Zenon
     DEF Next, WriterStep

-----------------------------------------------------------------------------
(* The files of the segments. *)

(* f is the list of blocks with changes to segment n only, none of them lost. *)
Touched(f, n) ==
    \A i \in DOMAIN f :
        /\ \/ i \in DOMAIN blocks /\ f[i].segment = blocks[i].segment /\ f[i].kept = blocks[i].kept
           \/ f[i].segment = n
        /\ f[i].kept = "lost" => i \in DOMAIN blocks /\ blocks[i].kept = "lost"

(* What flushBlock(), a stream flush and a sync of a shard's segment do to the
   list of blocks, one after the other. *)
LEMMA WrittenFacts ==
    ASSUME TypeOK, ShardInv, NEW s \in OpenShards
    PROVE  LET n == segmentOf[s]
               b1 == FlushedBlock(s)
               b2 == StreamFlushed(b1, n)
               b3 == FileSynced(b2, n)
           IN  /\ Touched(b1, n) /\ Touched(b2, n) /\ Touched(b3, n)
               /\ \A i \in DOMAIN b2 : b2[i].segment = n => b2[i].kept # "buffered"
               /\ \A i \in DOMAIN b3 : b3[i].segment = n => b3[i].kept \in {"synced", "lost"}
<1> DEFINE n == segmentOf[s]
           b1 == FlushedBlock(s)
           b2 == StreamFlushed(b1, n)
           b3 == FileSynced(b2, n)
<1>0. s \in Shard /\ segmentOf[s] # 0 /\ blocks \in Seq(Block)
  BY Zenon DEF OpenShards, TypeOK
<1>1. /\ b1 \in Seq(Block) /\ Touched(b1, n)
  BY <1>0, FlushedBlockFacts DEF Grows, Touched
<1> HIDE DEF b1
<1>2. /\ b2 \in Seq(Block) /\ DOMAIN b2 = DOMAIN b1
      /\ \A i \in DOMAIN b1 : /\ b2[i].segment = b1[i].segment
                              /\ b2[i].kept = b1[i].kept \/ b2[i].segment = n
                              /\ b2[i].segment = n => b2[i].kept # "buffered"
                              /\ b2[i].kept = "lost" => b1[i].kept = "lost"
  <2>1. Flushes(b1, b2, n)
    BY <1>1, StreamFlushedFacts, Zenon
  <2> HIDE DEF b2
  <2> QED
    BY <2>1, Zenon DEF Flushes
<1> HIDE DEF b2
<1>3. /\ b3 \in Seq(Block) /\ DOMAIN b3 = DOMAIN b2
      /\ \A i \in DOMAIN b2 : /\ b3[i].segment = b2[i].segment
                              /\ b3[i].kept = b2[i].kept \/ b3[i].segment = n
                              /\ b3[i].segment = n /\ b2[i].kept = "stored" => b3[i].kept = "synced"
                              /\ b2[i].kept # "stored" => b3[i].kept = b2[i].kept
                              /\ b3[i].kept = "lost" => b2[i].kept = "lost"
  <2>1. Syncs(b2, b3, n)
    BY <1>2, FileSyncedFacts, Zenon
  <2> HIDE DEF b3
  <2> QED
    BY <2>1, Zenon DEF Syncs
<1> HIDE DEF b3
<1>4. Touched(b2, n)
  BY <1>1, <1>2, Zenon DEF Touched
<1>5. Touched(b3, n)
  BY <1>2, <1>3, <1>4 DEF Touched
<1>6. ASSUME NEW i \in DOMAIN b3, b3[i].segment = n
      PROVE  b3[i].kept \in {"synced", "lost"}
  <2>1. b2[i] \in Block /\ b3[i] \in Block
    BY <1>2, <1>3
  <2> QED
    BY <1>6, <1>2, <1>3, <2>1, Zenon DEF Block, Kept
<1>7. \A i \in DOMAIN b2 : b2[i].segment = n => b2[i].kept # "buffered"
  BY <1>2, Zenon
<1> QED
  BY <1>1, <1>4, <1>5, <1>6, <1>7, Zenon DEF b1, b2, b3

(* The writer visits its shards one at a time. *)
LEMMA FirstIsUnique ==
    ASSUME TypeOK, NEW s \in todo, NEW t \in todo, First(s), First(t)
    PROVE  s = t
BY LimitAssumption DEF First, TypeOK, Shard, LimitAssumption

(* Every step keeps what is known of the open segments. *)
LEMMA ShardStep ==
    ASSUME IInv, [Next]_vars
    PROVE  ShardInv'
<1>0. TypeOK /\ ShardInv /\ PhaseInv
  BY Zenon DEF IInv
<1>t. segmentOf \in [Shard -> 0 .. SegmentLimit] /\ pendingRows \subseteq Shard /\ call \in Call
  BY <1>0, Zenon DEF TypeOK
<1>i. ASSUME pc' \in {"idle", "dead", "off", "row", "cut_pending", "cut_rename", "cut_root",
                      "manifest", "manifest_root"},
             pendingRows' \subseteq pendingRows, UNCHANGED segmentOf
      PROVE  ShardInv'
  BY <1>0, <1>i, Zenon DEF ShardInv, OpenShards
<1>f. ASSUME Fail, pendingRows' \subseteq pendingRows, UNCHANGED segmentOf
      PROVE  ShardInv'
  BY <1>f, <1>i, Zenon DEF Fail
<1>1. CASE AppendAny
  <2>1. ASSUME NEW s \in Shard, NEW r \in BOOLEAN, NEW f \in SUBSET OpenShards, AppendCall(s, f, r)
        PROVE  ShardInv'
    BY <2>1, <1>0, Zenon DEF AppendCall, ShardInv, OpenShards, segmentVars
  <2>2. {} \in SUBSET OpenShards /\ OpenShards \in SUBSET OpenShards
        /\ \A s \in pendingRows : {s} \in SUBSET OpenShards
    BY <1>0, Zenon DEF ShardInv
  <2> QED
    BY <2>1, <2>2, <1>1, Zenon DEF AppendAny
<1>2. CASE AppendRotate
  BY <1>2, <1>0, <1>t, Zenon DEF AppendRotate, Goto, ShardInv, OpenShards, Call, segmentVars
<1>3. CASE AppendRow
  <2>1. CASE Fail /\ UNCHANGED <<pendingRows, segmentOf>>
    BY <2>1, <1>f, Zenon
  <2>2. CASE /\ pendingRows' = pendingRows \cup {call.shard} /\ pc' = "idle"
             /\ segmentOf[call.shard] # 0 /\ segmentOf' = segmentOf
    BY <2>2, <1>0, <1>t, Zenon DEF ShardInv, OpenShards, Call
  <2>3. CASE /\ pendingRows' = pendingRows \cup {call.shard} /\ pc' = "idle"
             /\ segmentOf' = [segmentOf EXCEPT ![call.shard] = nextSegmentNumber]
    BY <2>3, <1>0, <1>t DEF ShardInv, OpenShards, Call, TypeOK
  <2> QED
    BY <1>3, <2>1, <2>2, <2>3, Zenon DEF AppendRow
<1>4. CASE CutPending \/ CutRename \/ CutRoot \/ ManifestRename \/ ManifestRoot \/ CutDirectory
  BY <1>4, <1>i, <1>f, Zenon DEF CutPending, CutRename, CutRoot, ManifestRename, ManifestRoot, CutDirectory,
        Goto, Idle, segmentVars
<1>5. CASE PublishCut \/ Finalize \/ FinalizeTables
  BY <1>5, <1>0, <1>f, Zenon DEF PublishCut, Finalize, FinalizeTables, Goto, ShardInv, OpenShards,
        segmentVars
<1>6. ASSUME NEW s \in Shard, AppendFlush(s) \/ CutSegment(s)
      PROVE  ShardInv'
  BY <1>6, <1>0, <1>f, Zenon DEF AppendFlush, CutSegment, Goto, ShardInv, OpenShards
<1>7. ASSUME NEW s \in Shard, SealWrite(s)
      PROVE  ShardInv'
  <2>1. CASE Fail /\ pendingRows' = pendingRows
    BY <2>1, <1>7, <1>f, Zenon DEF SealWrite
  <2>2. CASE pendingRows' = pendingRows \ {s} /\ todo' = todo /\ Goto("seal_sync")
    <3>1. pc = "seal" /\ First(s) /\ s \in todo /\ segmentOf' = segmentOf
      BY <1>7, Zenon DEF SealWrite, First
    <3>2. \A t \in todo : First(t) => t = s
      BY <3>1, <1>0, FirstIsUnique, Zenon
    <3> QED
      BY <2>2, <3>1, <3>2, <1>0, Zenon DEF Goto, ShardInv, OpenShards, First
  <2> QED
    BY <1>7, <2>1, <2>2, Zenon DEF SealWrite
<1>8. ASSUME NEW s \in Shard, SealSync(s)
      PROVE  ShardInv'
  BY <1>8, <1>0, <1>f, Zenon DEF SealSync, Goto, ShardInv, OpenShards, First
<1>9. ASSUME NEW s \in Shard, SealRename(s)
      PROVE  ShardInv'
  <2>1. CASE Fail /\ UNCHANGED segmentOf
    BY <2>1, <1>9, <1>f, Zenon DEF SealRename
  <2>2. CASE /\ segmentOf' = [segmentOf EXCEPT ![s] = 0] /\ todo' = todo \ {s}
             /\ pc' \in {"row", "seal"}
    <3>1. pc = "seal_rename" /\ First(s) /\ s \in todo /\ pendingRows' = pendingRows
      BY <1>9, Zenon DEF SealRename, First
    <3>2. s \notin pendingRows /\ OpenShards' = OpenShards \ {s}
      BY <3>1, <2>2, <1>0, <1>t, Zenon DEF ShardInv, OpenShards
    <3> QED
      BY <2>2, <3>1, <3>2, <1>0, Zenon DEF ShardInv
  <2> QED
    BY <1>9, <2>1, <2>2, Zenon DEF SealRename, Goto
<1>10. CASE ProcessDies \/ PowerFails
  BY <1>10, <1>i, Zenon DEF ProcessDies, PowerFails, segmentVars
<1>11. CASE CursorStep \/ UNCHANGED vars
  BY <1>11, <1>0, CursorFrame, Zenon
     DEF vars, recorderVars, writerVars, segmentVars, ShardInv, OpenShards, First
<1> QED
  BY <1>1, <1>2, <1>3, <1>4, <1>5, <1>6, <1>7, <1>8, <1>9, <1>10, <1>11, Zenon DEF Next, WriterStep

(* A step of the writer touches blocks of open segments only and loses none. *)
LEMMA BlockMoves ==
    ASSUME IInv, WriterStep
    PROVE  blocks' = blocks \/ \E s \in OpenShards : First(s) /\ Touched(blocks', segmentOf[s])
<1>0. TypeOK /\ ShardInv
  BY Zenon DEF IInv
<1>1. CASE AppendAny \/ AppendRotate \/ AppendRow
  BY <1>1 DEF AppendAny, AppendCall, AppendRotate, AppendRow
<1>2. CASE PublishCut \/ CutDirectory \/ CutPending \/ CutRename \/ CutRoot
  BY <1>2, Zenon DEF PublishCut, CutDirectory, CutPending, CutRename, CutRoot
<1>3. CASE Finalize \/ FinalizeTables \/ ManifestRename \/ ManifestRoot
  BY <1>3, Zenon DEF Finalize, FinalizeTables, ManifestRename, ManifestRoot
<1>4. ASSUME NEW s \in Shard, AppendFlush(s) \/ CutSegment(s) \/ SealWrite(s)
      PROVE  blocks' = blocks \/ (s \in OpenShards /\ First(s) /\ Touched(blocks', segmentOf[s]))
  <2>1. s \in OpenShards /\ First(s)
    BY <1>4, <1>0, Zenon DEF AppendFlush, CutSegment, SealWrite, ShardInv, First
  <2>2. \/ blocks' = blocks \/ blocks' = FlushedBlock(s)
        \/ blocks' = StreamFlushed(FlushedBlock(s), segmentOf[s])
        \/ blocks' = FileSynced(StreamFlushed(FlushedBlock(s), segmentOf[s]), segmentOf[s])
    BY <1>4, Zenon DEF AppendFlush, CutSegment, SealWrite
  <2> QED
    BY <2>1, <2>2, <1>0, WrittenFacts
<1>5. ASSUME NEW s \in Shard, SealSync(s) \/ SealRename(s)
      PROVE  blocks' = blocks \/ (s \in OpenShards /\ First(s) /\ Touched(blocks', segmentOf[s]))
  <2>1. s \in OpenShards /\ First(s)
    BY <1>5, <1>0, Zenon DEF SealSync, SealRename, ShardInv, First
  <2>2. blocks' = blocks \/ blocks' = FileSynced(blocks, segmentOf[s])
    BY <1>5, Zenon DEF SealSync, SealRename
  <2>3. Touched(FileSynced(blocks, segmentOf[s]), segmentOf[s])
    <3>1. blocks \in Seq(Block)
      BY <1>0, Zenon DEF TypeOK
    <3> QED
      BY <3>1, FileSyncedFacts DEF Touched, Syncs
  <2> QED
    BY <2>1, <2>2, <2>3, Zenon
<1> QED
  BY <1>1, <1>2, <1>3, <1>4, <1>5, Zenon DEF WriterStep

(* Every step keeps what is known of the directory entries. *)
LEMMA NamesStep ==
    ASSUME IInv, [Next]_vars
    PROVE  NamesInv'
<1>0. TypeOK /\ ShardInv /\ PhaseInv /\ NamesInv
  BY Zenon DEF IInv
<1>t. /\ segmentOf \in [Shard -> 0 .. SegmentLimit] /\ nextSegmentNumber \in 1 .. SegmentLimit
      /\ name \in [Segment -> {"none", "partial", "cxm"}]
      /\ nameDurable \in [Segment -> {"none", "partial", "cxm"}]
      /\ blocks \in Seq(Block) /\ blocks' \in Seq(Block)
      /\ \A s \in OpenShards : segmentOf[s] \in Segment
      /\ \A i \in DOMAIN blocks : blocks[i].segment \in Segment
      /\ \A i \in DOMAIN blocks' : blocks'[i].segment \in Segment
  <2>1. blocks \in Seq(Block) /\ blocks' \in Seq(Block)
    BY <1>0, TypeStep, Zenon DEF TypeOK
  <2>2. \A i \in DOMAIN blocks : blocks[i] \in Block
    BY <2>1
  <2>3. \A i \in DOMAIN blocks' : blocks'[i] \in Block
    BY <2>1
  <2>4. \A s \in OpenShards : segmentOf[s] \in Segment
    BY <1>0 DEF OpenShards, TypeOK, Segment
  <2> QED
    BY <1>0, <2>1, <2>2, <2>3, <2>4, Zenon DEF TypeOK, Block
<1>b. ASSUME WriterStep, NEW i \in DOMAIN blocks'
      PROVE  name[blocks'[i].segment] # "none"
  <2>1. alive
    BY <1>b, WriterFrame, Zenon
  <2>2. CASE blocks' = blocks
    BY <2>1, <2>2, <1>0, <1>b, Zenon DEF NamesInv
  <2>3. ASSUME NEW s \in OpenShards, Touched(blocks', segmentOf[s])
        PROVE  name[blocks'[i].segment] # "none"
    BY <2>1, <2>3, <1>0, <1>b, Zenon DEF NamesInv, Touched
  <2> QED
    BY <2>2, <2>3, <1>b, BlockMoves, Zenon
<1>k. ASSUME WriterStep, UNCHANGED <<nameVars, nextSegmentNumber>>, OpenShards' \subseteq OpenShards,
             \A s \in OpenShards' : segmentOf'[s] = segmentOf[s],
             pc' \notin {"cut_pending", "cut_rename", "cut_root"}
      PROVE  NamesInv'
  <2>1. alive
    BY <1>k, WriterFrame, Zenon
  <2> QED
    BY <2>1, <1>k, <1>b, <1>0, WriterFrame, Zenon DEF NamesInv, nameVars
<1>1. CASE AppendAny \/ AppendRotate \/ PublishCut
  BY <1>1, <1>k, Zenon DEF WriterStep, AppendAny, AppendCall, AppendRotate, PublishCut, Goto,
        segmentVars, OpenShards
<1>2. CASE AppendRow
  <2>1. CASE segmentOf' = segmentOf /\ UNCHANGED <<nextSegmentNumber, name>>
    BY <1>2, <2>1, <1>k, Zenon DEF WriterStep, AppendRow, Fail, nameVars, OpenShards
  <2>2. CASE /\ segmentOf' = [segmentOf EXCEPT ![call.shard] = nextSegmentNumber]
             /\ nextSegmentNumber' = nextSegmentNumber + 1
             /\ name' = [name EXCEPT ![nextSegmentNumber] = "partial"]
             /\ pc' = "idle"
    <3>1. alive /\ call.shard \in Shard /\ blocks' = blocks /\ nameDurable' = nameDurable
      BY <1>2, <1>0, Zenon DEF AppendRow, TypeOK, Call
    <3>2. nextSegmentNumber \in Segment
      BY <1>t, LimitAssumption, Zenon DEF Segment
    <3>3. \A n \in Segment : name'[n] = IF n = nextSegmentNumber THEN "partial" ELSE name[n]
      BY <2>2, <1>t, <3>2, Zenon
    <3>4. \A s \in OpenShards' : name'[segmentOf'[s]] # "none"
      <4> SUFFICES ASSUME NEW s \in OpenShards' PROVE name'[segmentOf'[s]] # "none"
        BY Zenon
      <4>1. CASE s = call.shard
        BY <4>1, <2>2, <3>1, <3>2, <3>3, <1>t, Zenon
      <4>2. CASE s # call.shard
        <5>1. segmentOf'[s] = segmentOf[s] /\ s \in OpenShards
          BY <4>2, <2>2, <1>t, Zenon DEF OpenShards
        <5> QED
          BY <5>1, <3>1, <3>3, <1>t, <1>0, Zenon DEF NamesInv
      <4> QED
        BY <4>1, <4>2, Zenon
    <3>5. \A n \in Segment : nextSegmentNumber' <= n => name'[n] = "none"
      BY <2>2, <3>1, <3>3, <1>t, <1>0 DEF NamesInv, Segment
    <3>6. \A i \in DOMAIN blocks' : name'[blocks'[i].segment] # "none"
      BY <3>1, <3>3, <1>t, <1>0, Zenon DEF NamesInv
    <3>7. \A n \in Segment : nameDurable'[n] # "none" => name'[n] # "none"
      BY <3>1, <3>3, <1>0, Zenon DEF NamesInv
    <3> QED
      BY <2>2, <3>4, <3>5, <3>6, <3>7, Zenon DEF NamesInv
  <2> QED
    BY <1>2, <2>1, <2>2, Zenon DEF AppendRow

<1>3. CASE CutDirectory
  <2>1. CASE Fail /\ nameDurable' = nameDurable
    BY <1>3, <2>1, <1>k, Zenon DEF WriterStep, CutDirectory, Fail, segmentVars, nameVars, OpenShards
  <2>2. CASE nameDurable' = name /\ Goto("cut_pending")
    BY <1>3, <2>2, <1>0, Zenon DEF CutDirectory, Goto, NamesInv, segmentVars, OpenShards
  <2> QED
    BY <1>3, <2>1, <2>2, Zenon DEF CutDirectory
<1>4. CASE CutPending \/ CutRename
  <2>1. CASE Fail
    BY <1>4, <2>1, <1>k, Zenon DEF WriterStep, CutPending, CutRename, Fail, segmentVars, OpenShards
  <2>2. CASE pc' \in {"cut_rename", "cut_root"}
    BY <1>4, <2>2, <1>0, Zenon DEF CutPending, CutRename, NamesInv, segmentVars, nameVars, OpenShards
  <2> QED
    BY <1>4, <2>1, <2>2, Zenon DEF CutPending, CutRename, Goto
<1>5. CASE CutRoot \/ Finalize \/ FinalizeTables \/ ManifestRename \/ ManifestRoot
  <2>1. pc' \notin {"cut_pending", "cut_rename", "cut_root"}
    BY <1>5, Zenon DEF CutRoot, Finalize, FinalizeTables, ManifestRename, ManifestRoot, Fail, Goto
  <2>2. UNCHANGED <<segmentVars, nameVars>>
    BY <1>5, Zenon DEF CutRoot, Finalize, FinalizeTables, ManifestRename, ManifestRoot
  <2> QED
    BY <1>5, <2>1, <2>2, <1>k, Zenon DEF WriterStep, segmentVars, OpenShards
<1>6. ASSUME NEW s \in Shard, AppendFlush(s) \/ CutSegment(s) \/ SealWrite(s) \/ SealSync(s)
      PROVE  NamesInv'
  <2>1. pc' \notin {"cut_pending", "cut_rename", "cut_root"}
    BY <1>6, Zenon DEF AppendFlush, CutSegment, SealWrite, SealSync, Fail, Goto
  <2>2. UNCHANGED <<segmentOf, nextSegmentNumber, nameVars>>
    BY <1>6, Zenon DEF AppendFlush, CutSegment, SealWrite, SealSync
  <2> QED
    BY <1>6, <2>1, <2>2, <1>k, Zenon DEF WriterStep, OpenShards
<1>7. ASSUME NEW s \in Shard, SealRename(s)
      PROVE  NamesInv'
  <2>1. CASE Fail /\ UNCHANGED <<name, segmentOf>>
    BY <1>7, <2>1, <1>k, Zenon DEF WriterStep, SealRename, Fail, nameVars, OpenShards
  <2>2. CASE /\ name' = [name EXCEPT ![segmentOf[s]] = "cxm"]
             /\ segmentOf' = [segmentOf EXCEPT ![s] = 0] /\ pc' \in {"row", "seal"}
    <3>1. /\ alive /\ s \in OpenShards /\ blocks' = blocks /\ nameDurable' = nameDurable
          /\ nextSegmentNumber' = nextSegmentNumber
      BY <1>7, <1>0, Zenon DEF SealRename, First, ShardInv
    <3>2. \A n \in Segment : name'[n] = IF n = segmentOf[s] THEN "cxm" ELSE name[n]
      BY <2>2, <1>t, <3>1, Zenon
    <3>3. \A t \in OpenShards' : t \in OpenShards /\ segmentOf'[t] = segmentOf[t]
      BY <2>2, <1>t, Zenon DEF OpenShards
    <3>4. name[segmentOf[s]] # "none"
      BY <3>1, <1>0, Zenon DEF NamesInv
    <3>5. \A n \in Segment : name[n] # "none" => name'[n] # "none"
      BY <3>2, Zenon
    <3>6. \A n \in Segment : name[n] = "none" => name'[n] = "none"
      BY <3>2, <3>4, Zenon
    <3>7. \A n \in Segment : nextSegmentNumber' <= n => name'[n] = "none"
      BY <3>1, <3>6, <1>0, Zenon DEF NamesInv
    <3>8. \A t \in OpenShards' : name'[segmentOf'[t]] # "none"
      BY <3>1, <3>3, <3>5, <1>t, <1>0, Zenon DEF NamesInv
    <3>9. \A i \in DOMAIN blocks' : name'[blocks'[i].segment] # "none"
      BY <3>1, <3>5, <1>t, <1>0, Zenon DEF NamesInv
    <3>10. \A n \in Segment : nameDurable'[n] # "none" => name'[n] # "none"
      BY <3>1, <3>5, <1>0, Zenon DEF NamesInv
    <3> QED
      BY <2>2, <3>7, <3>8, <3>9, <3>10, Zenon DEF NamesInv
  <2> QED
    BY <1>7, <2>1, <2>2, Zenon DEF SealRename, Goto
<1>8. CASE ProcessDies
  BY <1>8, <1>0, Zenon DEF ProcessDies, NamesInv, nameVars
<1>9. CASE PowerFails
  BY <1>9, Zenon DEF PowerFails, NamesInv
<1>10. CASE CursorStep \/ UNCHANGED vars
  <2>1. UNCHANGED <<alive, pc, segmentOf, nextSegmentNumber, name, nameDurable, blocks>>
    BY <1>10, CursorFrame, Zenon DEF vars, recorderVars, writerVars, segmentVars, nameVars
  <2> QED
    BY <2>1, <1>0, Zenon DEF NamesInv, OpenShards
<1> QED
  BY <1>1, <1>2, <1>3, <1>4, <1>5, <1>6, <1>7, <1>8, <1>9, <1>10, Zenon DEF Next, WriterStep

(* Every step keeps what is known of the unsynced blocks. *)
LEMMA KeptStep ==
    ASSUME IInv, [Next]_vars
    PROVE  KeptInv'
<1>0. TypeOK /\ ShardInv /\ KeptInv /\ blocks \in Seq(Block) /\ blocks' \in Seq(Block)
  BY TypeStep, Zenon DEF IInv, TypeOK
<1>t. segmentOf \in [Shard -> 0 .. SegmentLimit]
  BY <1>0, Zenon DEF TypeOK
<1> DEFINE Segs == {segmentOf[s] : s \in OpenShards}
           OK(i, set) == blocks'[i].kept # "lost" /\ (blocks'[i].kept = "synced" \/ blocks'[i].segment \in set)
<1>u. alive => \A i \in DOMAIN blocks : /\ blocks[i].kept # "lost"
                                        /\ blocks[i].kept = "synced" \/ blocks[i].segment \in Segs
  BY <1>0, Zenon DEF KeptInv, Unsynced, ShardInv
<1>w. WriterStep => \A i \in DOMAIN blocks' : OK(i, Segs)
  <2> SUFFICES ASSUME WriterStep, NEW i \in DOMAIN blocks' PROVE OK(i, Segs)
    BY Zenon
  <2>1. alive
    BY WriterFrame, Zenon
  <2>2. CASE blocks' = blocks
    BY <2>1, <2>2, <1>u, Zenon
  <2>3. ASSUME NEW s \in OpenShards, Touched(blocks', segmentOf[s])
        PROVE  OK(i, Segs)
    BY <2>1, <2>3, <1>u, Zenon DEF Touched
  <2> QED
    BY <2>2, <2>3, BlockMoves, Zenon
<1>k. ASSUME WriterStep, OpenShards \subseteq OpenShards',
             \A s \in OpenShards : segmentOf'[s] = segmentOf[s],
             pc' \notin {"cut", "cut_pending", "cut_rename", "cut_root", "seal_sync", "seal_rename"}
      PROVE  KeptInv'
  <2>1. Unsynced' = {segmentOf'[s] : s \in OpenShards'}
    BY <1>k, Zenon DEF Unsynced
  <2>2. \A n \in Segs : n \in Unsynced'
    BY <1>k, <2>1, Zenon
  <2> HIDE DEF Segs
  <2>3. \A i \in DOMAIN blocks' : OK(i, Unsynced')
    BY <1>k, <1>w, <2>2, Zenon
  <2> QED
    BY <2>3, <1>k, Zenon DEF KeptInv
<1>f. ASSUME WriterStep, Fail, UNCHANGED segmentOf
      PROVE  KeptInv'
  BY <1>f, <1>k, Zenon DEF Fail, OpenShards
<1>1. CASE AppendAny \/ AppendRotate
  BY <1>1, <1>k, Zenon DEF WriterStep, AppendAny, AppendCall, AppendRotate, Goto, segmentVars, OpenShards
<1>2. CASE AppendRow
  <2>1. pc' = "idle"
    BY <1>2, Zenon DEF AppendRow, Fail
  <2>2. \A s \in OpenShards : segmentOf'[s] = segmentOf[s]
    BY <1>2, <1>t, Zenon DEF AppendRow, OpenShards
  <2>3. OpenShards \subseteq OpenShards'
    BY <2>2, Zenon DEF OpenShards
  <2> QED
    BY <1>2, <2>1, <2>2, <2>3, <1>k, Zenon DEF WriterStep
<1>3. CASE PublishCut \/ FinalizeTables
  <2>1. CASE Fail
    BY <1>3, <2>1, <1>f, Zenon DEF WriterStep, PublishCut, FinalizeTables, segmentVars
  <2>2. CASE pc' = "cut" /\ todo' = OpenShards
    <3>1. UNCHANGED segmentOf /\ WriterStep
      BY <1>3, Zenon DEF PublishCut, FinalizeTables, segmentVars, WriterStep
    <3>2. Unsynced' = Segs
      BY <2>2, <3>1, Zenon DEF Unsynced
    <3> HIDE DEF Segs
    <3> QED
      BY <2>2, <3>1, <3>2, <1>w, Zenon DEF KeptInv
  <2> QED
    BY <1>3, <2>1, <2>2, Zenon DEF PublishCut, FinalizeTables, Goto
<1>4. CASE CutDirectory \/ CutPending \/ CutRename
  <2>1. CASE Fail
    BY <1>4, <2>1, <1>f, Zenon DEF WriterStep, CutDirectory, CutPending, CutRename, segmentVars
  <2>2. CASE pc' \in {"cut_pending", "cut_rename", "cut_root"}
    <3>1. alive /\ blocks' = blocks /\ Unsynced = {}
      BY <1>4, Zenon DEF CutDirectory, CutPending, CutRename, Unsynced
    <3> QED
      BY <2>2, <3>1, <1>0, Zenon DEF KeptInv
  <2> QED
    BY <1>4, <2>1, <2>2, Zenon DEF CutDirectory, CutPending, CutRename, Goto
<1>5. CASE CutRoot \/ Finalize \/ ManifestRename \/ ManifestRoot
  <2>1. pc' \notin {"cut", "cut_pending", "cut_rename", "cut_root", "seal_sync", "seal_rename"}
    BY <1>5, Zenon DEF CutRoot, Finalize, ManifestRename, ManifestRoot, Fail, Goto
  <2>2. UNCHANGED segmentOf
    BY <1>5, Zenon DEF CutRoot, Finalize, ManifestRename, ManifestRoot, segmentVars
  <2> QED
    BY <1>5, <2>1, <2>2, <1>k, Zenon DEF WriterStep, OpenShards
<1>6. ASSUME NEW s \in Shard, AppendFlush(s)
      PROVE  KeptInv'
  BY <1>6, <1>k, Zenon DEF AppendFlush, WriterStep, Fail, Goto, OpenShards
<1>7. ASSUME NEW s \in Shard, CutSegment(s)
      PROVE  KeptInv'
  <2> DEFINE b3 == FileSynced(StreamFlushed(FlushedBlock(s), segmentOf[s]), segmentOf[s])
  <2>0. /\ WriterStep /\ UNCHANGED segmentOf /\ pc = "cut" /\ alive
        /\ s \in OpenShards /\ s \in todo
    BY <1>7, <1>0, Zenon DEF WriterStep, CutSegment, ShardInv, First
  <2>1. CASE Fail
    BY <2>0, <2>1, <1>f, Zenon
  <2>2. CASE blocks' = b3 /\ todo' = todo \ {s} /\ pc' = "cut"
    <3>1. /\ Touched(blocks', segmentOf[s])
          /\ \A i \in DOMAIN blocks' : blocks'[i].segment = segmentOf[s]
                                          => blocks'[i].kept \in {"synced", "lost"}
      BY <2>0, <2>2, <1>0, WrittenFacts, Zenon
    <3>2. Unsynced = {segmentOf[t] : t \in todo} /\ Unsynced' = {segmentOf[t] : t \in todo \ {s}}
      BY <2>0, <2>2, Zenon DEF Unsynced
    <3> HIDE DEF b3
    <3>3. ASSUME NEW i \in DOMAIN blocks'
          PROVE  blocks'[i].kept # "lost" /\ (blocks'[i].kept = "synced" \/ blocks'[i].segment \in Unsynced')
      <4>1. blocks'[i].kept # "lost"
        BY <2>0, <1>w, Zenon
      <4>2. CASE blocks'[i].segment = segmentOf[s]
        BY <3>1, <4>1, <4>2, Zenon
      <4>3. CASE blocks'[i].segment # segmentOf[s]
        <5>1. i \in DOMAIN blocks /\ blocks'[i].segment = blocks[i].segment /\ blocks'[i].kept = blocks[i].kept
          BY <3>1, <4>3, Zenon DEF Touched
        <5>2. blocks[i].kept = "synced" \/ blocks[i].segment \in Unsynced
          BY <5>1, <2>0, <1>0, Zenon DEF KeptInv
        <5> QED
          BY <3>2, <4>1, <4>3, <5>1, <5>2, Zenon
      <4> QED
        BY <4>2, <4>3, Zenon
    <3> QED
      BY <2>2, <3>3, Zenon DEF KeptInv
  <2> QED
    BY <1>7, <2>1, <2>2, Zenon DEF CutSegment, Goto

<1>8. ASSUME NEW s \in Shard, SealWrite(s)
      PROVE  KeptInv'
  <2> DEFINE b2 == StreamFlushed(FlushedBlock(s), segmentOf[s])
  <2>0. WriterStep /\ UNCHANGED segmentOf /\ First(s) /\ s \in OpenShards /\ s \in todo
    BY <1>8, <1>0, Zenon DEF WriterStep, SealWrite, ShardInv, First
  <2>1. CASE Fail
    BY <2>0, <2>1, <1>f, Zenon
  <2>2. CASE blocks' = b2 /\ todo' = todo /\ pc' = "seal_sync"
    <3>1. \A i \in DOMAIN blocks' : blocks'[i].segment = segmentOf[s] => blocks'[i].kept # "buffered"
      BY <2>0, <2>2, <1>0, WrittenFacts, Zenon
    <3>2. Unsynced' = Segs
      BY <2>0, <2>2, Zenon DEF Unsynced, OpenShards
    <3> HIDE DEF b2, Segs
    <3>3. \A t \in todo' : First(t)' => t = s
      BY <2>0, <2>2, <1>0, FirstIsUnique, Zenon DEF First
    <3> QED
      BY <2>0, <2>2, <3>1, <3>2, <3>3, <1>w, Zenon DEF KeptInv
  <2> QED
    BY <1>8, <2>1, <2>2, Zenon DEF SealWrite, Goto
<1>9. ASSUME NEW s \in Shard, SealSync(s)
      PROVE  KeptInv'
  <2>0. /\ WriterStep /\ UNCHANGED segmentOf /\ First(s) /\ s \in OpenShards /\ s \in todo
        /\ pc = "seal_sync" /\ alive
    BY <1>9, <1>0, Zenon DEF WriterStep, SealSync, ShardInv, First
  <2>1. CASE Fail
    BY <2>0, <2>1, <1>f, Zenon
  <2>2. CASE blocks' = FileSynced(blocks, segmentOf[s]) /\ todo' = todo /\ pc' = "seal_rename"
    <3>1. /\ DOMAIN blocks' = DOMAIN blocks
          /\ \A i \in DOMAIN blocks :
                /\ blocks'[i].segment = blocks[i].segment
                /\ blocks'[i].segment = segmentOf[s] /\ blocks[i].kept = "stored"
                      => blocks'[i].kept = "synced"
                /\ blocks[i].kept # "stored" => blocks'[i].kept = blocks[i].kept
      <4>1. Syncs(blocks, blocks', segmentOf[s])
        BY <2>2, <1>0, FileSyncedFacts, Zenon
      <4> QED
        BY <4>1, Zenon DEF Syncs
    <3>2. ASSUME NEW i \in DOMAIN blocks', blocks'[i].segment = segmentOf[s]
          PROVE  blocks'[i].kept = "synced"
      <4>1. /\ blocks'[i].segment = blocks[i].segment
            /\ blocks[i].kept = "stored" => blocks'[i].kept = "synced"
            /\ blocks[i].kept # "stored" => blocks'[i].kept = blocks[i].kept
        BY <3>1, <3>2, Zenon
      <4>2. blocks[i].kept # "buffered" /\ blocks[i].kept # "lost" /\ blocks[i].kept \in Kept
        <5>1. blocks[i] \in Block
          BY <3>1, <1>0
        <5>2. i \in DOMAIN blocks /\ blocks[i].segment = segmentOf[s]
          BY <3>1, <3>2, <4>1, Zenon
        <5>3. blocks[i].kept # "lost"
          BY <5>2, <2>0, <1>0, Zenon DEF KeptInv
        <5>4. blocks[i].kept # "buffered"
          BY <5>2, <2>0, <1>0, Zenon DEF KeptInv
        <5> QED
          BY <5>1, <5>3, <5>4, Zenon DEF Block
      <4> QED
        BY <4>1, <4>2, Zenon DEF Kept
    <3>3. Unsynced' = Segs
      BY <2>0, <2>2, Zenon DEF Unsynced, OpenShards
    <3> HIDE DEF Segs
    <3>4. \A t \in todo' : First(t)' => t = s
      BY <2>0, <2>2, <1>0, FirstIsUnique, Zenon DEF First
    <3> QED
      BY <2>0, <2>2, <3>2, <3>3, <3>4, <1>w, Zenon DEF KeptInv
  <2> QED
    BY <1>9, <2>1, <2>2, Zenon DEF SealSync, Goto
<1>10. ASSUME NEW s \in Shard, SealRename(s)
      PROVE  KeptInv'
  <2>0. /\ WriterStep /\ First(s) /\ s \in OpenShards /\ s \in todo
        /\ pc = "seal_rename" /\ alive /\ blocks' = blocks
    BY <1>10, <1>0, Zenon DEF WriterStep, SealRename, ShardInv, First
  <2>1. CASE Fail /\ UNCHANGED segmentOf
    BY <2>0, <2>1, <1>f, Zenon
  <2>2. CASE segmentOf' = [segmentOf EXCEPT ![s] = 0] /\ pc' \in {"row", "seal"}
    <3>1. Unsynced' = {segmentOf'[t] : t \in OpenShards'}
      BY <2>2, Zenon DEF Unsynced
    <3>2. \A t \in OpenShards : t # s => t \in OpenShards' /\ segmentOf'[t] = segmentOf[t]
      BY <2>2, <1>t, Zenon DEF OpenShards
    <3>3. \A i \in DOMAIN blocks : blocks[i].segment = segmentOf[s] => blocks[i].kept = "synced"
      BY <2>0, <1>0, Zenon DEF KeptInv
    <3>4. \A n \in Segs : n = segmentOf[s] \/ n \in Unsynced'
      BY <3>1, <3>2, Zenon
    <3> HIDE DEF Segs
    <3>5. \A i \in DOMAIN blocks' : OK(i, Unsynced')
      BY <2>0, <3>3, <3>4, <1>w, Zenon
    <3> QED
      BY <2>2, <3>5, Zenon DEF KeptInv
  <2> QED
    BY <1>10, <2>1, <2>2, Zenon DEF SealRename, Goto
<1>11. CASE ProcessDies \/ PowerFails
  BY <1>11, Zenon DEF ProcessDies, PowerFails, KeptInv
<1>12. CASE CursorStep \/ UNCHANGED vars
  <2>1. UNCHANGED <<alive, pc, todo, segmentOf, blocks>>
    BY <1>12, CursorFrame, Zenon DEF vars, recorderVars, writerVars, segmentVars
  <2> QED
    BY <2>1, <1>0, Zenon DEF KeptInv, Unsynced, OpenShards, First
<1> QED
  BY <1>1, <1>2, <1>3, <1>4, <1>5, <1>6, <1>7, <1>8, <1>9, <1>10, <1>11, <1>12
     DEF Next, WriterStep

-----------------------------------------------------------------------------
(* How cut.bin and its possible outcomes move. *)

(* cut.bin changes when a new cut is renamed over it; a sync of the root
   directory leaves it as the only outcome; nothing else touches it. *)
LEMMA CutMoves ==
    ASSUME IInv, WriterStep
    PROVE  \/ UNCHANGED <<cutBin, cutSurvivors>>
           \/ /\ pc = "cut_rename" /\ cutBin' = NewCut
              /\ cutSurvivors' = cutSurvivors \cup {NewCut}
              /\ UNCHANGED <<cutGeneration, latest, finalized>>
           \/ cutBin' = cutBin /\ cutSurvivors' = {cutBin}
<1>1. CASE AppendAny \/ AppendRotate \/ AppendRow \/ PublishCut \/ CutDirectory \/ CutPending
  BY <1>1 DEF AppendAny, AppendCall, AppendRotate, AppendRow, PublishCut, CutDirectory, CutPending,
        cutVars
<1>2. CASE CutRename
  <2>1. pendingSynced
    BY <1>2, Zenon DEF CutRename, IInv, PhaseInv
  <2> QED
    BY <1>2, <2>1, Zenon DEF CutRename
<1>3. CASE CutRoot \/ Finalize \/ FinalizeTables \/ ManifestRename \/ ManifestRoot
  BY <1>3, Zenon DEF CutRoot, Finalize, FinalizeTables, ManifestRename, ManifestRoot, RootSynced, cutVars
<1>4. ASSUME NEW s \in Shard, AppendFlush(s) \/ CutSegment(s) \/ SealWrite(s) \/ SealSync(s) \/ SealRename(s)
      PROVE  UNCHANGED <<cutBin, cutSurvivors>>
  BY <1>4, Zenon DEF AppendFlush, CutSegment, SealWrite, SealSync, SealRename, cutVars
<1> QED
  BY <1>1, <1>2, <1>3, <1>4, Zenon DEF WriterStep

(* A generation is acknowledged by the sync of the root directory only. *)
LEMMA LatestMoves ==
    ASSUME IInv, WriterStep
    PROVE  /\ \/ UNCHANGED <<cutGeneration, latest>>
              \/ /\ pc = "cut_root" /\ cutGeneration' = cutGeneration + 1 /\ latest' = NewCut
                 /\ cutBin' = cutBin /\ cutSurvivors' = {cutBin} /\ finalized' = finalized
           /\ finalized => finalized'
<1>1. CASE AppendAny \/ AppendRotate \/ AppendRow \/ PublishCut \/ CutDirectory \/ CutPending
  BY <1>1 DEF AppendAny, AppendCall, AppendRotate, AppendRow, PublishCut, CutDirectory, CutPending,
        cutVars
<1>2. CASE CutRename \/ CutRoot
  BY <1>2 DEF CutRename, CutRoot, RootSynced
<1>3. CASE Finalize \/ FinalizeTables \/ ManifestRename \/ ManifestRoot
  BY <1>3 DEF Finalize, FinalizeTables, ManifestRename, ManifestRoot, cutVars
<1>4. ASSUME NEW s \in Shard, AppendFlush(s) \/ CutSegment(s) \/ SealWrite(s) \/ SealSync(s) \/ SealRename(s)
      PROVE  UNCHANGED <<cutGeneration, latest, finalized>>
  BY <1>4, Zenon DEF AppendFlush, CutSegment, SealWrite, SealSync, SealRename, cutVars
<1> QED
  BY <1>1, <1>2, <1>3, <1>4, Zenon DEF WriterStep

(* A directory entry may appear and be sealed; it is never taken back. *)
LEMMA NameMoves ==
    ASSUME IInv, [Next]_vars, pc' # "off" \/ pc = "off"
    PROVE  \A n \in Segment : name[n] = "cxm" => name'[n] = "cxm"
<1>0. /\ name \in [Segment -> {"none", "partial", "cxm"}] /\ TypeOK /\ NamesInv /\ PhaseInv
      /\ nextSegmentNumber \in 1 .. SegmentLimit
  BY Zenon DEF IInv, TypeOK
<1>1. CASE AppendRow
  <2>1. CASE name' = name
    BY <2>1, Zenon
  <2>2. CASE name' = [name EXCEPT ![nextSegmentNumber] = "partial"]
    <3>1. nextSegmentNumber \in Segment /\ name[nextSegmentNumber] = "none"
      BY <1>0, <1>1, LimitAssumption DEF Segment, NamesInv, AppendRow
    <3> QED
      BY <2>2, <3>1, <1>0, Zenon
  <2> QED
    BY <1>1, <2>1, <2>2, Zenon DEF AppendRow
<1>2. ASSUME NEW s \in Shard, SealRename(s)
      PROVE  \A n \in Segment : name[n] = "cxm" => name'[n] = "cxm"
  BY <1>2, <1>0, Zenon DEF SealRename
<1>3. CASE PowerFails
  BY <1>3, Zenon DEF PowerFails
<1>4. CASE AppendAny \/ AppendRotate \/ PublishCut \/ CutDirectory \/ CutPending \/ CutRename
  BY <1>4, Zenon DEF AppendAny, AppendCall, AppendRotate, PublishCut, CutDirectory, CutPending, CutRename,
        nameVars
<1>5. CASE CutRoot \/ Finalize \/ FinalizeTables \/ ManifestRename \/ ManifestRoot \/ ProcessDies
  BY <1>5, Zenon DEF CutRoot, Finalize, FinalizeTables, ManifestRename, ManifestRoot, ProcessDies, nameVars
<1>6. ASSUME NEW s \in Shard, AppendFlush(s) \/ CutSegment(s) \/ SealWrite(s) \/ SealSync(s)
      PROVE  name' = name
  BY <1>6, Zenon DEF AppendFlush, CutSegment, SealWrite, SealSync, nameVars
<1>7. CASE CursorStep \/ UNCHANGED vars
  BY <1>7, CursorFrame, Zenon DEF vars, recorderVars, nameVars
<1> QED
  BY <1>1, <1>2, <1>3, <1>4, <1>5, <1>6, <1>7, Zenon DEF Next, WriterStep

(* Every outcome lists blocks that exist. *)
LEMMA SurvivorFacts ==
    ASSUME IInv
    PROVE  /\ \A v \in cutSurvivors : v \in Cut /\ v.blocks \in Nat /\ v.blocks <= Len(blocks)
           /\ Len(blocks) \in Nat /\ cutBin \in cutSurvivors
           /\ DOMAIN blocks = 1 .. Len(blocks)
<1>1. /\ blocks \in Seq(Block) /\ cutSurvivors \subseteq Cut /\ cutBin \in cutSurvivors
      /\ CutIsWhole
  BY Zenon DEF IInv, TypeOK, CutInv
<1>2. Len(blocks) \in Nat /\ DOMAIN blocks = 1 .. Len(blocks)
  BY <1>1
<1>3. ASSUME NEW v \in cutSurvivors
      PROVE  v \in Cut /\ v.blocks \in Nat /\ v.blocks <= Len(blocks)
  <2>1. v \in Cut /\ v.blocks \in Nat
    BY <1>1, Zenon DEF Cut
  <2>2. CASE v.blocks = 0
    BY <2>1, <2>2, <1>2
  <2>3. CASE v.blocks # 0
    <3>1. v.blocks \in 1 .. v.blocks
      BY <2>1, <2>3
    <3>2. v.blocks \in DOMAIN blocks
      BY <3>1, <1>1, Zenon DEF CutIsWhole
    <3> QED
      BY <2>1, <3>2, <1>2
  <2> QED
    BY <2>2, <2>3, Zenon
<1> QED
  BY <1>1, <1>2, <1>3, Zenon

(* A cut that no power failure can take back stays one. *)
LEMMA SafeStep ==
    ASSUME IInv, [Next]_vars, NEW c \in Cut, Safe(c)
    PROVE  \A v \in cutSurvivors' : c.blocks <= v.blocks /\ (c.finalized => v.finalized)
<1>1. cutBin \in cutSurvivors /\ c.blocks \in Nat
  BY SurvivorFacts, Zenon DEF Cut
<1>2. CASE WriterStep
  <2>1. CASE cutSurvivors' \subseteq cutSurvivors
    BY <2>1, Zenon DEF Safe
  <2>2. CASE cutSurvivors' = cutSurvivors \cup {NewCut}
    <3>1. c.blocks <= NewCut.blocks
      <4>1. c.blocks <= cutBin.blocks /\ cutBin.blocks <= Len(blocks) /\ cutBin.blocks \in Nat
            /\ Len(blocks) \in Nat
        BY <1>1, SurvivorFacts, Zenon DEF Safe
      <4>2. c.blocks <= Len(blocks)
        BY <4>1, <1>1
      <4> QED
        BY <4>2, Zenon DEF NewCut
    <3>2. c.finalized => NewCut.finalized
      <4>1. c.finalized => finalized
        BY <1>1, Zenon DEF Safe, IInv, CutInv
      <4> QED
        BY <4>1, Zenon DEF NewCut
    <3> HIDE DEF NewCut
    <3> QED
      BY <2>2, <3>1, <3>2, Zenon DEF Safe
  <2> QED
    BY <1>1, <1>2, <2>1, <2>2, CutMoves
<1>3. CASE PowerFails
  BY <1>3, Zenon DEF PowerFails, Safe
<1>4. CASE ProcessDies
  BY <1>4, Zenon DEF ProcessDies, cutVars, Safe
<1>5. CASE CursorStep \/ UNCHANGED vars
  BY <1>5, CursorFrame, Zenon DEF vars, recorderVars, cutVars, Safe
<1> QED
  BY <1>2, <1>3, <1>4, <1>5, Zenon DEF Next

(* Every step keeps all listed blocks on disk, a crash included. *)
LEMMA WholeStep ==
    ASSUME IInv, [Next]_vars
    PROVE  CutIsWhole'
<1>0. TypeOK /\ ShardInv /\ NamesInv /\ KeptInv /\ CutIsWhole /\ NamesInv'
  BY NamesStep, Zenon DEF IInv
<1>t. /\ blocks \in Seq(Block) /\ \A i \in DOMAIN blocks : blocks[i].segment \in Segment
      /\ name \in [Segment -> {"none", "partial", "cxm"}]
      /\ nameDurable \in [Segment -> {"none", "partial", "cxm"}]
  <2>1. blocks \in Seq(Block)
    BY <1>0, Zenon DEF TypeOK
  <2>2. \A i \in DOMAIN blocks : blocks[i] \in Block
    BY <2>1
  <2> QED
    BY <1>0, <2>1, <2>2, Zenon DEF TypeOK, Block
<1>g. \A i \in DOMAIN blocks : /\ i \in DOMAIN blocks' /\ blocks'[i].segment = blocks[i].segment
                               /\ blocks[i].kept = "synced" => blocks'[i].kept = "synced"
  BY <1>0, BlocksGrow, Zenon DEF Grows
<1>n. \A n \in Segment : nameDurable[n] # "none" => nameDurable'[n] # "none"
  <2>1. CASE CutDirectory
    BY <2>1, <1>0, Zenon DEF CutDirectory, NamesInv
  <2>2. CASE PowerFails
    <3> SUFFICES ASSUME NEW n \in Segment, nameDurable[n] # "none"
                 PROVE  nameDurable'[n] # "none"
      BY Zenon
    <3>1. name[n] # "none"
      BY <1>0, Zenon DEF NamesInv
    <3>2. "none" \notin NameSurvivors(n)
      BY <3>1, Zenon DEF NameSurvivors
    <3> QED
      BY <2>2, <3>2, Zenon DEF PowerFails
  <2>3. CASE AppendAny \/ AppendRotate \/ AppendRow \/ PublishCut \/ CutPending \/ CutRename
    BY <2>3 DEF AppendAny, AppendCall, AppendRotate, AppendRow, PublishCut, CutPending, CutRename,
          nameVars
  <2>4. CASE CutRoot \/ Finalize \/ FinalizeTables \/ ManifestRename \/ ManifestRoot \/ ProcessDies
    BY <2>4, Zenon DEF CutRoot, Finalize, FinalizeTables, ManifestRename, ManifestRoot, ProcessDies, nameVars
  <2>5. ASSUME NEW s \in Shard,
               AppendFlush(s) \/ CutSegment(s) \/ SealWrite(s) \/ SealSync(s) \/ SealRename(s)
        PROVE  nameDurable' = nameDurable
    BY <2>5, Zenon DEF AppendFlush, CutSegment, SealWrite, SealSync, SealRename, nameVars
  <2>6. CASE CursorStep \/ UNCHANGED vars
    BY <2>6, CursorFrame, Zenon DEF vars, recorderVars, nameVars
  <2> QED
    BY <2>1, <2>2, <2>3, <2>4, <2>5, <2>6, Zenon DEF Next, WriterStep
<1>old. ASSUME NEW c \in cutSurvivors, NEW i \in 1 .. c.blocks
        PROVE  /\ i \in DOMAIN blocks' /\ blocks'[i].kept = "synced"
               /\ nameDurable'[blocks'[i].segment] # "none"
  <2>1. i \in DOMAIN blocks /\ blocks[i].kept = "synced" /\ nameDurable[blocks[i].segment] # "none"
    BY <1>0, Zenon DEF CutIsWhole
  <2> QED
    BY <2>1, <1>g, <1>n, <1>t, Zenon
<1>1. CASE cutSurvivors' \subseteq cutSurvivors
  BY <1>1, <1>old, Zenon DEF CutIsWhole
<1>2. CASE pc = "cut_rename" /\ WriterStep /\ cutSurvivors' = cutSurvivors \cup {NewCut}
  <2>1. ASSUME NEW i \in 1 .. NewCut.blocks
        PROVE  /\ i \in DOMAIN blocks' /\ blocks'[i].kept = "synced"
               /\ nameDurable'[blocks'[i].segment] # "none"
    <3>1. i \in DOMAIN blocks /\ nameDurable[blocks[i].segment] # "none"
      <4>1. blocks \in Seq(Block)
        BY <1>0, Zenon DEF TypeOK
      <4>2. i \in 1 .. Len(blocks)
        BY Zenon DEF NewCut
      <4>3. i \in DOMAIN blocks
        BY <4>1, <4>2
      <4> QED
        BY <1>0, <1>2, <4>3, Zenon DEF NamesInv
    <3>2. alive /\ Unsynced = {}
      BY <1>2, WriterFrame, Zenon DEF Unsynced
    <3>3. blocks[i].kept = "synced"
      BY <3>1, <3>2, <1>0, Zenon DEF KeptInv
    <3> QED
      BY <3>1, <3>3, <1>g, <1>n, <1>t, Zenon
  <2> HIDE DEF NewCut
  <2> QED
    BY <1>2, <2>1, <1>old, Zenon DEF CutIsWhole
<1>3. CASE WriterStep
  BY <1>3, <1>1, <1>2, CutMoves, SurvivorFacts, Zenon
<1>4. CASE PowerFails \/ ProcessDies
  BY <1>4, <1>1, Zenon DEF PowerFails, ProcessDies, cutVars
<1>5. CASE CursorStep \/ UNCHANGED vars
  BY <1>5, <1>1, CursorFrame, Zenon DEF vars, recorderVars, cutVars
<1> QED
  BY <1>3, <1>4, <1>5, Zenon DEF Next

(* manifest.bin is the last thing a Recorder writes. *)
LEMMA ManifestIsLast ==
    ASSUME IInv, WriterStep, pc # "manifest_root"
    PROVE  manifestSurvivors = {NoManifest} /\ manifestBin = NoManifest
<1>0. PhaseInv /\ CutInv /\ alive
  BY WriterFrame, Zenon DEF IInv
<1>1. pc \notin {"dead", "off"}
  BY <1>0, Zenon DEF PhaseInv
<1>2. ~(pc = "idle" /\ health = "ended")
  <2>1. CASE AppendAny \/ AppendRotate \/ AppendRow \/ PublishCut \/ CutDirectory \/ CutPending
    BY <2>1, Zenon DEF AppendAny, AppendCall, AppendRotate, AppendRow, PublishCut, CutDirectory, CutPending
  <2>2. CASE CutRename \/ CutRoot \/ Finalize \/ FinalizeTables \/ ManifestRename \/ ManifestRoot
    BY <2>2, Zenon DEF CutRename, CutRoot, Finalize, FinalizeTables, ManifestRename, ManifestRoot
  <2>3. ASSUME NEW s \in Shard,
               AppendFlush(s) \/ CutSegment(s) \/ SealWrite(s) \/ SealSync(s) \/ SealRename(s)
        PROVE  pc # "idle"
    BY <2>3, Zenon DEF AppendFlush, CutSegment, SealWrite, SealSync, SealRename
  <2> QED
    BY <2>1, <2>2, <2>3, Zenon DEF WriterStep
<1>3. manifestSurvivors = {NoManifest}
  BY <1>0, <1>1, <1>2, Zenon DEF CutInv, PhaseInv
<1> QED
  BY <1>0, <1>3, Zenon DEF CutInv

(* The invariants of cut.bin, as the writer and the machine change it. *)
LEMMA CutStep ==
    ASSUME IInv, [Next]_vars
    PROVE  CutInv' /\ ManifestIsWitness'
<1>0. TypeOK /\ PhaseInv /\ CutInv /\ ManifestIsWitness
  BY Zenon DEF IInv
<1>t. /\ latest \in Cut /\ cutBin \in Cut /\ cutSurvivors \subseteq Cut /\ cutGeneration \in Nat
      /\ NewCut.generation = cutGeneration + 1 /\ NewCut.blocks = Len(blocks)
      /\ NewCut.finalized = finalized
      /\ cutBin.generation \in Nat /\ latest.blocks \in Nat /\ cutBin.blocks \in Nat
  BY <1>0 DEF TypeOK, Cut, NewCut
<1>s. Safe(latest) /\ \A v \in cutSurvivors' : latest.blocks <= v.blocks /\ (latest.finalized => v.finalized)
  BY <1>0, <1>t, SafeStep, Zenon DEF CutInv
<1>q. ASSUME WriterStep, UNCHANGED <<cutGeneration, latest, cutBin, cutSurvivors, manifestVars>>,
             pc # "manifest_root", pc' \notin {"cut_root", "manifest", "manifest_root"}
      PROVE  CutInv' /\ ManifestIsWitness'
  <2>1. manifestSurvivors' = {NoManifest} /\ manifestBin' = NoManifest
    BY <1>q, ManifestIsLast, Zenon DEF manifestVars
  <2>2. alive /\ (finalized => finalized')
    BY <1>q, WriterFrame, LatestMoves, Zenon
  <2>3. CutInv'
    BY <1>q, <2>1, <2>2, <1>0, Zenon DEF CutInv, Safe
  <2> QED
    BY <2>1, <2>3, Zenon DEF ManifestIsWitness
<1>f. ASSUME WriterStep, Fail, UNCHANGED <<cutGeneration, latest, cutBin, cutSurvivors, manifestVars>>,
             pc # "manifest_root"
      PROVE  CutInv' /\ ManifestIsWitness'
  BY <1>f, <1>q, Zenon DEF Fail
<1>1. CASE AppendAny \/ AppendRotate \/ AppendRow \/ PublishCut \/ CutDirectory \/ CutPending
  <2>1. UNCHANGED <<cutGeneration, latest, cutBin, cutSurvivors, manifestVars>>
    BY <1>1 DEF AppendAny, AppendCall, AppendRotate, AppendRow, PublishCut, CutDirectory, CutPending,
          cutVars
  <2>2. pc # "manifest_root" /\ pc' \notin {"cut_root", "manifest", "manifest_root"}
    BY <1>1, Zenon DEF AppendAny, AppendCall, AppendRotate, AppendRow, PublishCut, CutDirectory, CutPending,
          Goto, Fail
  <2> QED
    BY <1>1, <2>1, <2>2, <1>q, Zenon DEF WriterStep
<1>2. ASSUME NEW s \in Shard,
             AppendFlush(s) \/ CutSegment(s) \/ SealWrite(s) \/ SealSync(s) \/ SealRename(s)
      PROVE  CutInv' /\ ManifestIsWitness'
  <2>1. UNCHANGED <<cutGeneration, latest, cutBin, cutSurvivors, manifestVars>>
    BY <1>2, Zenon DEF AppendFlush, CutSegment, SealWrite, SealSync, SealRename, cutVars
  <2>2. pc # "manifest_root" /\ pc' \notin {"cut_root", "manifest", "manifest_root"}
    BY <1>2, Zenon DEF AppendFlush, CutSegment, SealWrite, SealSync, SealRename, Goto, Fail
  <2> QED
    BY <1>2, <2>1, <2>2, <1>q, Zenon DEF WriterStep
<1>3. CASE CutRename
  <2>0. WriterStep /\ pc = "cut_rename" /\ alive /\ UNCHANGED manifestVars
    BY <1>3, Zenon DEF WriterStep, CutRename
  <2>1. CASE Fail /\ UNCHANGED <<cutBin, cutSurvivors>>
    BY <2>0, <2>1, <1>3, <1>f, Zenon DEF CutRename
  <2>2. CASE cutBin' = NewCut /\ Goto("cut_root")
    <3>1. /\ cutSurvivors' = cutSurvivors \cup {NewCut}
          /\ UNCHANGED <<cutGeneration, latest, finalized, blocks, alive>> /\ pc' = "cut_root"
      <4>1. pendingSynced
        BY <2>0, <1>0, Zenon DEF PhaseInv
      <4> QED
        BY <4>1, <1>3, <2>2, Zenon DEF CutRename, Goto, Fail
    <3>2. manifestSurvivors' = {NoManifest} /\ manifestBin' = NoManifest
      BY <2>0, ManifestIsLast, Zenon DEF manifestVars
    <3>3. NewCut' = NewCut
      BY <3>1, Zenon DEF NewCut
    <3>4. \A v \in cutSurvivors' : v.blocks <= cutBin'.blocks
      BY <2>2, <3>1, <1>t, SurvivorFacts
    <3>5. \A v \in cutSurvivors' : v.finalized => finalized'
      BY <3>1, <1>t, <1>0, Zenon DEF CutInv
    <3>6. latest'.generation = cutGeneration' /\ Safe(latest)'
      BY <3>1, <1>s, <1>0, Zenon DEF CutInv, Safe
    <3>7. cutBin'.generation = cutGeneration' + 1 /\ cutGeneration' \in Nat
      BY <2>2, <3>1, <1>t, Zenon
    <3>8. cutBin' \in cutSurvivors'
      BY <2>2, <3>1, Zenon
    <3> HIDE DEF NewCut
    <3>9. CutInv'
      BY <2>2, <3>1, <3>2, <3>3, <3>4, <3>5, <3>6, <3>7, <3>8 DEF CutInv
    <3> QED
      BY <3>2, <3>9, Zenon DEF ManifestIsWitness
  <2> QED
    BY <1>3, <2>1, <2>2, Zenon DEF CutRename

<1>4. CASE CutRoot
  <2>0. WriterStep /\ pc = "cut_root" /\ alive
    BY <1>4, Zenon DEF WriterStep, CutRoot
  <2>1. CASE Fail /\ UNCHANGED <<cutGeneration, latest, cutSurvivors, manifestSurvivors>>
    BY <2>0, <2>1, <1>4, <1>f, Zenon DEF CutRoot, manifestVars
  <2>2. CASE RootSynced /\ cutGeneration' = cutGeneration + 1 /\ latest' = NewCut /\ pc' \in {"manifest", "idle"}
    <3>1. /\ cutBin = NewCut /\ UNCHANGED <<cutBin, finalized, alive>> /\ cutSurvivors' = {cutBin}
          /\ pc' = "manifest" => finalized
      BY <1>4, <2>0, <2>2, <1>0 DEF CutInv, CutRoot, RootSynced, PhaseInv, Idle
    <3>2. manifestSurvivors' = {NoManifest} /\ manifestBin' = NoManifest
      BY <1>4, <2>0, <2>2, ManifestIsLast, Zenon DEF RootSynced, CutRoot
    <3>3. /\ cutBin' = latest' /\ cutSurvivors' = {cutBin'} /\ cutBin'.generation = cutGeneration'
          /\ cutGeneration' \in Nat /\ cutBin'.finalized = finalized' /\ cutBin'.blocks \in Nat
      BY <2>2, <3>1, <1>t, Zenon
    <3>4. Safe(cutBin)' /\ Safe(latest)'
      BY <3>3 DEF Safe
    <3> HIDE DEF NewCut
    <3>5. CutInv'
      BY <2>2, <3>1, <3>2, <3>3, <3>4 DEF CutInv
    <3> QED
      BY <3>2, <3>5, Zenon DEF ManifestIsWitness
  <2> QED
    BY <1>4, <2>1, <2>2, Zenon DEF CutRoot
<1>5. CASE Finalize
  BY <1>5, <1>q, Zenon DEF WriterStep, Finalize, cutVars
<1>6. CASE FinalizeTables
  <2>0. /\ WriterStep /\ pc = "seal" /\ alive /\ UNCHANGED <<alive, cutGeneration, latest, cutBin, manifestBin>>
        /\ pc' \in {"cut", "idle"}
    BY <1>6, Zenon DEF WriterStep, FinalizeTables, Fail, Goto
  <2>1. CASE UNCHANGED <<cutSurvivors, manifestSurvivors>>
    BY <2>0, <2>1, <1>q, Zenon DEF manifestVars
  <2>2. CASE RootSynced
    <3>1. manifestSurvivors' = {NoManifest} /\ manifestBin' = NoManifest
      BY <2>0, <2>2, ManifestIsLast, Zenon DEF RootSynced
    <3>2. cutSurvivors' = {cutBin} /\ (finalized => finalized')
      BY <2>0, <2>2, LatestMoves, Zenon DEF RootSynced
    <3>3. Safe(cutBin)' /\ Safe(latest)'
      BY <2>0, <3>2, <1>s, <1>t DEF Safe
    <3>4. CutInv'
      BY <2>0, <3>1, <3>2, <3>3, <1>0, <1>t, Zenon DEF CutInv
    <3> QED
      BY <3>1, <3>4, Zenon DEF ManifestIsWitness
  <2> QED
    BY <1>6, <2>1, <2>2, Zenon DEF FinalizeTables
<1>7. CASE ManifestRename
  <2>0. WriterStep /\ pc = "manifest" /\ alive /\ UNCHANGED <<cutVars, alive>>
    BY <1>7, Zenon DEF WriterStep, ManifestRename
  <2>1. CASE Fail /\ UNCHANGED manifestVars
    BY <2>0, <2>1, <1>f, Zenon DEF cutVars
  <2>2. CASE /\ manifestBin' = ManifestOf(latest) /\ pc' = "manifest_root"
             /\ manifestSurvivors' = manifestSurvivors \cup {ManifestOf(latest)}
    <3>1. cutBin = latest /\ latest.finalized /\ cutSurvivors = {cutBin} /\ manifestSurvivors = {NoManifest}
      BY <2>0, <1>0, ManifestIsLast, Zenon DEF CutInv
    <3>2. CutInv'
      BY <2>0, <2>2, <3>1, <1>0, Zenon DEF CutInv, Safe, cutVars
    <3> QED
      BY <2>0, <2>2, <3>1, <3>2, Zenon DEF ManifestIsWitness, cutVars
  <2> QED
    BY <1>7, <2>1, <2>2, Zenon DEF ManifestRename, Goto
<1>8. CASE ManifestRoot
  <2>0. /\ pc = "manifest_root" /\ alive /\ pc' = "idle" /\ health' = "ended"
        /\ UNCHANGED <<alive, cutGeneration, latest, cutBin, manifestBin, finalized>>
    BY <1>8, <1>0, Zenon DEF ManifestRoot, Fail, PhaseInv
  <2>1. cutBin = latest /\ cutSurvivors = {cutBin} /\ latest.finalized
    BY <2>0, <1>0, Zenon DEF CutInv
  <2>2. cutSurvivors' = cutSurvivors /\ manifestSurvivors' \subseteq manifestSurvivors
        /\ manifestBin' \in manifestSurvivors'
    BY <1>8, <2>0, <2>1, <1>0, Zenon DEF ManifestRoot, RootSynced, CutInv
  <2>3. CutInv'
    BY <2>0, <2>1, <2>2, <1>0, Zenon DEF CutInv, Safe
  <2> QED
    BY <2>2, <2>3, <1>0, Zenon DEF ManifestIsWitness
<1>9. CASE ProcessDies
  <2>1. UNCHANGED <<cutGeneration, latest, cutBin, cutSurvivors, finalized, manifestBin, manifestSurvivors>>
        /\ ~alive' /\ pc' = "dead"
    BY <1>9, Zenon DEF ProcessDies, cutVars, manifestVars
  <2> QED
    BY <2>1, <1>0, Zenon DEF CutInv, Safe, ManifestIsWitness
<1>10. CASE PowerFails
  <2>1. /\ cutBin' \in cutSurvivors /\ cutSurvivors' = {cutBin'} /\ ~alive' /\ pc' = "off"
        /\ manifestBin' \in manifestSurvivors /\ manifestSurvivors' = {manifestBin'}
        /\ UNCHANGED <<cutGeneration, latest, finalized>>
    BY <1>10, Zenon DEF PowerFails
  <2>2. cutBin'.blocks \in Nat
    BY <2>1, <1>t, Zenon DEF Cut
  <2>3. Safe(cutBin)' /\ Safe(latest)'
    BY <2>1, <2>2, <1>s DEF Safe
  <2>4. CutInv'
    BY <2>1, <2>2, <2>3, <1>0 DEF CutInv
  <2> QED
    BY <2>1, <2>4, <1>0, Zenon DEF ManifestIsWitness
<1>11. CASE CursorStep \/ UNCHANGED vars
  <2>1. UNCHANGED <<alive, pc, health, blocks, cutGeneration, latest, cutBin, cutSurvivors,
                    finalized, manifestBin, manifestSurvivors>>
    BY <1>11, CursorFrame, Zenon DEF vars, recorderVars, writerVars, cutVars, manifestVars
  <2>2. NewCut' = NewCut
    BY <2>1, Zenon DEF NewCut
  <2> HIDE DEF NewCut
  <2> QED
    BY <2>1, <2>2, <1>0, Zenon DEF CutInv, Safe, ManifestIsWitness
<1> QED
  BY <1>1, <1>2, <1>3, <1>4, <1>5, <1>6, <1>7, <1>8, <1>9, <1>10, <1>11 DEF Next, WriterStep

-----------------------------------------------------------------------------
(* The cursor. *)

(* The fields of a cut. *)
LEMMA CutNumbers ==
    ASSUME NEW c \in Cut
    PROVE  c.generation \in Nat /\ c.blocks \in Nat /\ c.finalized \in BOOLEAN
BY LimitAssumption DEF Cut

(* Being behind a cut is transitive. *)
LEMMA BehindTransitive ==
    ASSUME NEW a \in Cut, NEW b \in Cut, NEW c \in Cut, Behind(a, b), Behind(b, c)
    PROVE  Behind(a, c)
<1>1. /\ a.generation \in Nat /\ b.generation \in Nat /\ c.generation \in Nat
      /\ a.blocks \in Nat /\ b.blocks \in Nat /\ c.blocks \in Nat
  BY CutNumbers, Zenon
<1> QED
  BY <1>1 DEF Behind

(* While the Recorder writes, neither cut.bin nor the acknowledgement goes back. *)
LEMMA CutAdvances ==
    ASSUME IInv, WriterStep
    PROVE  Behind(cutBin, cutBin') /\ (latest' = latest \/ latest' = cutBin)
<1>0. /\ cutBin \in Cut /\ latest \in Cut /\ CutInv /\ alive
  BY WriterFrame, Zenon DEF IInv, TypeOK
<1>1. cutBin.generation \in Nat /\ cutBin.blocks \in Nat
  BY <1>0, CutNumbers, Zenon
<1>4. Behind(cutBin, cutBin')
  <2>1. CASE cutBin' = cutBin
    BY <1>1, <2>1 DEF Behind
  <2>2. CASE cutBin' = NewCut
    <3>1. cutBin.generation <= cutGeneration + 1
      BY <1>0, Zenon DEF CutInv
    <3>2. cutBin.blocks <= Len(blocks)
      BY SurvivorFacts, Zenon
    <3> QED
      BY <2>2, <3>1, <3>2, Zenon DEF Behind, NewCut
  <2> QED
    BY <2>1, <2>2, CutMoves, Zenon
<1>5. latest' = latest \/ latest' = cutBin
  BY <1>0, LatestMoves, Zenon DEF CutInv
<1> QED
  BY <1>4, <1>5, Zenon

(* A block the cursor may load is on disk under a name. *)
LEMMA WantedIsThere ==
    ASSUME IInv, seek < cut.blocks
    PROVE  /\ seek + 1 \in DOMAIN blocks /\ Wanted.kept = "synced"
           /\ Wanted.segment \in Segment /\ name[Wanted.segment] \in {"partial", "cxm"}
<1>0. /\ cut \in Cut /\ seek \in Nat /\ blocks \in Seq(Block) /\ cutBin \in cutSurvivors
      /\ name \in [Segment -> {"none", "partial", "cxm"}]
      /\ CutIsWhole /\ NamesInv /\ cutBin \in Cut
  BY Zenon DEF IInv, TypeOK, CutInv
<1>1. cut.blocks <= cutBin.blocks
  BY Zenon DEF IInv, CursorInv, Behind
<1>2. seek + 1 \in 1 .. cutBin.blocks
  BY <1>0, <1>1, CutNumbers
<1>3. /\ seek + 1 \in DOMAIN blocks /\ Wanted.kept = "synced"
      /\ nameDurable[Wanted.segment] # "none"
  BY <1>0, <1>2, Zenon DEF CutIsWhole, Wanted
<1>4. Wanted \in Block
  BY <1>0, <1>3 DEF Wanted
<1>5. Wanted.segment \in Segment
  BY <1>4, Zenon DEF Block
<1> QED
  BY <1>0, <1>3, <1>5, Zenon DEF NamesInv

(* The Recorder's steps disturb no cursor. *)
LEMMA CursorUnderWriter ==
    ASSUME IInv, WriterStep
    PROVE  CursorInv' /\ CursorNeverBreaks'
<1>0. /\ TypeOK /\ CursorInv /\ CutInv /\ CursorNeverBreaks
      /\ cut \in Cut /\ next \in Cut /\ shown \in Cut /\ cutBin \in Cut /\ latest \in Cut
      /\ cutBin' \in Cut /\ latest' \in Cut
  <2>1. TypeOK'
    BY TypeStep, Zenon DEF Next
  <2> QED
    BY <2>1, Zenon DEF IInv, TypeOK
<1>n. [Next]_vars
  BY Zenon DEF Next
<1>1. alive /\ UNCHANGED <<alive, mode, cursorPc, next, cut, seek, failure, shown>>
  BY WriterFrame, Zenon DEF cursorVars
<1>2. /\ Safe(cut)' /\ Safe(shown)' /\ (Safe(next) => Safe(next)')
  BY <1>0, <1>1, <1>n, SafeStep, Zenon DEF CursorInv, Safe
<1>3. ASSUME NEW c \in Cut, Behind(c, cutBin)
      PROVE  Behind(c, cutBin') /\ (Behind(c, latest) => Behind(c, latest'))
  BY <1>0, <1>3, CutAdvances, BehindTransitive, Zenon
<1>4. cursorPc \in {"acknowledged", "visible", "approve"} => (next.finalized => finalized')
  BY <1>0, LatestMoves, Zenon DEF CursorInv
<1>5. ASSUME cursorPc \in {"visible", "approve"}, next.generation <= cutGeneration'
      PROVE  Safe(next)'
  <2>1. CASE cutGeneration' = cutGeneration
    BY <1>5, <2>1, <1>0, <1>2, Zenon DEF CursorInv
  <2>2. CASE pc = "cut_root" /\ cutSurvivors' = {cutBin}
    <3>1. Behind(next, cutBin) /\ (next.finalized => finalized) /\ cutBin = NewCut
      BY <1>5, <2>2, <1>0, Zenon DEF CursorInv, CutInv
    <3>2. cutBin.finalized = finalized
      BY <3>1, Zenon DEF NewCut
    <3> QED
      BY <1>1, <2>2, <3>1, <3>2, Zenon DEF Safe, Behind
  <2> QED
    BY <2>1, <2>2, LatestMoves, Zenon
<1>6. cursorPc = "reopen_sealed" => name'[Wanted'.segment] = "cxm"
  <2> SUFFICES ASSUME cursorPc = "reopen_sealed" PROVE name'[Wanted'.segment] = "cxm"
    BY Zenon
  <2>1. seek < cut.blocks /\ name[Wanted.segment] = "cxm"
    BY <1>0, Zenon DEF CursorInv
  <2>2. seek + 1 \in DOMAIN blocks /\ Wanted.segment \in Segment
    BY <2>1, WantedIsThere, Zenon
  <2>3. Wanted'.segment = Wanted.segment
    BY <2>2, <1>n, <1>1, BlocksGrow, Zenon DEF IInv, Grows, Wanted
  <2>4. pc' # "off"
    <3>1. PhaseInv'
      BY <1>n, PhaseStep, Zenon
    <3> QED
      BY <3>1, <1>1, Zenon DEF PhaseInv
  <2> QED
    BY <2>1, <2>2, <2>3, <2>4, <1>n, NameMoves, Zenon
<1>7. CursorInv'
  BY <1>0, <1>1, <1>2, <1>3, <1>4, <1>5, <1>6 DEF CursorInv
<1> QED
  BY <1>0, <1>1, <1>7, Zenon DEF CursorNeverBreaks

(* refresh() adopts only what extends the cursor's cut and cannot be lost. *)
LEMMA AdoptStep ==
    ASSUME IInv, NEW b \in BOOLEAN, Adopt(b), Behind(cut, next), Behind(next, cutBin), Safe(next),
           mode = "local" => Behind(next, latest)
    PROVE  CursorInv' /\ CursorNeverBreaks'
<1>0. CursorInv /\ CursorNeverBreaks /\ cut \in Cut /\ next \in Cut /\ shown \in Cut
  BY Zenon DEF IInv, TypeOK
<1>1. ~ContinuityBroken
  <2>1. /\ cut.generation \in Nat /\ next.generation \in Nat
        /\ cut.blocks \in Nat /\ next.blocks \in Nat
    BY <1>0, CutNumbers, Zenon
  <2> QED
    BY <2>1 DEF ContinuityBroken, Behind
<1>2. /\ cut' = next /\ failure' = failure /\ cursorPc' = "idle" /\ shown' = Furthest(shown, next)
      /\ UNCHANGED <<alive, mode, recorderVars>>
  BY <1>1, Zenon DEF Adopt
<1>3. UNCHANGED <<cutBin, cutSurvivors, latest>>
  BY <1>2, Zenon DEF recorderVars, cutVars
<1>4. Safe(shown)'
  BY <1>0, <1>2, <1>3, Zenon DEF CursorInv, Safe, Furthest
<1>5. Safe(cut)' /\ Behind(cut, cutBin)' /\ (mode' = "local" => alive' /\ Behind(cut, latest)')
  BY <1>0, <1>2, <1>3, Zenon DEF CursorInv, Safe, Behind
<1>6. CursorInv'
  BY <1>2, <1>4, <1>5, Zenon DEF CursorInv
<1> QED
  BY <1>0, <1>2, <1>6, Zenon DEF CursorNeverBreaks

(* The cursor's own steps. *)
LEMMA CursorUnderCursor ==
    ASSUME IInv, CursorStep
    PROVE  CursorInv' /\ CursorNeverBreaks'
<1>0. /\ TypeOK /\ CursorInv /\ CutInv /\ CursorNeverBreaks /\ ManifestIsWitness
      /\ cut \in Cut /\ next \in Cut /\ shown \in Cut /\ cutBin \in Cut /\ latest \in Cut
  BY Zenon DEF IInv, TypeOK
<1>1. UNCHANGED <<alive, finalized, cutGeneration, cutBin, cutSurvivors, latest, name, blocks>>
  BY CursorFrame, Zenon DEF recorderVars, cutVars, nameVars
<1>b. latest.generation \in Nat /\ cutBin.generation \in Nat /\ latest.blocks \in Nat
      /\ cutBin.blocks \in Nat /\ next.generation \in Nat
  BY <1>0, CutNumbers, Zenon
<1>k. ASSUME UNCHANGED <<mode, next, cut, shown>>, failure' = failure \/ failure' = "fetch",
             cursorPc' \in {"idle", "open_sealed", "open_partial", "reopen_sealed"},
             cursorPc' # "idle" => seek' < cut.blocks,
             cursorPc' = "reopen_sealed" => seek' = seek /\ name[Wanted.segment] = "cxm"
      PROVE  CursorInv' /\ CursorNeverBreaks'
  BY <1>0, <1>1, <1>k DEF CursorInv, CursorNeverBreaks, Safe, Behind, Wanted
<1>2. CASE RefreshRead
  <2>0. cursorPc = "idle" /\ UNCHANGED <<mode, cut, seek, failure, shown>>
    BY <1>2, Zenon DEF RefreshRead
  <2>1. CASE next' = latest /\ cursorPc' = "acknowledged" /\ mode = "local" /\ alive
    <3>1. Behind(latest, cutBin) /\ Behind(latest, latest)
      BY <2>1, <1>0, <1>b DEF CutInv, Safe, Behind
    <3>2. Behind(cut, latest) /\ Safe(latest) /\ (latest.finalized => finalized)
      BY <2>1, <1>0 DEF CursorInv, CutInv, Safe
    <3>3. CursorInv'
      BY <2>0, <2>1, <3>1, <3>2, <1>0, <1>1, Zenon DEF CursorInv, Safe, Behind
    <3> QED
      BY <2>0, <3>3, <1>0, Zenon DEF CursorNeverBreaks
  <2>2. CASE next' = cutBin /\ cursorPc' = "visible"
    <3>1. /\ Behind(cutBin, cutBin) /\ Behind(cut, cutBin) /\ (cutBin.finalized => finalized)
          /\ cutBin.generation <= cutGeneration => Safe(cutBin)
      BY <1>0, <1>b DEF CursorInv, CutInv, Behind
    <3>2. CursorInv'
      BY <2>0, <2>2, <3>1, <1>0, <1>1 DEF CursorInv, Safe, Behind
    <3> QED
      BY <2>0, <3>2, <1>0, Zenon DEF CursorNeverBreaks
  <2> QED
    BY <1>2, <2>1, <2>2, Zenon DEF RefreshRead
<1>kk. ASSUME KeepCut PROVE CursorInv' /\ CursorNeverBreaks'
  BY <1>kk, <1>k, Zenon DEF KeepCut
<1>3. CASE RefreshAuthority
  <2>0. cursorPc \in {"acknowledged", "visible"} /\ Behind(cut, next) /\ Behind(next, cutBin)
    BY <1>3, <1>0, Zenon DEF RefreshAuthority, CursorInv
  <2>b. FinalizedCutIsDurable(next) \in BOOLEAN
    BY <1>0, CutNumbers, Zenon DEF FinalizedCutIsDurable
  <2>1. CASE cursorPc = "acknowledged" /\ Adopt(FinalizedCutIsDurable(next))
    BY <2>0, <2>1, <2>b, <1>0, AdoptStep DEF CursorInv
  <2>2. CASE FinalizedCutIsDurable(next) /\ Adopt(FinalizedCutIsDurable(next))
    <3>1. next.finalized /\ manifestBin = ManifestOf(next) /\ manifestBin \in manifestSurvivors
      BY <2>2, <1>0, Zenon DEF FinalizedCutIsDurable, CutInv
    <3>2. manifestBin # NoManifest
      BY <3>1, Zenon DEF ManifestOf, NoManifest
    <3>3. \A c \in cutSurvivors : c.finalized /\ c.blocks = next.blocks
      BY <3>1, <3>2, <1>0 DEF ManifestIsWitness, ManifestOf
    <3>4. Safe(next)
      BY <3>3, <1>0, CutNumbers DEF Safe
    <3>5. mode = "local" => Behind(next, latest)
      <4>1. manifestSurvivors # {NoManifest}
        BY <3>1, <3>2, Zenon
      <4> QED
        BY <4>1, <2>0, <1>0, Zenon DEF CutInv, CursorInv
    <3> QED
      BY <2>0, <2>2, <2>b, <3>4, <3>5, AdoptStep, Zenon
  <2>3. CASE cursorPc = "visible" /\ cursorPc' = "approve" /\ mode = "remote"
             /\ UNCHANGED <<mode, next, cut, seek, failure, shown>>
    BY <2>3, <1>0, <1>1, Zenon DEF CursorInv, CursorNeverBreaks, Safe, Behind
  <2> QED
    BY <1>3, <2>0, <2>1, <2>2, <2>3, <1>kk, Zenon DEF RefreshAuthority
<1>4. CASE RefreshApprove
  <2>1. CASE KeepCut
    BY <2>1, <1>kk, Zenon
  <2>2. CASE Adopt(FALSE) /\ \E approved \in 0 .. latest.generation : ~(next.generation > approved)
    <3>1. next.generation <= cutGeneration
      BY <2>2, <1>b, <1>0 DEF CutInv
    <3>2. Safe(next) /\ mode = "remote" /\ Behind(cut, next) /\ Behind(next, cutBin)
      BY <1>4, <3>1, <1>0, Zenon DEF RefreshApprove, CursorInv
    <3> QED
      BY <2>2, <3>2, AdoptStep, Zenon
  <2> QED
    BY <1>4, <2>1, <2>2, Zenon DEF RefreshApprove
<1>5. CASE LoadRetained \/ StartArchive \/ CatchUp
  BY <1>5, <1>k, Zenon DEF LoadRetained, StartArchive, CatchUp, Loaded
<1>6. CASE Fetch
  BY <1>6, <1>k, Zenon DEF Fetch, Loaded
<1>7. CASE OpenArchive
  <2>0. /\ cursorPc \in {"open_sealed", "open_partial", "reopen_sealed"}
        /\ UNCHANGED <<mode, next, cut, shown>>
    BY <1>7, Zenon DEF OpenArchive, OpenFile
  <2>1. seek < cut.blocks
    BY <2>0, <1>0, Zenon DEF CursorInv
  <2>2. Wanted.kept = "synced" /\ name[Wanted.segment] \in {"partial", "cxm"}
    BY <2>1, WantedIsThere, Zenon
  <2>3. cursorPc = "reopen_sealed" => name[Wanted.segment] = "cxm"
    BY <1>0, Zenon DEF CursorInv
  <2>4. /\ failure' = failure
        /\ \/ cursorPc' = "idle"
           \/ cursorPc' = "open_partial" /\ seek' = seek
           \/ cursorPc' = "reopen_sealed" /\ seek' = seek /\ name[Wanted.segment] # "partial"
    BY <1>7, <2>2, <2>3 DEF OpenArchive, OpenFile, Loaded
  <2> QED
    BY <2>0, <2>1, <2>2, <2>4, <1>k, Zenon
<1> QED
  BY <1>2, <1>3, <1>4, <1>5, <1>6, <1>7, Zenon DEF CursorStep

(* Every step keeps what is known of the cursor. *)
LEMMA CursorInvStep ==
    ASSUME IInv, [Next]_vars
    PROVE  CursorInv' /\ CursorNeverBreaks'
<1>0. /\ TypeOK /\ CursorInv /\ CutInv /\ CursorNeverBreaks
      /\ cut \in Cut /\ next \in Cut /\ shown \in Cut
      /\ cutBin' \in Cut /\ latest' \in Cut
  <2>1. TypeOK'
    BY TypeStep, Zenon
  <2> QED
    BY <2>1, Zenon DEF IInv, TypeOK
<1>1. CASE WriterStep
  BY <1>1, CursorUnderWriter, Zenon
<1>2. CASE CursorStep
  BY <1>2, CursorUnderCursor, Zenon
<1>f. ASSUME FreshCursor, mode' = "archive", shown' = shown
      PROVE  CursorInv' /\ CursorNeverBreaks'
  <2>1. Safe(shown)'
    BY <1>f, <1>0, SafeStep, Zenon DEF CursorInv, Safe
  <2>2. \A v \in cutSurvivors' : v.blocks \in Nat
    <3>1. cutSurvivors' \subseteq Cut
      BY TypeStep, Zenon DEF TypeOK
    <3> QED
      BY <3>1, CutNumbers, Zenon
  <2>3. Safe(cut)'
    BY <1>f, <2>2 DEF FreshCursor, Safe, NoCut
  <2>4. Behind(cut, cutBin)'
    BY <1>f, <1>0, CutNumbers DEF FreshCursor, Behind, NoCut
  <2>5. CursorInv'
    BY <1>f, <2>1, <2>3, <2>4, Zenon DEF CursorInv, FreshCursor
  <2> QED
    BY <1>f, <2>5, Zenon DEF FreshCursor, CursorNeverBreaks
<1>3. CASE PowerFails
  BY <1>3, <1>f, Zenon DEF PowerFails
<1>4. CASE ProcessDies
  <2>1. CASE mode = "local"
    <3>1. FreshCursor /\ mode' = "archive" /\ shown' = shown
      BY <1>4, <2>1, Zenon DEF ProcessDies
    <3> QED
      BY <3>1, <1>f, Zenon
  <2>2. CASE mode # "local"
    <3>1. /\ UNCHANGED <<mode, cursorPc, next, cut, seek, failure, shown, finalized, cutGeneration,
                         cutBin, cutSurvivors, latest, name>>
      BY <1>4, <2>2, Zenon DEF ProcessDies, cursorVars, cutVars, nameVars
    <3>2. ASSUME cursorPc = "reopen_sealed" PROVE name'[Wanted'.segment] = "cxm"
      <4>1. seek < cut.blocks /\ name[Wanted.segment] = "cxm"
        BY <3>2, <1>0, Zenon DEF CursorInv
      <4>2. seek + 1 \in DOMAIN blocks
        BY <4>1, WantedIsThere, Zenon
      <4> QED
        BY <4>1, <4>2, <3>1, BlocksGrow, Zenon DEF IInv, Grows, Wanted
    <3>3. CursorInv'
      BY <2>2, <3>1, <3>2, <1>0 DEF CursorInv, Safe, Behind
    <3> QED
      BY <3>1, <3>3, <1>0, Zenon DEF CursorNeverBreaks
  <2> QED
    BY <2>1, <2>2, Zenon
<1>5. CASE UNCHANGED vars
  <2>1. /\ UNCHANGED <<alive, blocks, mode, cursorPc, next, cut, seek, failure, shown, finalized,
                       cutGeneration, cutBin, cutSurvivors, latest, name>>
    BY <1>5, Zenon DEF vars, recorderVars, cursorVars, cutVars, nameVars
  <2> QED
    BY <2>1, <1>0 DEF CursorInv, CursorNeverBreaks, Safe, Behind, Wanted
<1> QED
  BY <1>1, <1>2, <1>3, <1>4, <1>5, Zenon DEF Next

-----------------------------------------------------------------------------
(* A new recording satisfies the invariant. *)
LEMMA InitInv == Init => IInv
<1> SUFFICES ASSUME Init PROVE IInv
  BY Zenon
<1>l. /\ 0 \in 0 .. SegmentLimit /\ 1 \in 1 .. SegmentLimit /\ 0 \in 0 .. GenerationLimit
      /\ 0 \in Shard /\ GenerationLimit \in Nat \ {0}
  BY LimitAssumption DEF Shard
<1>c. NoCut \in Cut /\ NoManifest \in Manifest /\ Idle \in Call
  BY <1>l, Zenon DEF NoCut, Cut, NoManifest, Manifest, Idle, Call
<1>e. blocks = << >> /\ DOMAIN blocks = {} /\ blocks \in Seq(Block)
  BY DEF Init
<1>o. OpenShards = {}
  BY Zenon DEF Init, OpenShards
<1>1. TypeOK
  BY <1>l, <1>c, <1>e, Zenon DEF Init, TypeOK
<1>2. PhaseInv
  BY <1>l DEF Init, PhaseInv, Idle
<1>3. ShardInv /\ NamesInv /\ KeptInv
  BY <1>e, <1>o, Zenon DEF Init, ShardInv, NamesInv, KeptInv
<1>4. CutInv /\ CutIsWhole /\ ManifestIsWitness
  BY <1>l DEF Init, CutInv, CutIsWhole, ManifestIsWitness, Safe, NoCut
<1>5. CursorInv /\ CursorNeverBreaks
  BY DEF Init, CursorInv, CursorNeverBreaks, Safe, Behind, NoCut
<1> QED
  BY <1>1, <1>2, <1>3, <1>4, <1>5, Zenon DEF IInv

(* The inductive invariant holds in every reachable state. *)
THEOREM Invariance == Spec => []IInv
<1>1. ASSUME IInv, [Next]_vars PROVE IInv'
  BY <1>1, TypeStep, PhaseStep, ShardStep, NamesStep, KeptStep, WholeStep, CutStep, CursorInvStep, Zenon
     DEF IInv
<1> QED
  BY InitInv, <1>1, PTL DEF Spec

(* Writer, files and cursor keep their types. *)
THEOREM TypeCorrect == Spec => []TypeOK
<1>1. IInv => TypeOK
  BY Zenon DEF IInv
<1> QED
  BY Invariance, <1>1, PTL

(* Whatever cut.bin a power failure leaves, all blocks it lists are on disk. *)
THEOREM WholeCorrect == Spec => []CutIsWhole
<1>1. IInv => CutIsWhole
  BY Zenon DEF IInv
<1> QED
  BY Invariance, <1>1, PTL

(* What refresh() ever showed a reader survives every power failure. *)
THEOREM ShownCorrect == Spec => []ShownSurvives
<1>1. IInv => ShownSurvives
  BY Zenon DEF IInv, CursorInv, Safe, ShownSurvives
<1> QED
  BY Invariance, <1>1, PTL

(* manifest.bin witnesses that the cut in cut.bin is final and durable. *)
THEOREM WitnessCorrect == Spec => []ManifestIsWitness
<1>1. IInv => ManifestIsWitness
  BY Zenon DEF IInv
<1> QED
  BY Invariance, <1>1, PTL

(* A cursor never fails on a cut that goes back or a file it cannot find. *)
THEOREM CursorCorrect == Spec => []CursorNeverBreaks
<1>1. IInv => CursorNeverBreaks
  BY Zenon DEF IInv
<1> QED
  BY Invariance, <1>1, PTL
-----------------------------------------------------------------------------
(* The cuts implement DurableLog. *)

(* Among the outcomes of a power failure one lists the fewest blocks.  The
   invariant replaces an induction over the outcomes. *)
LeastInv == \E c \in cutSurvivors : \A v \in cutSurvivors : c.blocks <= v.blocks

(* What CommittedBlocks chooses from a set of outcomes. *)
LEMMA LeastChosen ==
    ASSUME NEW S, S \subseteq Cut, NEW c \in S, \A v \in S : c.blocks <= v.blocks
    PROVE  (CHOOSE n \in {v.blocks : v \in S} : \A v \in S : n <= v.blocks) = c.blocks
<1> DEFINE P(n) == n \in {v.blocks : v \in S} /\ \A v \in S : n <= v.blocks
           m == CHOOSE n : P(n)
<1>1. \A v \in S : v.blocks \in Nat
  BY CutNumbers, Zenon
<1>2. P(c.blocks)
  BY Zenon
<1>3. P(m)
  BY <1>2, Zenon
<1>4. PICK v \in S : m = v.blocks
  BY <1>3, Zenon
<1>5. m <= c.blocks /\ c.blocks <= m /\ m \in Nat /\ c.blocks \in Nat
  BY <1>1, <1>3, <1>4, Zenon
<1>6. m = c.blocks
  BY <1>5
<1> QED
  BY <1>6, Zenon

(* What is committed is the length of some outcome, and no outcome's is less. *)
LEMMA CommittedFacts ==
    ASSUME IInv, LeastInv
    PROVE  /\ CommittedBlocks \in Nat
           /\ \A v \in cutSurvivors : CommittedBlocks <= v.blocks
           /\ \E c \in cutSurvivors : CommittedBlocks = c.blocks
<1>1. cutSurvivors \subseteq Cut
  BY Zenon DEF IInv, TypeOK
<1>2. PICK c \in cutSurvivors : \A v \in cutSurvivors : c.blocks <= v.blocks
  BY Zenon DEF LeastInv
<1>3. CommittedBlocks = c.blocks
  BY <1>1, <1>2, LeastChosen, Zenon DEF CommittedBlocks
<1>4. c.blocks \in Nat
  BY <1>1, CutNumbers, Zenon
<1> QED
  BY <1>2, <1>3, <1>4, Zenon

(* The committed length never goes back: a rename adds a longer outcome, a
   sync of the root directory leaves the longest, a power failure any. *)
LEMMA CommittedStep ==
    ASSUME IInv, IInv', LeastInv, [Next]_vars
    PROVE  LeastInv' /\ CommittedBlocks' \in Nat /\ CommittedBlocks <= CommittedBlocks'
<1>1. CommittedBlocks \in Nat /\ \A v \in cutSurvivors : CommittedBlocks <= v.blocks
  BY CommittedFacts, Zenon
<1>2. cutSurvivors' \subseteq Cut /\ cutSurvivors \subseteq Cut
  BY Zenon DEF IInv, TypeOK
<1>3. ASSUME NEW c \in cutSurvivors, NEW d \in cutSurvivors', d = c,
             \A v \in cutSurvivors' : d.blocks <= v.blocks
      PROVE  LeastInv' /\ CommittedBlocks' \in Nat /\ CommittedBlocks <= CommittedBlocks'
  <2>1. CommittedBlocks' = d.blocks
    BY <1>2, <1>3, LeastChosen, Zenon DEF CommittedBlocks
  <2>2. d.blocks \in Nat
    BY <1>2, CutNumbers, Zenon
  <2> QED
    BY <1>1, <1>3, <2>1, <2>2, Zenon DEF LeastInv
<1>4. PICK c \in cutSurvivors : \A v \in cutSurvivors : c.blocks <= v.blocks
  BY Zenon DEF LeastInv
<1>5. CASE cutSurvivors' = cutSurvivors
  BY <1>3, <1>4, <1>5, Zenon
<1>6. CASE cutSurvivors' = cutSurvivors \cup {NewCut}
  <2>1. c.blocks <= NewCut.blocks
    BY SurvivorFacts, Zenon DEF NewCut
  <2> HIDE DEF NewCut
  <2> QED
    BY <1>3, <1>4, <1>6, <2>1, Zenon
<1>7. ASSUME NEW b \in cutSurvivors, cutSurvivors' = {b}
      PROVE  LeastInv' /\ CommittedBlocks' \in Nat /\ CommittedBlocks <= CommittedBlocks'
  <2>1. b.blocks <= b.blocks
    BY <1>2, CutNumbers
  <2> QED
    BY <1>3, <1>7, <2>1, Zenon
<1>8. CASE WriterStep
  BY <1>5, <1>6, <1>7, <1>8, CutMoves, SurvivorFacts, Zenon
<1>9. CASE CursorStep \/ ProcessDies \/ UNCHANGED vars
  <2>1. cutSurvivors' = cutSurvivors
    BY <1>9, CursorFrame, Zenon DEF ProcessDies, vars, recorderVars, cutVars
  <2> QED
    BY <1>5, <2>1, Zenon
<1>10. CASE PowerFails
  BY <1>7, <1>10, Zenon DEF PowerFails
<1> QED
  BY <1>8, <1>9, <1>10, Zenon DEF Next

(* A cursor that is not opened again keeps its cut or moves to a longer one. *)
LEMMA SeenStep ==
    ASSUME IInv, CursorStep
    PROVE  cut.blocks <= cut'.blocks
<1>1. cut \in Cut /\ next \in Cut
  BY Zenon DEF IInv, TypeOK
<1>2. cut.blocks \in Nat /\ next.blocks \in Nat
  BY <1>1, CutNumbers, Zenon
<1>3. ASSUME NEW b, Adopt(b) PROVE cut.blocks <= cut'.blocks
  <2>1. CASE cut' = cut
    BY <1>2, <2>1
  <2>2. CASE cut' # cut
    <3>1. cut' = next /\ ~ContinuityBroken
      BY <1>3, <2>2, Zenon DEF Adopt
    <3> QED
      BY <1>2, <3>1 DEF ContinuityBroken, NoCut
  <2> QED
    BY <2>1, <2>2, Zenon
<1>4. CASE RefreshAuthority \/ RefreshApprove
  <2>1. (\E b : Adopt(b)) \/ cut' = cut
    BY <1>4, Zenon DEF RefreshAuthority, RefreshApprove, KeepCut
  <2> QED
    BY <1>2, <1>3, <2>1
<1>5. CASE RefreshRead \/ LoadRetained \/ Fetch \/ StartArchive \/ OpenArchive \/ CatchUp
  <2>1. cut' = cut
    BY <1>5, Zenon DEF RefreshRead, LoadRetained, Fetch, StartArchive, OpenArchive, OpenFile, CatchUp
  <2> QED
    BY <1>2, <2>1
<1> QED
  BY <1>4, <1>5, Zenon DEF CursorStep

(* Segments, cuts, crashes and cursors implement the abstract log: what is
   committed is never lost, and a cursor is shown committed prefixes that
   only grow until it is opened again. *)
THEOREM Refinement == Spec => ImplementsDurableLog
<1>1. Init => Log!Init /\ LeastInv
  <2> SUFFICES ASSUME Init PROVE Log!Init /\ LeastInv
    BY Zenon
  <2>1. cutSurvivors = {NoCut} /\ cut = NoCut /\ NoCut.blocks = 0
    BY Zenon DEF Init, NoCut
  <2>2. LeastInv
    BY <2>1 DEF LeastInv
  <2>3. CommittedBlocks = 0
    BY <2>1, <2>2, InitInv, CommittedFacts, Zenon
  <2> QED
    BY <2>1, <2>2, <2>3, Zenon DEF Log!Init
<1>2. IInv /\ IInv' /\ LeastInv /\ [Next]_vars
        => LeastInv' /\ [Log!Next]_<<CommittedBlocks, cut.blocks>>
  <2> SUFFICES ASSUME IInv, IInv', LeastInv, [Next]_vars
               PROVE  LeastInv' /\ [Log!Next]_<<CommittedBlocks, cut.blocks>>
    BY Zenon
  <2>1. /\ LeastInv' /\ CommittedBlocks' \in Nat /\ CommittedBlocks <= CommittedBlocks'
        /\ CommittedBlocks \in Nat
    BY CommittedStep, CommittedFacts, Zenon
  <2>2. cut.blocks \in Nat /\ cut'.blocks \in Nat
    <3>1. cut \in Cut /\ cut' \in Cut
      BY Zenon DEF IInv, TypeOK
    <3> QED
      BY <3>1, CutNumbers, Zenon
  <2>3. CASE WriterStep
    <3>1. cut' = cut
      BY <2>3, WriterFrame, Zenon DEF cursorVars
    <3>2. CommittedBlocks' = CommittedBlocks \/ CommittedBlocks' > CommittedBlocks
      BY <2>1
    <3> QED
      BY <2>1, <3>1, <3>2, Zenon DEF Log!Next, Log!Commit
  <2>4. CASE CursorStep
    <3>1. cutSurvivors' = cutSurvivors
      BY <2>4, CursorFrame, Zenon DEF recorderVars, cutVars
    <3>2. CommittedBlocks' = CommittedBlocks
      BY <3>1, Zenon DEF CommittedBlocks
    <3>3. cut'.blocks <= CommittedBlocks
      <4>1. PICK c \in cutSurvivors : CommittedBlocks = c.blocks
        BY CommittedFacts, Zenon
      <4>2. Safe(cut)'
        BY Zenon DEF IInv, CursorInv
      <4> QED
        BY <3>1, <4>1, <4>2, Zenon DEF Safe
    <3> QED
      BY <2>1, <2>2, <2>4, <3>2, <3>3, SeenStep, Zenon DEF Log!Next, Log!Read
  <2>5. CASE PowerFails
    <3>1. cut'.blocks = 0
      BY <2>5, Zenon DEF PowerFails, FreshCursor, NoCut
    <3> QED
      BY <2>1, <3>1, Zenon DEF Log!Next, Log!Reopen
  <2>6. CASE ProcessDies
    <3>1. cut' = NoCut \/ cut' = cut
      BY <2>6, Zenon DEF ProcessDies, FreshCursor, cursorVars
    <3>2. cutSurvivors' = cutSurvivors
      BY <2>6, Zenon DEF ProcessDies, cutVars
    <3>3. CommittedBlocks' = CommittedBlocks
      BY <3>2, Zenon DEF CommittedBlocks
    <3>4. NoCut.blocks = 0
      BY Zenon DEF NoCut
    <3> QED
      BY <2>1, <3>1, <3>3, <3>4, Zenon DEF Log!Next, Log!Reopen
  <2>7. CASE UNCHANGED vars
    <3>1. cut' = cut /\ cutSurvivors' = cutSurvivors
      BY <2>7, Zenon DEF vars, recorderVars, cursorVars, cutVars
    <3>2. CommittedBlocks' = CommittedBlocks
      BY <3>1, Zenon DEF CommittedBlocks
    <3> QED
      BY <2>1, <3>1, <3>2, Zenon
  <2> QED
    BY <2>3, <2>4, <2>5, <2>6, <2>7, Zenon DEF Next
<1> QED
  BY <1>1, <1>2, Invariance, PTL DEF Spec, ImplementsDurableLog, Log!Spec

=============================================================================
