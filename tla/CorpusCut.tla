----------------------------- MODULE CorpusCut -----------------------------
(***************************************************************************)
(* How rows of a live recording become durable, and how a reader in the    *)
(* same process, in another process, or after a power failure decides      *)
(* which of them it may use.                                               *)
(*                                                                         *)
(* The Recorder appends compressed blocks to segment files and from time   *)
(* to time publishes a cut: it syncs every open segment and the segments   *)
(* directory, writes and syncs cut.pending, renames it over cut.bin, syncs *)
(* the root directory, and only then acknowledges the generation.          *)
(* finalize() seals the segments, publishes a last cut and then creates    *)
(* manifest.bin.  A CorpusActiveCursor refreshes its cut from the          *)
(* acknowledged publication or from cut.bin and loads the blocks it lists. *)
(*                                                                         *)
(* The file system keeps what was synced.  A power failure resolves each   *)
(* unsynced write and each unsynced rename either way, independently; a    *)
(* failed sync persists nothing and a later successful one persists all.   *)
(***************************************************************************)
EXTENDS Naturals, Sequences

CONSTANTS
    ShardCount,       \* config.shardCount
    BlockLimit,       \* bound on blocks of one recording
    SegmentLimit,     \* bound on segment files of one recording
    GenerationLimit   \* bound on acknowledged cuts; UINT64_MAX in the code

ASSUME LimitAssumption ==
    /\ ShardCount \in Nat \ {0}
    /\ BlockLimit \in Nat
    /\ SegmentLimit \in Nat \ {0}
    /\ GenerationLimit \in Nat \ {0}

VARIABLES
    alive,               \* the Recorder process runs
    pc, call, todo,      \* the writer: step, public call, shards still to visit
    health,              \* "ok", "failed" (only finalize is left) or "ended"
    segmentOf,           \* each shard's open segment, 0 when none is open
    pendingRows,         \* shards whose open segment has rows not yet in a block
    broken,              \* shards whose segment stream is unusable
    nextSegmentNumber, blocks, cutGeneration, finalized, latest,
    name, nameDurable,   \* directory entries of the segment files
    pendingSynced,       \* cut.pending reached the disk
    cutBin, cutSurvivors,            \* cut.bin, and what a power failure may leave
    manifestBin, manifestSurvivors,  \* the same for manifest.bin
    mode,                \* how the cursor was opened
    cursorPc, next, cut, seek, feedDetached, caughtUp, failure,
    shown                \* ghost: the furthest cut a reader ever adopted

writerVars == <<pc, call, todo, health>>
segmentVars == <<segmentOf, pendingRows, broken, nextSegmentNumber>>
nameVars == <<name, nameDurable>>
cutVars == <<cutGeneration, finalized, latest, pendingSynced, cutBin, cutSurvivors>>
manifestVars == <<manifestBin, manifestSurvivors>>
cursorVars == <<mode, cursorPc, next, cut, seek, feedDetached, caughtUp, failure>>
recorderVars == <<writerVars, segmentVars, blocks, nameVars, cutVars, manifestVars>>
vars == <<alive, recorderVars, cursorVars, shown>>

Shard == 0 .. ShardCount - 1
Segment == 1 .. SegmentLimit
Kept == {"buffered", "stored", "synced", "lost"}
Block == [segment : Segment, kept : Kept]
Cut == [generation : 0 .. GenerationLimit, blocks : Nat, finalized : BOOLEAN]
Manifest == [blocks : Nat, finalized : BOOLEAN]
NoCut == [generation |-> 0, blocks |-> 0, finalized |-> FALSE]
NoManifest == [blocks |-> 0, finalized |-> FALSE]
Call == [kind : {"append", "publishCut", "finalize"}, shard : Shard, rotate : BOOLEAN]
Idle == [kind |-> "append", shard |-> 0, rotate |-> FALSE]

(* The BinaryMarketManifest that a cut carries. *)
ManifestOf(c) == [blocks |-> c.blocks, finalized |-> c.finalized]

(* A recording that start() has just opened, and a cursor not yet refreshed. *)
Init ==
    /\ alive = TRUE /\ pc = "idle" /\ call = Idle /\ todo = {} /\ health = "ok"
    /\ segmentOf = [s \in Shard |-> 0] /\ pendingRows = {} /\ broken = {}
    /\ nextSegmentNumber = 1 /\ blocks = << >>
    /\ cutGeneration = 0 /\ finalized = FALSE /\ latest = NoCut
    /\ name = [n \in Segment |-> "none"] /\ nameDurable = name
    /\ pendingSynced = FALSE /\ cutBin = NoCut /\ cutSurvivors = {NoCut}
    /\ manifestBin = NoManifest /\ manifestSurvivors = {NoManifest}
    /\ mode \in {"local", "remote", "archive"} /\ cursorPc = "idle"
    /\ next = NoCut /\ cut = NoCut /\ seek = 0
    /\ feedDetached = FALSE /\ caughtUp = FALSE /\ failure = "none"
    /\ shown = NoCut

-----------------------------------------------------------------------------
(* The segment files. *)

OpenShards == {s \in Shard : segmentOf[s] # 0}

Mark(block, kept) == [segment |-> block.segment, kept |-> kept]

(* The stream buffer of a segment's file reaches the page cache. *)
StreamFlushed(list, n) ==
    [i \in DOMAIN list |-> IF list[i].segment = n /\ list[i].kept = "buffered"
                           THEN Mark(list[i], "stored") ELSE list[i]]

(* syncCorpusFile() of a segment reached only the directory entry. *)
FileSyncedNothing(list, n) == list

(* syncCorpusFile() of a segment's file. *)
FileSynced(list, n) ==
    [i \in DOMAIN list |-> IF list[i].segment = n /\ list[i].kept = "stored"
                           THEN Mark(list[i], "synced") ELSE list[i]]

(* flushBlock(): the pending rows of a shard become one block of its file. *)
FlushedBlock(s) ==
    IF s \in pendingRows
    THEN Append(blocks, [segment |-> segmentOf[s], kept |-> "buffered"])
    ELSE blocks

(* The call returns a failure; a failed finalize() is not called again. *)
Fail ==
    /\ pc' = "idle" /\ call' = Idle /\ todo' = {}
    /\ health' = IF call.kind = "finalize" THEN "ended" ELSE "failed"

Goto(step) == pc' = step /\ UNCHANGED <<call, health>>

First(s) == s \in todo /\ \A other \in todo : s <= other

(***************************************************************************)
(* append(): closes the blocks that are full, hold another channel, or     *)
(* have to be flushed to make room under the byte quota, rotates the       *)
(* segment when it is long enough, and puts the row in the pending block.  *)
(***************************************************************************)
AppendCall(s, flushes, rotate) ==
    /\ alive /\ pc = "idle" /\ health = "ok"
    /\ Len(blocks) + ShardCount < BlockLimit
    /\ segmentOf[s] = 0 \/ rotate => nextSegmentNumber < SegmentLimit
    /\ s \in pendingRows => s \in flushes \/ rotate
    /\ rotate => segmentOf[s] # 0
    /\ call' = [kind |-> "append", shard |-> s, rotate |-> rotate]
    /\ todo' = flushes /\ pc' = "flush" /\ health' = health
    /\ UNCHANGED <<alive, segmentVars, blocks, nameVars, cutVars, manifestVars,
                   cursorVars, shown>>

AppendFlush(s) ==
    /\ alive /\ pc = "flush" /\ First(s)
    /\ \/ /\ blocks' = FlushedBlock(s) /\ pendingRows' = pendingRows \ {s}
          /\ todo' = todo \ {s} /\ broken' = broken /\ Goto("flush")
       \/ Fail /\ broken' = broken \cup {s} /\ UNCHANGED <<blocks, pendingRows>>
    /\ UNCHANGED <<alive, segmentOf, nextSegmentNumber, nameVars, cutVars,
                   manifestVars, cursorVars, shown>>

AppendRotate ==
    /\ alive /\ pc = "flush" /\ todo = {} /\ call.rotate
    /\ todo' = {call.shard} /\ Goto("seal")
    /\ UNCHANGED <<alive, segmentVars, blocks, nameVars, cutVars, manifestVars,
                   cursorVars, shown>>

(* openSegment() when none is open, then the row joins the pending block. *)
AppendRow ==
    LET s == call.shard IN
    /\ alive /\ call.kind = "append"
    /\ \/ pc = "row"
       \/ pc = "flush" /\ todo = {} /\ ~call.rotate
    /\ \/ /\ pendingRows' = pendingRows \cup {s}
          /\ IF segmentOf[s] # 0
             THEN UNCHANGED <<segmentOf, nextSegmentNumber, name>>
             ELSE /\ segmentOf' = [segmentOf EXCEPT ![s] = nextSegmentNumber]
                  /\ nextSegmentNumber' = nextSegmentNumber + 1
                  /\ name' = [name EXCEPT ![nextSegmentNumber] = "partial"]
          /\ pc' = "idle" /\ call' = Idle /\ UNCHANGED <<todo, health>>
       \/ /\ segmentOf[s] = 0 /\ Fail
          /\ UNCHANGED <<pendingRows, segmentOf, nextSegmentNumber, name>>
    /\ UNCHANGED <<alive, broken, blocks, nameDurable, cutVars, manifestVars,
                   cursorVars, shown>>

-----------------------------------------------------------------------------
(* sealSegment(): last block, header and footer, close, sync, rename. *)

SealWrite(s) ==
    /\ alive /\ pc = "seal" /\ First(s)
    /\ \/ /\ s \notin broken
          /\ blocks' = StreamFlushed(FlushedBlock(s), segmentOf[s])
          /\ pendingRows' = pendingRows \ {s}
          /\ UNCHANGED <<todo, broken>> /\ Goto("seal_sync")
       \/ Fail /\ broken' = broken \cup {s} /\ UNCHANGED <<blocks, pendingRows>>
    /\ UNCHANGED <<alive, segmentOf, nextSegmentNumber, nameVars, cutVars,
                   manifestVars, cursorVars, shown>>

SealSync(s) ==
    /\ alive /\ pc = "seal_sync" /\ First(s)
    /\ \/ /\ blocks' = FileSynced(blocks, segmentOf[s])
          /\ UNCHANGED <<todo, broken>> /\ Goto("seal_rename")
       \/ Fail /\ broken' = broken \cup {s} /\ blocks' = blocks
    /\ UNCHANGED <<alive, segmentOf, pendingRows, nextSegmentNumber, nameVars,
                   cutVars, manifestVars, cursorVars, shown>>

SealRename(s) ==
    /\ alive /\ pc = "seal_rename" /\ First(s)
    /\ \/ /\ name' = [name EXCEPT ![segmentOf[s]] = "cxm"]
          /\ segmentOf' = [segmentOf EXCEPT ![s] = 0]
          /\ todo' = todo \ {s} /\ broken' = broken
          /\ Goto(IF call.kind = "append" THEN "row" ELSE "seal")
       \/ Fail /\ broken' = broken \cup {s} /\ UNCHANGED <<name, segmentOf>>
    /\ UNCHANGED <<alive, pendingRows, nextSegmentNumber, blocks, nameDurable,
                   cutVars, manifestVars, cursorVars, shown>>

-----------------------------------------------------------------------------
(* publishCut() and writeCorpusCut(). *)

(* The cut object publishCut() builds. *)
NewCut == [generation |-> cutGeneration + 1, blocks |-> Len(blocks),
           finalized |-> finalized]

PublishCut ==
    /\ alive /\ pc = "idle" /\ health = "ok"
    /\ cutGeneration < GenerationLimit - 1
    /\ call' = [kind |-> "publishCut", shard |-> 0, rotate |-> FALSE]
    /\ todo' = OpenShards /\ pc' = "cut" /\ health' = health
    /\ UNCHANGED <<alive, segmentVars, blocks, nameVars, cutVars, manifestVars,
                   cursorVars, shown>>

(* One open segment: flushBlock(), stream flush, sync of the partial file. *)
CutSegment(s) ==
    LET written == StreamFlushed(FlushedBlock(s), segmentOf[s]) IN
    /\ alive /\ pc = "cut" /\ First(s)
    /\ \/ /\ s \notin broken /\ blocks' = FileSynced(written, segmentOf[s])
          /\ pendingRows' = pendingRows \ {s} /\ todo' = todo \ {s}
          /\ broken' = broken /\ Goto("cut")
       \/ Fail /\ broken' = broken \cup {s} /\ UNCHANGED <<blocks, pendingRows>>
       \/ /\ s \notin broken /\ Fail /\ blocks' = written
          /\ pendingRows' = pendingRows \ {s} /\ broken' = broken
    /\ UNCHANGED <<alive, segmentOf, nextSegmentNumber, nameVars, cutVars,
                   manifestVars, cursorVars, shown>>

(* The reservation test, the reference binder, then the segments directory. *)
CutDirectory ==
    /\ alive /\ pc = "cut" /\ todo = {}
    /\ \/ nameDurable' = name /\ todo' = todo /\ Goto("cut_pending")
       \/ Fail /\ nameDurable' = nameDurable
    /\ UNCHANGED <<alive, segmentVars, blocks, name, cutVars, manifestVars,
                   cursorVars, shown>>

(* cut.pending is renamed without having been synced. *)
CutPendingUnsynced ==
    /\ alive /\ pc = "cut_pending"
    /\ pendingSynced' = FALSE
    /\ todo' = todo /\ Goto("cut_rename")
    /\ UNCHANGED <<alive, segmentVars, blocks, nameVars, cutGeneration, finalized,
                   latest, cutBin, cutSurvivors, manifestVars, cursorVars, shown>>

(* cut.pending is written, closed and synced. *)
CutPending ==
    /\ alive /\ pc = "cut_pending"
    /\ \/ pendingSynced' = TRUE /\ todo' = todo /\ Goto("cut_rename")
       \/ pendingSynced' = FALSE /\ Fail
    /\ UNCHANGED <<alive, segmentVars, blocks, nameVars, cutGeneration, finalized,
                   latest, cutBin, cutSurvivors, manifestVars, cursorVars, shown>>

(* The rename shows the new cut at once and may be lost until the next sync
   of the root directory; an unsynced file may come back empty. *)
CutRename ==
    /\ alive /\ pc = "cut_rename"
    /\ \/ /\ cutBin' = NewCut
          /\ cutSurvivors' = cutSurvivors \cup {NewCut} \cup
                             (IF pendingSynced THEN {} ELSE {NoCut})
          /\ todo' = todo /\ Goto("cut_root")
       \/ Fail /\ UNCHANGED <<cutBin, cutSurvivors>>
    /\ UNCHANGED <<alive, segmentVars, blocks, nameVars, cutGeneration, finalized,
                   latest, pendingSynced, manifestVars, cursorVars, shown>>

(* syncCorpusFile() of the root directory: every rename in it survives. *)
RootSynced ==
    /\ cutSurvivors' = {cutBin}
    /\ manifestSurvivors' = {manifestBin}

(* The acknowledgement precedes the sync of the root directory. *)
CutRootUnsynced ==
    /\ alive /\ pc = "cut_root"
    /\ UNCHANGED <<cutSurvivors, manifestSurvivors, health>>
    /\ cutGeneration' = cutGeneration + 1 /\ latest' = NewCut
    /\ IF call.kind = "finalize"
       THEN pc' = "manifest" /\ UNCHANGED <<call, todo>>
       ELSE pc' = "idle" /\ call' = Idle /\ todo' = {}
    /\ UNCHANGED <<alive, segmentVars, blocks, nameVars, finalized, pendingSynced,
                   cutBin, manifestBin, cursorVars, shown>>

(* Both publishCut() and its caller count the generation. *)
CutRootTwice ==
    /\ alive /\ pc = "cut_root"
    /\ RootSynced
    /\ cutGeneration' = cutGeneration + 2 /\ latest' = NewCut /\ health' = health
    /\ IF call.kind = "finalize"
       THEN pc' = "manifest" /\ UNCHANGED <<call, todo>>
       ELSE pc' = "idle" /\ call' = Idle /\ todo' = {}
    /\ UNCHANGED <<alive, segmentVars, blocks, nameVars, finalized, pendingSynced,
                   cutBin, manifestBin, cursorVars, shown>>

(* The root directory is synced and the generation acknowledged. *)
CutRoot ==
    /\ alive /\ pc = "cut_root"
    /\ \/ /\ RootSynced
          /\ cutGeneration' = cutGeneration + 1 /\ latest' = NewCut
          /\ health' = health
          /\ IF call.kind = "finalize"
             THEN pc' = "manifest" /\ UNCHANGED <<call, todo>>
             ELSE pc' = "idle" /\ call' = Idle /\ todo' = {}
       \/ Fail /\ UNCHANGED <<cutGeneration, latest, cutSurvivors, manifestSurvivors>>
    /\ UNCHANGED <<alive, segmentVars, blocks, nameVars, finalized, pendingSynced,
                   cutBin, manifestBin, cursorVars, shown>>

-----------------------------------------------------------------------------
(* finalize(). *)

(* A depth transaction left open refuses the call before anything is done. *)
Finalize ==
    /\ alive /\ pc = "idle" /\ health # "ended"
    /\ \/ /\ call' = [kind |-> "finalize", shard |-> 0, rotate |-> FALSE]
          /\ todo' = OpenShards /\ pc' = "seal" /\ health' = health
       \/ health' = "ended" /\ UNCHANGED <<pc, call, todo>>
    /\ UNCHANGED <<alive, segmentVars, blocks, nameVars, cutVars, manifestVars,
                   cursorVars, shown>>

(* sources.bin, index.bin and gaps.bin; each syncs the root directory. *)
FinalizeTables ==
    /\ alive /\ pc = "seal" /\ todo = {} /\ call.kind = "finalize"
    /\ \/ /\ RootSynced /\ finalized' = TRUE
          /\ todo' = OpenShards /\ Goto("cut")
       \/ /\ Fail /\ finalized' = finalized
          /\ RootSynced \/ UNCHANGED <<cutSurvivors, manifestSurvivors>>
    /\ UNCHANGED <<alive, segmentVars, blocks, nameVars, cutGeneration, latest,
                   pendingSynced, cutBin, manifestBin, cursorVars, shown>>

(* The manifest is written as it was before finalize() completed it. *)
ManifestRenameStale ==
    LET stale == [blocks |-> latest.blocks, finalized |-> FALSE] IN
    /\ alive /\ pc = "manifest"
    /\ manifestBin' = stale /\ manifestSurvivors' = manifestSurvivors \cup {stale}
    /\ todo' = todo /\ Goto("manifest_root")
    /\ UNCHANGED <<alive, segmentVars, blocks, nameVars, cutVars, cursorVars, shown>>

(* writeManifestAtomic(): the synced temporary is renamed to manifest.bin. *)
ManifestRename ==
    /\ alive /\ pc = "manifest"
    /\ \/ /\ manifestBin' = ManifestOf(latest)
          /\ manifestSurvivors' = manifestSurvivors \cup {ManifestOf(latest)}
          /\ todo' = todo /\ Goto("manifest_root")
       \/ Fail /\ UNCHANGED manifestVars
    /\ UNCHANGED <<alive, segmentVars, blocks, nameVars, cutVars, cursorVars, shown>>

ManifestRoot ==
    /\ alive /\ pc = "manifest_root"
    /\ \/ /\ RootSynced /\ health' = "ended"
          /\ pc' = "idle" /\ call' = Idle /\ todo' = {}
       \/ Fail /\ UNCHANGED <<cutSurvivors, manifestSurvivors>>
    /\ UNCHANGED <<alive, segmentVars, blocks, nameVars, cutGeneration, finalized,
                   latest, pendingSynced, cutBin, manifestBin, cursorVars, shown>>

-----------------------------------------------------------------------------
(* CorpusActiveCursor::refresh(). *)

(* The acknowledged cut of the same process, else what cut.bin holds now. *)
RefreshRead ==
    LET acknowledged == mode = "local" /\ alive /\ latest # NoCut IN
    /\ cursorPc = "idle" /\ failure = "none"
    /\ acknowledged \/ cutBin # NoCut
    /\ next' = IF acknowledged THEN latest ELSE cutBin
    /\ cursorPc' = IF acknowledged THEN "acknowledged" ELSE "visible"
    /\ UNCHANGED <<alive, recorderVars, mode, cut, seek, feedDetached, caughtUp,
                   failure, shown>>

(* finalizedCutIsDurable(): manifest.bin witnesses this very cut. *)
FinalizedCutIsDurable(c) == c.finalized /\ manifestBin = ManifestOf(c)

(* The new cut must extend the one the cursor already serves.  The code also
   compares epoch, safe time, replay anchor and the bytes of the common blocks,
   which cuts of one recorder cannot change. *)
ContinuityBroken ==
    /\ cut # NoCut
    /\ next.generation < cut.generation \/ next.blocks < cut.blocks

Furthest(a, b) == IF a.blocks > b.blocks \/ a.finalized THEN a ELSE b

(* The tail of refresh() once the cut has an authority. *)
Adopt(archived) ==
    /\ cursorPc' = "idle"
    /\ IF ContinuityBroken
       THEN /\ failure' = "continuity"
            /\ feedDetached' = (feedDetached \/ archived)
            /\ UNCHANGED <<cut, caughtUp, shown>>
       ELSE LET resume == ~archived /\ caughtUp /\ cut # NoCut
                          /\ next.generation > cut.generation
            IN  /\ cut' = next /\ failure' = failure
                /\ feedDetached' = (archived \/ (feedDetached /\ ~resume))
                /\ caughtUp' = (caughtUp /\ ~resume)
                /\ shown' = Furthest(shown, next)
    /\ UNCHANGED <<alive, recorderVars, mode, next, seek>>

(* The cursor keeps the cut it has. *)
KeepCut ==
    /\ cursorPc' = "idle"
    /\ UNCHANGED <<alive, recorderVars, mode, next, cut, seek, feedDetached,
                   caughtUp, failure, shown>>

(* Nobody is asked whether the visible cut was acknowledged. *)
RefreshAuthorityUnasked ==
    /\ cursorPc \in {"acknowledged", "visible"}
    /\ Adopt(FinalizedCutIsDurable(next))

RefreshAuthority ==
    /\ cursorPc \in {"acknowledged", "visible"}
    /\ IF cursorPc = "acknowledged" \/ FinalizedCutIsDurable(next)
       THEN Adopt(FinalizedCutIsDurable(next))
       ELSE IF mode = "remote"
            THEN /\ cursorPc' = "approve"
                 /\ UNCHANGED <<alive, recorderVars, mode, next, cut, seek,
                                feedDetached, caughtUp, failure, shown>>
            ELSE KeepCut

(* approvedGeneration(): a running Recorder answers with a generation it has
   acknowledged, possibly not the last one; a stopped one does not answer. *)
RefreshApprove ==
    /\ cursorPc = "approve"
    /\ \/ \E approved \in 0 .. latest.generation :
             /\ alive
             /\ IF next.generation > approved THEN KeepCut ELSE Adopt(FALSE)
       \/ ~alive /\ KeepCut

-----------------------------------------------------------------------------
(* CorpusActiveCursor::next(): the next listed block is loaded from the
   retained blocks of the process, from the Recorder's feed, or from the
   segment file.  Rows and their order are left out here. *)

Loaded ==
    /\ seek' = seek + 1 /\ cursorPc' = "idle" /\ failure' = failure

Wanted == blocks[seek + 1]

LoadRetained ==
    /\ cursorPc = "idle" /\ failure = "none" /\ seek < cut.blocks
    /\ mode = "local" /\ alive
    /\ Loaded
    /\ UNCHANGED <<alive, recorderVars, mode, next, cut, feedDetached, caughtUp, shown>>

(* source.fetch(): a block, "not available" (the feed is left), or an error. *)
Fetch ==
    /\ cursorPc = "idle" /\ failure = "none" /\ seek < cut.blocks
    /\ mode = "remote" /\ ~feedDetached
    /\ \/ alive /\ Loaded /\ feedDetached' = feedDetached
       \/ /\ alive /\ feedDetached' = TRUE /\ cursorPc' = "open_sealed"
          /\ UNCHANGED <<seek, failure>>
       \/ ~alive /\ failure' = "fetch" /\ UNCHANGED <<seek, cursorPc, feedDetached>>
    /\ UNCHANGED <<alive, recorderVars, mode, next, cut, caughtUp, shown>>

StartArchive ==
    /\ cursorPc = "idle" /\ failure = "none" /\ seek < cut.blocks
    /\ mode = "remote" => feedDetached
    /\ cursorPc' = "open_sealed"
    /\ UNCHANGED <<alive, recorderVars, mode, next, cut, seek, feedDetached,
                   caughtUp, failure, shown>>

(* One attempt to open the segment file and read the block from it. *)
OpenFile(step, suffix, otherwise) ==
    /\ cursorPc = step
    /\ IF name[Wanted.segment] = suffix
       THEN IF Wanted.kept \in {"stored", "synced"} THEN Loaded
            ELSE failure' = "archive" /\ cursorPc' = "idle" /\ seek' = seek
       ELSE /\ cursorPc' = otherwise /\ seek' = seek
            /\ failure' = IF otherwise = "idle" THEN "archive" ELSE failure
    /\ UNCHANGED <<alive, recorderVars, mode, next, cut, feedDetached, caughtUp, shown>>

(* The sealed name is not tried a second time. *)
OpenArchiveOnce ==
    \/ OpenFile("open_sealed", "cxm", "open_partial")
    \/ OpenFile("open_partial", "partial", "idle")

(* The sealed name, the partial name, and the sealed name once more. *)
OpenArchive ==
    \/ OpenFile("open_sealed", "cxm", "open_partial")
    \/ OpenFile("open_partial", "partial", "reopen_sealed")
    \/ OpenFile("reopen_sealed", "cxm", "idle")

(* No row of the cut can be served: End, or WouldBlock until a later cut. *)
CatchUp ==
    /\ cursorPc = "idle" /\ failure = "none" /\ cut # NoCut /\ ~caughtUp
    /\ caughtUp' = TRUE
    /\ UNCHANGED <<alive, recorderVars, mode, cursorPc, next, cut, seek,
                   feedDetached, failure, shown>>

-----------------------------------------------------------------------------
(* The process and the machine. *)

FreshCursor ==
    /\ cursorPc' = "idle" /\ next' = NoCut /\ cut' = NoCut /\ seek' = 0
    /\ feedDetached' = FALSE /\ caughtUp' = FALSE /\ failure' = "none"

(* The Recorder exits or is killed: its stream buffers are gone, the page
   cache stays, and a cursor of the same process goes with it. *)
ProcessDies ==
    /\ alive /\ alive' = FALSE /\ pc' = "dead"
    /\ blocks' = [i \in DOMAIN blocks |->
                     IF blocks[i].kept = "buffered"
                     THEN Mark(blocks[i], "lost") ELSE blocks[i]]
    /\ IF mode = "local" THEN FreshCursor /\ mode' = "archive"
       ELSE UNCHANGED cursorVars
    /\ UNCHANGED <<call, todo, health, segmentVars, nameVars, cutVars,
                   manifestVars, shown>>

(* Directory entries between the synced one and the visible one. *)
NameSurvivors(n) ==
    CASE nameDurable[n] = name[n] -> {name[n]}
      [] nameDurable[n] = "none" /\ name[n] = "cxm" -> {"none", "partial", "cxm"}
      [] OTHER -> {nameDurable[n], name[n]}

(* A power failure.  The files are opened again by an offline reader. *)
PowerFails ==
    /\ pc # "off" /\ alive' = FALSE /\ pc' = "off"
    /\ \E surviving \in SUBSET {i \in DOMAIN blocks : blocks[i].kept \in {"buffered", "stored"}} :
          blocks' = [i \in DOMAIN blocks |->
                        IF i \in surviving \/ blocks[i].kept = "synced"
                        THEN Mark(blocks[i], "synced")
                        ELSE Mark(blocks[i], "lost")]
    /\ name' \in [Segment -> {"none", "partial", "cxm"}]
    /\ \A n \in Segment : name'[n] \in NameSurvivors(n)
    /\ nameDurable' = name'
    /\ cutBin' \in cutSurvivors /\ cutSurvivors' = {cutBin'}
    /\ manifestBin' \in manifestSurvivors /\ manifestSurvivors' = {manifestBin'}
    /\ FreshCursor /\ mode' = "archive"
    /\ UNCHANGED <<call, todo, health, segmentVars, cutGeneration, finalized,
                   latest, pendingSynced, shown>>

-----------------------------------------------------------------------------
AppendAny ==
    \E s \in Shard, rotate \in BOOLEAN :
        \/ AppendCall(s, {}, rotate)
        \/ s \in pendingRows /\ AppendCall(s, {s}, rotate)
        \/ AppendCall(s, OpenShards, rotate)

WriterStep ==
    \/ AppendAny \/ AppendRotate \/ AppendRow
    \/ PublishCut \/ CutDirectory \/ CutPending \/ CutRename \/ CutRoot
    \/ Finalize \/ FinalizeTables \/ ManifestRename \/ ManifestRoot
    \/ \E s \in Shard : \/ AppendFlush(s) \/ CutSegment(s)
                        \/ SealWrite(s) \/ SealSync(s) \/ SealRename(s)

CursorStep ==
    \/ RefreshRead \/ RefreshAuthority \/ RefreshApprove
    \/ LoadRetained \/ Fetch \/ StartArchive \/ OpenArchive \/ CatchUp

Next == WriterStep \/ CursorStep \/ ProcessDies \/ PowerFails

Spec == Init /\ [][Next]_vars

(* A consumer keeps polling its cursor; nothing obliges the Recorder to run. *)
FairSpec == Spec /\ WF_vars(RefreshRead) /\ WF_vars(RefreshAuthority)
                 /\ WF_vars(RefreshApprove) /\ WF_vars(OpenArchive)

-----------------------------------------------------------------------------
(* The writer, its files and the cursor keep the types of their members; the
   cut generation stays below its limit. *)
TypeOK ==
    /\ alive \in BOOLEAN /\ health \in {"ok", "failed", "ended"}
    /\ pc \in {"idle", "flush", "row", "seal", "seal_sync", "seal_rename", "cut",
               "cut_pending", "cut_rename", "cut_root", "manifest",
               "manifest_root", "dead", "off"}
    /\ call \in Call /\ todo \subseteq Shard
    /\ segmentOf \in [Shard -> 0 .. SegmentLimit]
    /\ pendingRows \subseteq Shard /\ broken \subseteq Shard
    /\ nextSegmentNumber \in 1 .. SegmentLimit /\ blocks \in Seq(Block)
    /\ cutGeneration \in 0 .. GenerationLimit /\ finalized \in BOOLEAN
    /\ name \in [Segment -> {"none", "partial", "cxm"}]
    /\ nameDurable \in [Segment -> {"none", "partial", "cxm"}]
    /\ pendingSynced \in BOOLEAN
    /\ latest \in Cut /\ cutBin \in Cut /\ cutSurvivors \subseteq Cut
    /\ manifestBin \in Manifest /\ manifestSurvivors \subseteq Manifest
    /\ next \in Cut /\ cut \in Cut /\ shown \in Cut /\ seek \in Nat
    /\ mode \in {"local", "remote", "archive"}
    /\ cursorPc \in {"idle", "acknowledged", "visible", "approve",
                     "open_sealed", "open_partial", "reopen_sealed"}
    /\ feedDetached \in BOOLEAN /\ caughtUp \in BOOLEAN
    /\ failure \in {"none", "continuity", "archive", "fetch"}

(* Whatever cut.bin a power failure leaves, every block it lists is on disk
   under a directory entry that survives: publishCut() syncs the segments and
   their directory before it writes the cut. *)
CutIsWhole ==
    \A c \in cutSurvivors : \A i \in 1 .. c.blocks :
        /\ i \in DOMAIN blocks /\ blocks[i].kept = "synced"
        /\ nameDurable[blocks[i].segment] # "none"

(* What any reader was ever shown survives a power failure: refresh() adopts
   only an acknowledged cut or one that manifest.bin witnesses, although a
   renamed cut.bin is visible before its directory is synced. *)
ShownSurvives ==
    \A c \in cutSurvivors : /\ shown.blocks <= c.blocks
                            /\ shown.finalized => c.finalized

(* manifest.bin exists only for the cut that cut.bin holds for good, which is
   what finalizedCutIsDurable() concludes from it. *)
ManifestIsWitness ==
    \A m \in manifestSurvivors \ {NoManifest} : \A c \in cutSurvivors :
        c.finalized /\ ManifestOf(c) = m

(* A cursor never meets a cut that goes back, nor a listed block it cannot
   find under either name of a segment that is being sealed. *)
CursorNeverBreaks == failure \notin {"continuity", "archive"}

(* Once the writer's finalize() has returned Ok, an open cursor adopts the
   finalized cut, unless its feed failed. *)
FinalCutIsAdopted ==
    (manifestBin # NoManifest /\ manifestSurvivors = {manifestBin})
        ~> (cut.finalized \/ failure # "none")

(* CorpusCut.hpp calls a cut "one durable Recorder commit, immutable after
   publication": a reader that sees a generation again sees the same cut. *)
OneCutPerGeneration ==
    [][cut # NoCut /\ cut'.generation = cut.generation => cut' = cut]_cut

(* The blocks that every outcome of a power failure keeps listed. *)
CommittedBlocks ==
    CHOOSE n \in {c.blocks : c \in cutSurvivors} : \A c \in cutSurvivors : n <= c.blocks

Log == INSTANCE DurableLog WITH committed <- CommittedBlocks, seen <- cut.blocks

(* Cuts and cursor implement a log that readers see only committed prefixes
   of, and that never loses a committed entry. *)
ImplementsDurableLog == Log!Spec
=============================================================================
