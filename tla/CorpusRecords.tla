---- MODULE CorpusRecords ----
(***************************************************************************)
(* Two machines: the conversion of one record (Init, Next), and the depth  *)
(* transaction that frames the records (TxnInit, TxnNext).                 *)
(*                                                                         *)
(* The conversion of parser capture records into corpus records            *)
(* (CorpusConversion.cpp).  A record the converter lets through is judged  *)
(* again by the corpus format, by the transaction automaton and by the     *)
(* source state; those rules are written a second time in other files, and *)
(* a record one side accepts and the other refuses stops the capture.      *)
(*                                                                         *)
(* Each behaviour converts one input: the header and state of a depth      *)
(* chunk, the arithmetic of its parts, a membership change against the     *)
(* source state it meets, or an instrument quantity rescaled by a power of *)
(* ten.                                                                    *)
(***************************************************************************)
EXTENDS Integers, FiniteSets, Sequences, SequencesExt

CONSTANTS
  LevelsPerRecord,  \* kMarketCaptureDepthLevelsPerRecord
  MaxLevels,        \* bound: levels of one depth frame
  MarketChannels, Depth,  \* market channels of a source
  MaxGeneration,    \* bound
  MaxValue,         \* largest int64 value, scaled down
  MaxPower          \* bound: powers of ten

VARIABLES
  input,    \* what the parser handed over
  verdict   \* whether the converter lets it through

vars == <<input, verdict>>

-----------------------------------------------------------------------------
(* Depth chunk: header flags against the native state.                     *)

DepthFlags == {"compatible", "snapshot", "delta", "state", "partial", "rebase", "position", "coverage"}

DepthStates == {"empty", "partial", "rebase", "healthy", "gap"}

\* "receive" and "fresh" are the source clocks: absent, valid, out of range.
Chunks ==
  [of : {"chunk"}, flags : SUBSET DepthFlags, frame : {"snapshot", "delta", "state"},
   state : DepthStates, total : {0, 1}, failure : BOOLEAN, index : 0..1, count : 1..2,
   receive : {"absent", "valid", "huge"}, fresh : {"absent", "valid"}]

FlagsMatchFrame(c) == \A f \in {"snapshot", "delta", "state"} : (f \in c.flags) = (c.frame = f)

ConverterComposed(c) ==
  /\ c.frame = "snapshot" /\ "rebase" \notin c.flags /\ {"position", "coverage"} \subseteq c.flags
  /\ c.index = 0 /\ c.count = 1
  /\ c.state \in {"partial", "healthy", "gap"} \/ (c.state = "empty" /\ c.total = 0)

\* copyRecordPayload's rules for a native depth chunk.
ConvertsChunk(c) ==
  LET composed == ConverterComposed(c)
      rebase == c.state = "rebase"
      ready == c.state \in {"partial", "healthy", "rebase"} IN
  /\ c.index < c.count
  /\ ready \/ c.state = "gap" \/ composed
  /\ FlagsMatchFrame(c)
  /\ ("partial" \in c.flags) = (c.state = "partial")
  /\ ("compatible" \in c.flags) = (ready \/ composed)
  /\ c.total = 0 => c.frame \in {"state", "snapshot"}
  /\ c.frame = "state" => c.total = 0
  /\ ready => ~c.failure
  /\ c.state = "empty" => ~c.failure
  /\ c.state = "gap" /\ ~composed => c.failure
  /\ c.state \in {"partial", "healthy"} => c.frame \in {"delta", "snapshot"}
  /\ ("rebase" \in c.flags) = rebase
  /\ rebase => (c.frame = "snapshot") = (c.index = 0)
  /\ ~rebase => c.count = 1
  /\ c.frame = "state" =>
       /\ c.state = "gap" /\ {"compatible", "partial", "rebase"} \cap c.flags = {}
       /\ c.receive = "absent"
  /\ c.frame # "state" => (composed \/ (c.receive # "absent" /\ c.fresh = "valid")) /\ c.receive # "huge"

\* binaryMarketDepthRecordIsComposedCut.
FormatComposed(c) ==
  /\ {"snapshot", "position", "coverage"} \subseteq c.flags
  /\ {"delta", "state", "rebase"} \cap c.flags = {}
  /\ c.frame = "snapshot" /\ c.index = 0 /\ c.count = 1
  /\ c.state \in {"healthy", "partial", "gap"} \/ (c.state = "empty" /\ c.total = 0)

\* validBinaryMarketDepthNativeState.
FormatAccepts(c) ==
  LET composed == FormatComposed(c)
      rebase == c.state = "rebase"
      ready == c.state \in {"partial", "healthy", "rebase"} IN
  /\ ready \/ c.state = "gap" \/ composed
  /\ FlagsMatchFrame(c)
  /\ ("partial" \in c.flags) = (c.state = "partial")
  /\ ("rebase" \in c.flags) = rebase
  /\ ("compatible" \in c.flags) = (ready \/ composed)
  /\ c.total = 0 => c.frame \in {"state", "snapshot"}
  /\ c.frame = "state" => c.total = 0
  /\ ready => ~c.failure
  /\ c.state = "gap" /\ ~c.failure => composed
  /\ c.state = "empty" => ~c.failure
  /\ c.state \in {"partial", "healthy"} => c.frame \in {"delta", "snapshot"}
  /\ rebase => (c.frame = "snapshot") = (c.index = 0)
  /\ ~rebase => c.count = 1
  /\ c.frame = "state" =>
       c.state = "gap" /\ {"compatible", "partial", "rebase"} \cap c.flags = {} /\ c.receive = "absent"
  /\ c.frame # "state" => (composed \/ (c.receive # "absent" /\ c.fresh = "valid")) /\ c.receive # "huge"

-----------------------------------------------------------------------------
(* Depth chunk: the arithmetic of its parts.                               *)

CeilDiv(n, d) == (n + d - 1) \div d

Parts ==
  [of : {"part"}, total : 0..MaxLevels, part : 0..MaxLevels, parts : 0..MaxLevels,
   offset : 0..MaxLevels, count : 0..LevelsPerRecord + 1]

\* copyRecordPayload's rules for the part numbers of a chunk.
ConvertsPart(p) ==
  /\ p.parts # 0 /\ p.parts = (IF p.total = 0 THEN 1 ELSE CeilDiv(p.total, LevelsPerRecord))
  /\ p.part < p.parts /\ p.count <= LevelsPerRecord
  /\ p.offset = p.part * LevelsPerRecord
  /\ p.offset <= p.total /\ p.count <= p.total - p.offset
  /\ (p.total = 0) = (p.count = 0)
  /\ p.total = 0 => p.offset = 0 /\ p.parts = 1
  /\ IF p.part + 1 = p.parts THEN p.offset + p.count = p.total ELSE p.count = LevelsPerRecord

\* The same numbers as advanceBinaryMarketDepthTransaction checks them.
AutomatonAcceptsPart(p) ==
  /\ p.parts # 0 /\ p.part < p.parts
  /\ p.offset = p.part * LevelsPerRecord
  /\ p.offset <= p.total /\ p.count <= LevelsPerRecord
  /\ p.count = (IF p.total - p.offset < LevelsPerRecord THEN p.total - p.offset ELSE LevelsPerRecord)
  /\ p.parts = CeilDiv(p.total, LevelsPerRecord) + (IF p.total = 0 THEN 1 ELSE 0)

-----------------------------------------------------------------------------
(* Membership change.                                                      *)

\* A change the parser announces of a source it and the corpus agree on: it
\* adds or removes one channel, or repeats the directory row; a removal keeps
\* the generation, and the generation of a source never seen is 0.
Changes ==
  {m \in [of : {"change"}, previous : 0..MaxGeneration, gen : 1..MaxGeneration,
          before : SUBSET MarketChannels, after : SUBSET MarketChannels, action : {"add", "remove"}] :
     /\ m.gen >= m.previous
     /\ m.previous = 0 => m.before = {} /\ m.action = "add" /\ m.after # {}
     /\ \/ m.before = m.after
        \/ m.action = "add" /\ \E c \in MarketChannels \ m.before : m.after = m.before \cup {c}
        \/ m.action = "remove" /\ m.gen = m.previous /\ \E c \in m.before : m.after = m.before \ {c}}

\* The lifecycle kind the converter derives.
KindOf(m) ==
  IF m.previous # 0 /\ m.before = m.after THEN "changed"
  ELSE IF m.action = "remove" THEN "removed"
  ELSE IF m.previous = 0 THEN "added" ELSE "readded"

\* The source state that meets the change, and the record it is handed.
Corpus == INSTANCE SourceState WITH
  Rules <- {"same"}, MaxRevision <- 1, MaxRecords <- 1, source <- input, log <- <<>>

Met(m) ==
  [gen |-> m.previous, available |-> m.before, exact |-> {}, rules |-> "same", revision |-> 0,
   unhealthy |-> {}, administrative |-> {}, recovering |-> {}]

Lifecycle(m) ==
  [kind |-> "transition", what |-> KindOf(m), previous |-> m.previous, gen |-> m.gen,
   revision |-> 1, before |-> m.before, after |-> m.after, exact |-> {}, rules |-> "same"]

-----------------------------------------------------------------------------
(* Instrument quantities.                                                  *)

Quantities == [of : {"quantity"}, value : 0..MaxValue, power : -MaxPower..MaxPower]

\* scaleExact, one factor of ten at a time; -1 stands for its refusal.
ScaleExact[v \in Int, p \in Int] ==
  IF p = 0 THEN v
  ELSE IF p > 0 THEN (IF v > MaxValue \div 10 THEN -1 ELSE ScaleExact[v * 10, p - 1])
  ELSE IF v % 10 # 0 THEN -1 ELSE ScaleExact[v \div 10, p + 1]

Scale(q) == ScaleExact[q.value, q.power]

-----------------------------------------------------------------------------

Init ==
  /\ input \in Chunks \cup Parts \cup Changes \cup Quantities
  /\ verdict = FALSE

Convert ==
  /\ verdict = FALSE
  /\ CASE input.of = "chunk" -> ConvertsChunk(input)
       [] input.of = "part" -> ConvertsPart(input)
       [] input.of = "change" -> TRUE
       [] input.of = "quantity" -> Scale(input) >= 0
  /\ verdict' = TRUE
  /\ UNCHANGED input

Next == Convert

Spec == Init /\ [][Next]_vars

-----------------------------------------------------------------------------

\* Every depth chunk the converter lets through is one the corpus format
\* stores, and every chunk the format could store of a frame inside its
\* transaction is let through: the two rule sets never disagree about a row.
ChunkRulesAgree ==
  input.of = "chunk" => (ConvertsChunk(input) <=> FormatAccepts(input) /\ input.index < input.count)

\* The converter and the transaction automaton agree on the part numbers of a
\* chunk, at the last part and for an empty book included.
PartRulesAgree ==
  input.of = "part" => (ConvertsPart(input) <=> AutomatonAcceptsPart(input))

\* A change the parser announces is one the source state follows: the kind
\* derived from the masks is the one the state accepts for them.
ChangesAccepted ==
  input.of = "change" => Corpus!AcceptsTransition(Met(input), Lifecycle(input))

\* A quantity is rescaled exactly or refused, never truncated and never
\* wrapped past the largest value.
ScalesExactly ==
  input.of = "quantity" =>
    LET up == input.value * 10 ^ (IF input.power > 0 THEN input.power ELSE 0)
        down == 10 ^ (IF input.power < 0 THEN -input.power ELSE 0) IN
    IF up <= MaxValue /\ up % down = 0 THEN Scale(input) = up \div down ELSE Scale(input) = -1

-----------------------------------------------------------------------------
(***************************************************************************)
(* The framing of one depth transaction in the binary corpus, as writers   *)
(* and readers follow it record by record (BinaryMarketDepthTransaction).  *)
(* A transaction is one producer frame cut into records: one or more       *)
(* native parts, each split into chunks of at most LevelsPerRecord levels, *)
(* then, when the frame announces it, a coverage tail split the same way.  *)
(* Every shard carries one automaton; a record it does not accept makes    *)
(* the writer refuse the row and the reader refuse the corpus.             *)
(*                                                                         *)
(* The reference is Framed(f), the whole framing of a frame f.  The module *)
(* checks that the automaton accepts, in every state, exactly the records  *)
(* that continue some whole framing.                                       *)
(***************************************************************************)

CONSTANTS
  Frames,           \* frameSequence with the arrival clocks of a frame
  Owners,           \* source id, generation and session epoch
  Events,           \* event sequence, flags and native metadata of one part
  TxnMaxLevels,        \* bound: levels of one native part
  MaxNatives,       \* kMaximumDepthTransactionParts
  CoveragePerRecord,
  MaxCoverage       \* bound: feeds in a coverage tail

VARIABLES
  st,       \* BinaryMarketDepthTransactionState
  taken     \* the records accepted since the automaton last became active

txnVars == <<st, taken>>

-----------------------------------------------------------------------------
(* Records.                                                                *)

ChunkParts(levels) == IF levels = 0 THEN 1 ELSE CeilDiv(levels, LevelsPerRecord)

Fit(total, part, size) ==
  LET left == total - part * size IN IF left < size THEN left ELSE size

\* A native chunk record: the header fields and payload fields the framing reads.
Natives ==
  [kind : {"native"}, frame : Frames, owner : Owners, event : Events,
   cov : BOOLEAN, end : BOOLEAN,
   natives : 1..MaxNatives, native : 0..MaxNatives - 1,
   total : 0..TxnMaxLevels, part : 0..CeilDiv(TxnMaxLevels, LevelsPerRecord) - 1,
   parts : 1..CeilDiv(TxnMaxLevels, LevelsPerRecord), count : 0..LevelsPerRecord]

\* A coverage record; the record validation already ties its own fields together.
Coverages ==
  {r \in [kind : {"coverage"}, frame : Frames, owner : Owners, event : Events,
          cov : {TRUE}, end : BOOLEAN, natives : 1..MaxNatives,
          total : 1..MaxCoverage, part : 0..CeilDiv(MaxCoverage, CoveragePerRecord) - 1,
          parts : 1..CeilDiv(MaxCoverage, CoveragePerRecord)] :
     /\ r.parts = CeilDiv(r.total, CoveragePerRecord)
     /\ r.part < r.parts
     /\ r.end = (r.part + 1 = r.parts)}

\* A record of any other channel.
Other == [kind |-> "other"]

Records == Natives \cup Coverages \cup {Other}

-----------------------------------------------------------------------------
(* The automaton.                                                          *)

Idle == [active |-> FALSE]

Active(s) == s.active

Opened(r) ==
  [active |-> TRUE, frame |-> r.frame, owner |-> r.owner, natives |-> r.natives,
   cov |-> r.cov, nextNative |-> 0, nextChunk |-> 0, chunkTotal |-> 0, chunkParts |-> 0,
   event |-> r.event, awaiting |-> FALSE, nextCoverage |-> 0, covTotal |-> 0, covParts |-> 0]

SameFrame(s, r) == r.frame = s.frame /\ r.cov = s.cov /\ r.owner = s.owner

AcceptsCoverage(s, r) ==
  /\ s.awaiting
  /\ r.natives = s.natives /\ r.part = s.nextCoverage /\ r.event = s.event
  /\ s.nextCoverage = 0 \/ (r.total = s.covTotal /\ r.parts = s.covParts)
  /\ s.nextCoverage + 1 = r.parts => r.end

AfterCoverage(s, r) ==
  IF s.nextCoverage + 1 = r.parts THEN Idle
  ELSE [s EXCEPT !.nextCoverage = @ + 1, !.covTotal = r.total, !.covParts = r.parts]

AcceptsNative(s, r) ==
  /\ ~s.awaiting
  /\ r.natives = s.natives /\ r.native = s.nextNative
  /\ r.part = s.nextChunk /\ r.part < r.parts
  /\ r.part * LevelsPerRecord <= r.total
  /\ r.count = Fit(r.total, r.part, LevelsPerRecord)
  /\ r.parts = ChunkParts(r.total)
  /\ s.nextChunk = 0 \/ (r.event = s.event /\ r.total = s.chunkTotal /\ r.parts = s.chunkParts)
  /\ r.end = (~r.cov /\ r.part + 1 = r.parts /\ r.native + 1 = r.natives)

AfterNative(s, r) ==
  IF s.nextChunk + 1 < r.parts
    THEN [s EXCEPT !.nextChunk = @ + 1, !.chunkTotal = r.total, !.chunkParts = r.parts, !.event = r.event]
  ELSE IF s.nextNative + 1 < s.natives
    THEN [s EXCEPT !.nextChunk = 0, !.nextNative = @ + 1, !.event = r.event]
  ELSE IF s.cov THEN [s EXCEPT !.nextChunk = 0, !.awaiting = TRUE, !.event = r.event]
  ELSE Idle

\* The state a record is judged in: a first native record opens a transaction.
Entered(s, r) == IF Active(s) THEN s ELSE Opened(r)

\* advanceBinaryMarketDepthTransaction's verdict on one valid record.
Accepts(s, r) ==
  IF r.kind = "other" THEN ~Active(s)
  ELSE /\ ~Active(s) => r.kind = "native"
       /\ SameFrame(Entered(s, r), r)
       /\ IF r.kind = "coverage" THEN AcceptsCoverage(s, r) ELSE AcceptsNative(Entered(s, r), r)

Advanced(s, r) ==
  IF r.kind = "other" THEN s
  ELSE IF r.kind = "coverage" THEN AfterCoverage(s, r) ELSE AfterNative(Entered(s, r), r)

-----------------------------------------------------------------------------
(* The reference: whole framings.                                          *)

\* What a producer frame holds: its native parts (levels and event of each)
\* and the feeds of its coverage tail, none when it announces no coverage.
Frame ==
  [frame : Frames, owner : Owners, tail : 0..MaxCoverage,
   body : UNION {[1..n -> [levels : 0..TxnMaxLevels, event : Events]] : n \in 1..MaxNatives}]

NativeRecord(f, n, p) ==
  [kind |-> "native", frame |-> f.frame, owner |-> f.owner, event |-> f.body[n].event,
   cov |-> f.tail > 0,
   end |-> f.tail = 0 /\ n = Len(f.body) /\ p = ChunkParts(f.body[n].levels) - 1,
   natives |-> Len(f.body), native |-> n - 1, total |-> f.body[n].levels, part |-> p,
   parts |-> ChunkParts(f.body[n].levels),
   count |-> Fit(f.body[n].levels, p, LevelsPerRecord)]

CoverageRecord(f, p) ==
  [kind |-> "coverage", frame |-> f.frame, owner |-> f.owner,
   event |-> f.body[Len(f.body)].event, cov |-> TRUE,
   end |-> p = CeilDiv(f.tail, CoveragePerRecord) - 1, natives |-> Len(f.body),
   total |-> f.tail, part |-> p, parts |-> CeilDiv(f.tail, CoveragePerRecord)]

Framed(f) ==
  FlattenSeq([n \in 1..Len(f.body) |->
                [p \in 1..ChunkParts(f.body[n].levels) |-> NativeRecord(f, n, p - 1)]])
  \o [p \in 1..CeilDiv(f.tail, CoveragePerRecord) |-> CoverageRecord(f, p - 1)]

-----------------------------------------------------------------------------

TxnInit == st = Idle /\ taken = <<>>

TxnNext ==
  \E r \in Records :
    /\ Accepts(st, r)
    /\ st' = Advanced(st, r)
    /\ taken' = IF r = Other THEN taken ELSE IF Active(st) THEN Append(taken, r) ELSE <<r>>

TxnSpec == TxnInit /\ [][TxnNext]_txnVars

-----------------------------------------------------------------------------

\* The frames whose first record is the first one taken.
Begun == {f \in Frame : NativeRecord(f, 1, 0) = Head(taken)}

\* The records that continue the accepted ones towards some whole framing.
Continuations ==
  {Framed(f)[Len(taken) + 1] : f \in {g \in Begun : IsStrictPrefix(taken, Framed(g))}}

\* In the middle of a transaction the automaton accepts a record exactly when
\* it continues a whole framing: it never strands a valid frame, and it never
\* follows a sequence that no frame can produce.
AcceptsExactly ==
  Active(st) => {r \in Records : Accepts(st, r)} = Continuations

\* The automaton is idle exactly when what it took is a whole framing, so a
\* reader that finds it idle at the end of a shard lost no part of a frame.
IdleMeansWhole ==
  taken # <<>> => (~Active(st) <=> \E f \in Begun : taken = Framed(f))

\* An idle automaton takes any first record of a frame, any other channel's
\* row, and nothing else.
StartsExactly ==
  ~Active(st) =>
    {r \in Records : Accepts(st, r)} = {NativeRecord(f, 1, 0) : f \in Frame} \cup {Other}

=============================================================================
