---- MODULE StoredSession ----
(***************************************************************************)
(* Two machines: the load of a session directory (Init, Next), and its     *)
(* manifest as a document (ManifestInit, ManifestNext).                    *)
(*                                                                         *)
(* CorpusLoader::loadDetailed: a session directory is examined artifact by *)
(* artifact in a fixed order, the first fatal fault ends the load, and the *)
(* seek index, a cache, is bound last.                                     *)
(*                                                                         *)
(* A channel is of one of three kinds: "parsed" line by line, "framed"     *)
(* (retired channels, whose rows are counted and not decoded) and "paired" *)
(* (the depth tape with its sidecar). The lines of a file are a number and a *)
(* flag saying that all of them can be read.                               *)
(***************************************************************************)
EXTENDS Naturals, Sequences, SequencesExt, FiniteSets

CONSTANTS
    Order,      \* the channels, in the order they are loaded
    Kind,       \* the kind of each
    MaxRows     \* bound: lines of one file

Channels == Range(Order)

VARIABLES
    dir,        \* the session directory, as far as the load has looked at it
    at,         \* the step of the load, from the manifest (0) over the channels on
    report,     \* LoadReport
    rows        \* rows loaded of each channel

vars == <<dir, at, report, rows>>

(***************************************************************************)
(* What a directory may hold.                                              *)
(***************************************************************************)
File == [there : BOOLEAN, readable : {TRUE}, sound : BOOLEAN, lines : 0..MaxRows]
NoFile == [there |-> FALSE, readable |-> TRUE, sound |-> TRUE, lines |-> 0]
Files == {f \in File : ~f.there => f = NoFile} \cup {[NoFile EXCEPT !.there = TRUE, !.readable = FALSE]}

\* What the manifest says of a channel and what is in its file.
Entry == [enabled : BOOLEAN, required : BOOLEAN, declared : 0..MaxRows, file : Files, side : Files]

Absent == [enabled |-> FALSE, required |-> TRUE, declared |-> 0, file |-> NoFile, side |-> NoFile]
Possible(c) == {Absent} \cup {e \in Entry : e.enabled /\ (Kind[c] # "paired" => e.side = NoFile)}

Documents == {"missing", "unreadable", "malformed", "ok"}

NoReport == [status |-> "ok", state |-> "clean", by |-> "none",
             channel |-> [c \in Channels |-> "not_captured"], index |-> "missing", buckets |-> FALSE]

Init ==
    /\ \E manifest \in Documents, finalized, accounts, loadable \in BOOLEAN :
        dir = [manifest |-> manifest, finalized |-> finalized, accounts |-> accounts, loadable |-> loadable,
               metadata |-> "ok", support |-> "ok", index |-> "missing", entries |-> [c \in Channels |-> Absent]]
    /\ at = 0 /\ report = NoReport
    /\ rows = [c \in Channels |-> 0]

Fatal(r, hint, by) == [r EXCEPT !.status = IF @ = "ok" THEN hint ELSE @, !.state = "corrupt", !.by = by]
Marked(r, c, s) == [r EXCEPT !.channel[c] = s]
Counts == Len(Order) + 1
Metadata == Len(Order) + 2
Index == Len(Order) + 3
Finished == Len(Order) + 4

(***************************************************************************)
(* The steps of the load.                                                  *)

\* The arrival summary of a finalized session must account for the declared rows; that
\* of a session still being recorded may lag behind them.
ArrivalAdmitted == dir.finalized => dir.accounts

LoadManifest ==
    /\ at = 0
    /\ IF dir.manifest # "ok" \/ ~ArrivalAdmitted
       THEN /\ report' = Fatal(report, IF dir.manifest = "unreadable" THEN "io_error" ELSE "corrupt", "manifest")
            /\ at' = Finished
       ELSE at' = at + 1 /\ UNCHANGED report
    /\ UNCHANGED <<dir, rows>>

\* loadJsonLines
ParsedChannel(c, e, r) ==
    IF ~e.enabled \/ (~e.file.there /\ ~e.required) THEN r
    ELSE IF ~e.file.there THEN Fatal(Marked(r, c, "missing"), "corrupt", c)
    ELSE IF ~e.file.readable THEN Fatal(Marked(r, c, "corrupt"), "io_error", c)
    ELSE IF ~e.file.sound THEN Fatal(Marked(r, c, "corrupt"), "corrupt", c)
    ELSE Marked(r, c, "clean")

\* countOmittedArtifact: here the declared count binds also while recording.
FramedChannel(c, e, r) ==
    IF ~e.enabled THEN r
    ELSE IF ~(e.file.there /\ e.file.readable) THEN Fatal(Marked(r, c, "missing"), "corrupt", c)
    ELSE IF ~e.file.sound \/ e.file.lines # e.declared THEN Fatal(Marked(r, c, "corrupt"), "corrupt", c)
    ELSE Marked(r, c, "clean")

\* loadDepthTapeSidecarLines
PairedChannel(c, e, r) ==
    IF ~e.enabled \/ (~e.file.there /\ ~e.side.there /\ ~e.required) THEN r
    ELSE IF ~e.file.there /\ ~e.side.there THEN Fatal(Marked(r, c, "missing"), "corrupt", c)
    ELSE IF e.file.there # e.side.there THEN Fatal(Marked(r, c, "corrupt"), "corrupt", c)
    ELSE IF ~(e.file.readable /\ e.side.readable) THEN Fatal(Marked(r, c, "corrupt"), "io_error", c)
    ELSE IF e.file.lines # e.side.lines \/ ~(e.file.sound /\ e.side.sound)
         THEN Fatal(Marked(r, c, "corrupt"), "corrupt", c)
    ELSE Marked(r, c, "clean")

LoadChannel ==
    /\ at \in 1..Len(Order)
    /\ LET c == Order[at] IN \E e \in Possible(c) :
          /\ dir' = [dir EXCEPT !.entries[c] = e]
          /\ report' = CASE Kind[c] = "parsed" -> ParsedChannel(c, e, report)
                         [] Kind[c] = "framed" -> FramedChannel(c, e, report)
                         [] Kind[c] = "paired" -> PairedChannel(c, e, report)
          /\ rows' = IF report'.channel[c] = "clean" THEN [rows EXCEPT ![c] = e.file.lines] ELSE rows
    /\ at' = IF report'.status # "ok" THEN Finished ELSE at + 1

\* requireDeclaredCount
CountMatches(c) == dir.entries[c].enabled => dir.entries[c].declared = rows[c]

CheckCounts ==
    /\ at = Counts
    /\ IF dir.finalized /\ \E c \in Channels : ~CountMatches(c)
       THEN report' = Fatal(report, "corrupt", "manifest") /\ at' = Finished
       ELSE at' = Metadata /\ UNCHANGED report
    /\ UNCHANGED <<dir, rows>>

\* The instrument metadata may be absent, not malformed; the reports of a finalized
\* session must be readable where they exist; last come the structural blockers.
CheckMetadata ==
    /\ at = Metadata
    /\ \E metadata \in Documents, support \in {"unreadable", "ok"} :
        /\ dir' = [dir EXCEPT !.metadata = metadata, !.support = support]
        /\ LET unreadable == metadata = "unreadable" \/ (metadata # "malformed" /\ dir.finalized /\ support = "unreadable")
           IN IF unreadable \/ metadata = "malformed" \/ ~dir.loadable
              THEN /\ report' = Fatal(report, IF unreadable THEN "io_error" ELSE "corrupt", "metadata")
                   /\ at' = Finished
              ELSE at' = Index /\ UNCHANGED report
    /\ UNCHANGED rows

\* bindSeekIndex. An index is stale when a source it names has another size or count.
BoundIndex(index) ==
    CASE index = "missing" -> report
      [] index = "unreadable" -> Fatal([report EXCEPT !.index = "corrupt"], "io_error", "index")
      [] index = "malformed" -> Fatal([report EXCEPT !.index = "corrupt"], "corrupt", "index")
      [] index = "stale" -> [report EXCEPT !.index = "degraded", !.state = "degraded"]
      [] index = "ok" -> [report EXCEPT !.index = "clean", !.buckets = TRUE]

BindSeekIndex ==
    /\ at = Index
    /\ \E index \in Documents \cup {"stale"} :
        dir' = [dir EXCEPT !.index = index] /\ report' = BoundIndex(index)
    /\ at' = Finished /\ UNCHANGED rows

Next == LoadManifest \/ LoadChannel \/ CheckCounts \/ CheckMetadata \/ BindSeekIndex

Spec == Init /\ [][Next]_vars

(***************************************************************************)
(* Properties.                                                             *)
(***************************************************************************)
Accepted == at = Finished /\ report.status = "ok"

\* A finalized session that is accepted is whole: every enabled channel has all the rows
\* its manifest declares, a channel with rows was read to its end, and the tape and the
\* sidecar of a paired one match.
AcceptedIsWhole ==
    (Accepted /\ dir.finalized) =>
        \A c \in Channels : dir.entries[c].enabled =>
            /\ rows[c] = dir.entries[c].declared
            /\ dir.entries[c].required => report.channel[c] = "clean"
            /\ Kind[c] = "paired" => dir.entries[c].file.lines = dir.entries[c].side.lines

Healthy(c) ==
    LET e == dir.entries[c]
    IN e.enabled => /\ e.file.there /\ e.file.readable /\ e.file.sound
                    /\ Kind[c] = "paired" => e.side.there /\ e.side.readable /\ e.side.sound
                                             /\ e.side.lines = e.file.lines
                    /\ Kind[c] = "framed" => e.file.lines = e.declared

\* A session still being recorded, whose manifest lags behind its files, is not refused
\* for the lag: with sound files it is accepted whatever the counts say.
LagIsNotCorruption ==
    (at = Finished /\ dir.manifest = "ok" /\ ~dir.finalized /\ dir.loadable /\ dir.metadata \in {"missing", "ok"}
        /\ dir.index \notin {"malformed", "unreadable"} /\ \A c \in Channels : Healthy(c))
            => report.status = "ok"

\* The seek index is a cache: a missing or stale one costs the session nothing, and its
\* buckets are used only when it matches the artifacts.
IndexIsAdvisory ==
    at = Finished =>
        /\ report.by = "index" => dir.index \in {"malformed", "unreadable"}
        /\ report.buckets => dir.index = "ok"
        /\ (dir.index = "stale" /\ Accepted) => report.state = "degraded"

-----------------------------------------------------------------------------
(***************************************************************************)
(* The manifest of a session as a document: what the writer renders, what  *)
(* the reader demands, takes or derives, and what is left of the           *)
(* writer's intent when the document has lost or garbled a part.           *)
(*                                                                         *)
(* A field is named by the path of its object and its key.  Its value is   *)
(* "default", "set" (another value), "none" (an empty text) or, in a       *)
(* damaged document, "bad": not of the field's type.  An object is parsed  *)
(* by one loop over its keys with a set of those seen, so a schema (the    *)
(* keys it demands, the further ones it takes, whether it may be empty)    *)
(* stands for the loop; keys it does not know are skipped.                 *)
(***************************************************************************)

CONSTANTS DocumentChannels,           \* of the ten channels, all with the same schema but trades and depth
          RuntimeChannels,    \* of the eight with a runtime health
          IntegrityChannels,  \* of the five with an integrity summary
          MaxEdits

VARIABLES fields,   \* the writer's fields that are not at their default
          doc,        \* the document, a function of objects to functions of keys; empty before it is written
          outcome,    \* "", "ok" or "corrupt"
          out,        \* the reader's manifest
          edits

manifestVars == <<fields, doc, outcome, out, edits>>

-----------------------------------------------------------------------------
\* The schemas.

Schema(req, opt, mayBeEmpty) == [req |-> req, opt |-> opt, mayBeEmpty |-> mayBeEmpty]

identity == Schema({"session_id", "exchange", "market", "symbols"}, {"storage_symbol"}, FALSE)
capture == Schema({"selected_parent_dir", "started_at_ns", "ended_at_ns", "target_duration_sec",
                   "actual_duration_sec", "snapshot_interval_sec"}, {}, FALSE)
Clocks == {"boundary", "realtime_clock", "monotonic_clock"}
arrivalClock == Schema(Clocks \cup {"captured_rows", "historical_rows", "unavailable_rows", "realtime_regressions",
                   "monotonic_non_increasing", "exchange_ahead_of_receive", "exchange_timestamp_missing",
                   "first_receive_realtime_ns", "last_receive_realtime_ns", "first_receive_monotonic_ns",
                   "last_receive_monotonic_ns"}, {}, FALSE)
replay == Schema({}, {"structurally_loadable", "structural_blockers"}, TRUE)
ChannelKeys == {"enabled", "required_when_enabled", "path", "declared_event_count"}
channelObject == Schema(ChannelKeys, {}, FALSE)
depthChannel == Schema(ChannelKeys \cup {"sidecar_path"}, {}, FALSE)
tradesChannel == Schema(ChannelKeys, {"history_warmup_sec", "history_requested_start_ns", "history_requested_end_ns",
                   "history_rows", "history_requests", "history_feed_kind", "history_status"}, FALSE)
channels == Schema(DocumentChannels, {}, FALSE)
channelRuntime == Schema({}, {"state", "required", "first_row_ns", "last_row_ns", "reconnect_count",
                   "dropped_event_count", "unroutable_event_count", "last_error"}, TRUE)
runtimeHealth == Schema({}, RuntimeChannels, TRUE)
artifacts == Schema({"instrument_metadata_path", "session_audit_path", "loader_diagnostic_path",
                   "market_data_launch_path"}, {"canonical", "support"}, FALSE)
summary == Schema({}, {"warning_summary"}, TRUE)
channelIntegrity == Schema({}, {"state", "exact_replay_eligible", "incident_count", "gap_count", "parse_error_count",
                   "highest_severity", "reason_code", "reason_text"}, TRUE)
integritySummary == Schema({}, {"total_incidents", "highest_severity"}, TRUE)
channelIntegrityGroup == Schema({}, IntegrityChannels, TRUE)
integrity == Schema({}, {"session_health", "exact_replay_eligible", "report_path", "summary", "channels"}, TRUE)

top == Schema({"session_status", "identity", "capture", "arrival_clock", "channels", "artifacts"},
              {"replay", "runtime_health", "integrity", "summary"}, FALSE)

Objects ==
    {<<>>} \cup {<<k>> : k \in (top.req \cup top.opt) \ {"session_status"}}
        \cup {<<"channels", c>> : c \in DocumentChannels} \cup {<<"runtime_health", c>> : c \in RuntimeChannels}
        \cup {<<"integrity", "summary">>, <<"integrity", "channels">>}
        \cup {<<"integrity", "channels", c>> : c \in IntegrityChannels}

SchemaOf(o) ==
    CASE o = <<>> -> top
      [] o = <<"identity">> -> identity           [] o = <<"capture">> -> capture
      [] o = <<"arrival_clock">> -> arrivalClock  [] o = <<"replay">> -> replay
      [] o = <<"channels">> -> channels           [] o = <<"runtime_health">> -> runtimeHealth
      [] o = <<"artifacts">> -> artifacts         [] o = <<"integrity">> -> integrity
      [] o = <<"summary">> -> summary             [] o = <<"integrity", "summary">> -> integritySummary
      [] o = <<"integrity", "channels">> -> channelIntegrityGroup
      [] o = <<"channels", "trades">> -> tradesChannel
      [] o = <<"channels", "depth">> -> depthChannel
      [] o[1] = "channels" /\ o[Len(o)] \notin {"channels", "trades", "depth"} -> channelObject
      [] o[1] = "runtime_health" /\ Len(o) = 2 -> channelRuntime
      [] o[1] = "integrity" /\ Len(o) = 3 -> channelIntegrity

Known(o) == SchemaOf(o).req \cup SchemaOf(o).opt
Fields ==
    LET objects == Objects
    IN {f \in UNION {{<<o, k>> : k \in Known(o)} : o \in objects} : Append(f[1], f[2]) \notin objects}
Texts == {"session_id", "exchange", "market", "symbols", "path", "sidecar_path", "storage_symbol",
          "instrument_metadata_path", "report_path", "warning_summary"}

-----------------------------------------------------------------------------
\* Writing.

\* the writer never changes the names of the clocks
Values(f) == IF f[2] \in Clocks THEN {} ELSE {"set"} \cup (IF f[2] \in Texts THEN {"none"} ELSE {})

ValueOf(m, f) == IF f \in DOMAIN m THEN m[f] ELSE "default"
renderManifestJson(m) ==
    LET all == Fields
    IN [o \in Objects |-> [k \in Known(o) |-> IF <<o, k>> \in all THEN ValueOf(m, <<o, k>>) ELSE "object"]]

NoDoc == [o \in {} |-> "none"]
ManifestInit == fields = [f \in {} |-> "none"] /\ doc = NoDoc /\ outcome = "" /\ out = [f \in {} |-> "none"] /\ edits = 0

\* the recorder sets one more field
Set ==
    /\ doc = NoDoc /\ edits < MaxEdits
    /\ \E f \in Fields \ DOMAIN fields : \E v \in Values(f) :
         fields' = [g \in DOMAIN fields \cup {f} |-> IF g = f THEN v ELSE fields[g]]
    /\ edits' = edits + 1 /\ UNCHANGED <<doc, outcome, out>>

Write == doc = NoDoc /\ doc' = renderManifestJson(fields) /\ UNCHANGED <<fields, outcome, out, edits>>

Without(fun, k) == [x \in DOMAIN fun \ {k} |-> fun[x]]
\* between writing and reading a key is lost, garbled or unknown, or an object is emptied
Damage ==
    /\ doc # NoDoc /\ outcome = "" /\ edits < MaxEdits
    /\ \E o \in Objects :
         \/ \E k \in Known(o) : doc' = [doc EXCEPT ![o] = Without(@, k)]
         \/ \E k \in Known(o) : Append(o, k) \notin Objects /\ doc' = [doc EXCEPT ![o] = [x \in DOMAIN @ |-> IF x = k THEN "bad" ELSE @[x]]]
         \/ doc' = [doc EXCEPT ![o] = [x \in DOMAIN @ \cup {"unknown"} |-> IF x = "unknown" THEN "bad" ELSE @[x]]]
         \/ doc' = [doc EXCEPT ![o] = [x \in {} |-> "none"]]
    /\ edits' = edits + 1 /\ UNCHANGED <<fields, outcome, out>>

-----------------------------------------------------------------------------
\* Reading.

Reached(o) == \A n \in 1..Len(o) : o[n] \in DOMAIN doc[SubSeq(o, 1, n - 1)]

parseObject(o) ==
    LET keys == DOMAIN doc[o]
    IN /\ keys = {} => SchemaOf(o).mayBeEmpty
       /\ SchemaOf(o).req \subseteq keys
       /\ \A k \in keys \cap Known(o) : doc[o][k] # "bad"

FieldRead(f) == IF Reached(f[1]) /\ f[2] \in DOMAIN doc[f[1]] THEN doc[f[1]][f[2]] ELSE "default"

Accepts ==
    /\ \A o \in Objects : Reached(o) => parseObject(o)
    /\ FieldRead(<<<<>>, "session_status">>) # "none"
    /\ \A k \in Clocks : FieldRead(<<<<"arrival_clock">>, k>>) = "default"

\* the channels that are required when enabled unless the manifest says otherwise
RequiredByDefault == {"trades", "bookticker", "depth"}
Enabled(m, c) == m[<<<<"channels", c>>, "enabled">>] = "set"
Required(m, c) == (m[<<<<"channels", c>>, "required_when_enabled">>] = "default") <=> (c \in RequiredByDefault)
Empty(m, o, k) == m[<<o, k>>] = "none"

Blockers(m) ==
    {k \in {"session_id", "exchange", "market", "symbols"} : Empty(m, <<"identity">>, k)}
        \cup {c \in DocumentChannels \ {"depth"} : Enabled(m, c) /\ Required(m, c) /\ Empty(m, <<"channels", c>>, "path")}
        \cup {k \in {"path", "sidecar_path"} : Enabled(m, "depth") /\ Empty(m, <<"channels", "depth">>, k)}

validateStructurally(m) ==
    [m EXCEPT ![<<<<"replay">>, "structurally_loadable">>] = IF Blockers(m) = {} THEN "default" ELSE "set",
              ![<<<<"replay">>, "structural_blockers">>] = IF Blockers(m) = {} THEN "default" ELSE "set"]

parseManifestJson ==
    /\ doc # NoDoc /\ outcome = ""
    /\ IF Accepts THEN outcome' = "ok" /\ out' = validateStructurally([f \in Fields |-> FieldRead(f)])
       ELSE outcome' = "corrupt" /\ UNCHANGED out
    /\ UNCHANGED <<fields, doc, edits>>

\* the artifacts a reader may rely on: those of the enabled channels with a path
canonicalArtifacts(m) == {c \in DocumentChannels : Enabled(m, c) /\ ~Empty(m, <<"channels", c>>, "path")}

ManifestNext == Set \/ Write \/ Damage \/ parseManifestJson
ManifestSpec == ManifestInit /\ [][ManifestNext]_manifestVars

-----------------------------------------------------------------------------
(***************************************************************************)
(* Properties.                                                             *)
(***************************************************************************)
Derived == {<<<<"replay">>, "structurally_loadable">>, <<<<"replay">>, "structural_blockers">>}

\* A manifest written whole is read whole: every field the writer set comes back, in whatever
\* section it is, and the two derived ones are recomputed from the others.
WrittenIsRead ==
    (outcome # "" /\ edits = Cardinality(DOMAIN fields))
        => outcome = "ok" /\ \A f \in Fields \ Derived : out[f] = ValueOf(fields, f)

\* An accepted document has lost nothing of what identifies a session, its capture, its clocks, its
\* channels and its artifacts: no loss there is filled with a default in silence.
AcceptedKeepsRequired ==
    outcome = "ok" => \A f \in Fields : f[2] \in SchemaOf(f[1]).req => out[f] = ValueOf(fields, f)

\* Whatever was lost, a reader is never told of more than the writer vouched for: a session, or a
\* channel, that was not written as eligible for exact replay is not read as eligible.
NoMoreThanVouchedFor ==
    outcome = "ok" => \A f \in Fields :
        (f[2] = "exact_replay_eligible" /\ out[f] = "set") => ValueOf(fields, f) = "set"

\* A manifest read as loadable names a path for every channel that must have one, whatever the
\* document itself said of its loadability, and those paths are among the artifacts relied on.
LoadableNamesPaths ==
    (outcome = "ok" /\ out[<<<<"replay">>, "structurally_loadable">>] = "default") =>
        /\ ~Empty(out, <<"identity">>, "session_id")
        /\ \A c \in DocumentChannels : (Enabled(out, c) /\ (Required(out, c) \/ c = "depth")) => c \in canonicalArtifacts(out)
        /\ Enabled(out, "depth") => ~Empty(out, <<"channels", "depth">>, "sidecar_path")

\* A document that is refused leaves the reader's manifest as it was.
RefusedLeavesNothing == outcome = "corrupt" => DOMAIN out = {}

=============================================================================
