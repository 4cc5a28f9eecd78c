--------------------------- MODULE CompressionLab ---------------------------
(***************************************************************************)
(* The compression page (CompressionViewModel): it compresses one channel  *)
(* of the selected session with one pipeline or with all of them, checks   *)
(* an artifact against the JSONL it was made from, and shows the results   *)
(* of the selected session in two tables, which it reloads from the files  *)
(* beside the artifacts whenever the selection moves.  Work is done on a   *)
(* detached thread, whose result is queued to the GUI thread; nothing      *)
(* keeps the selection still meanwhile.                                    *)
(*                                                                         *)
(* The compressor and the Python codecs are external: a run leaves an      *)
(* artifact and a metrics file or fails, a check writes its verdict beside *)
(* the artifact, and finds it exact only against the session it came from. *)
(***************************************************************************)
EXTENDS Naturals, FiniteSets

CONSTANTS Sessions,
          DepthOnly,    \* the sessions with no trades file; the others have every channel
          Python,       \* the Python pipelines: scope "all"
          TradesPipes,  \* the compressor's pipelines of scope "trades"
          AllPipes,     \* the compressor's pipelines of scope "all"
          MaxActs       \* bound on the operator's actions and catalogue changes

Channels == {"trades", "depth"}
Pipelines == Python \cup TradesPipes \cup AllPipes
NoSession == "none"
NoPipeline == "none"

VARIABLES listed,       \* the sessions of the catalogue's snapshot
          session, channel, pipeline,   \* selectedSessionId_, selectedChannel_, selectedPipelineId_
          runRows,      \* runRows_: one row per pipeline and stream
          verifyRows,   \* verifyRows_: likewise
          running, verifying,
          jobs,         \* the detached threads whose result has not been applied
          metrics,      \* the *.metrics.json files
          verdicts,     \* the *.verify.json files
          late,         \* a row of another selection was put in the tables since they were reloaded
          mixed,        \* some check was given the artifact of one session and the JSONL of another
          acts

selection == <<session, channel, pipeline>>
tables == <<runRows, verifyRows>>
files == <<metrics, verdicts>>
vars == <<listed, selection, tables, running, verifying, jobs, files, late, mixed, acts>>

(***************************************************************************)
(* Selection and tables.                                                   *)
(***************************************************************************)
HasChannel(s, c) == s # NoSession /\ (c = "depth" \/ s \notin DepthOnly)

\* existingChannelPath_ of each channel in turn, and "trades" when there is none
FirstAvailableChannel(s) == IF s \in DepthOnly THEN "depth" ELSE "trades"

PipelineMatchesChannel(p, c) == p \notin TradesPipes \/ c = "trades"

SelectedPipelineAvailable(p, c) == p # NoPipeline /\ PipelineMatchesChannel(p, c)

\* the compressor's pipelines come before the Python ones
FirstAvailable(c) ==
  LET cpp == {p \in TradesPipes \cup AllPipes : PipelineMatchesChannel(p, c)}
  IN  IF cpp # {} THEN cpp ELSE IF Python # {} THEN Python ELSE {NoPipeline}

SameKey(r, q) == r.pipe = q.pipe /\ r.chan = q.chan

\* appendResultRow_ and appendVerifyRow_
Append(rows, row) == {r \in rows : ~SameKey(r, row)} \cup {row}

\* resultRow_ and verifyRow_: what a result becomes in its table
RunRow(p, c, s, ok) == [pipe |-> p, chan |-> c, of |-> s, ok |-> ok]

VerifyRow(p, c, a, s, state) == [pipe |-> p, chan |-> c, art |-> a, of |-> s, state |-> state]

\* metricsRow_ and verifyMetricsRow_: the same row, read back from the file of
\* a pipeline the program still knows
MetricsRow(m) == RunRow(m.pipe, m.chan, m.of, m.ok)

VerifyMetricsRow(v) == VerifyRow(v.pipe, v.chan, v.art, v.of, v.state)

StoredRunRows(s) == {MetricsRow(m) : m \in {f \in metrics : f.of = s}}

StoredVerifyRows(s) == {VerifyMetricsRow(v) : v \in {f \in verdicts : f.art = s}}

Reloaded(s) == /\ runRows' = StoredRunRows(s)
               /\ verifyRows' = StoredVerifyRows(s)
               /\ late' = FALSE

Act == /\ acts < MaxActs
       /\ acts' = acts + 1

SelectSession(s) ==
  /\ Act
  /\ s \in listed \ {session}
  /\ session' = s
  /\ channel' = FirstAvailableChannel(s)
  /\ pipeline' \in IF SelectedPipelineAvailable(pipeline, channel') THEN {pipeline}
                   ELSE FirstAvailable(channel')
  /\ Reloaded(s)
  /\ UNCHANGED <<listed, running, verifying, jobs, files, mixed>>

\* the rows stay: the tables show those of the selected channel
SelectChannel(c) ==
  /\ Act
  /\ c # channel
  /\ channel' = c
  /\ pipeline' \in IF SelectedPipelineAvailable(pipeline, c) THEN {pipeline} ELSE FirstAvailable(c)
  /\ UNCHANGED <<listed, session, tables, running, verifying, jobs, files, late, mixed>>

SelectPipeline(p) ==
  /\ Act
  /\ p # pipeline
  /\ PipelineMatchesChannel(p, channel)
  /\ pipeline' = p
  /\ UNCHANGED <<listed, session, channel, tables, running, verifying, jobs, files, late, mixed>>

\* initializeSelectedSessionFromCatalog_ and reloadSessions; the selected
\* pipeline is kept, whatever the channel becomes
CatalogChanged(l) ==
  /\ Act
  /\ listed' = l
  /\ session' \in IF session \in l THEN {session} ELSE IF l = {} THEN {NoSession} ELSE l
  /\ channel' = IF session' = session THEN channel ELSE FirstAvailableChannel(session')
  /\ Reloaded(session')
  /\ UNCHANGED <<pipeline, running, verifying, jobs, files, mixed>>

(***************************************************************************)
(* Work.  A job remembers what it was started on.                          *)
(***************************************************************************)
CanRun == /\ ~running /\ ~verifying
          /\ HasChannel(session, channel)

\* encodedArtifactPath_: the session whose artifact the table names, if any
EncodedArtifact(c, p) == {r.of : r \in {q \in runRows : q.chan = c /\ q.pipe = p /\ q.ok}}

StartRun(pipes) ==
  /\ Act
  /\ CanRun
  /\ pipes # {}
  /\ running' = TRUE
  /\ jobs' = jobs \cup {[kind |-> "run", of |-> session, chan |-> channel,
                         todo |-> pipes, done |-> {}]}
  /\ UNCHANGED <<listed, selection, tables, verifying, files, late, mixed>>

RunCompression == /\ SelectedPipelineAvailable(pipeline, channel)
                  /\ StartRun({pipeline})

RunAllAvailablePipelines == StartRun({p \in Pipelines : PipelineMatchesChannel(p, channel)})

Pending(p) == VerifyRow(p, channel, NoSession, session, "running")

CanVerify == /\ ~running /\ ~verifying
             /\ HasChannel(session, channel)

StartVerify(arts, rows) ==
  /\ Act
  /\ CanVerify
  /\ arts # {}
  /\ verifying' = TRUE
  /\ verifyRows' = rows
  /\ mixed' = (mixed \/ \E a \in arts : a[2] # session)
  /\ jobs' = jobs \cup {[kind |-> "verify", of |-> session, chan |-> channel,
                         todo |-> arts, done |-> {}]}
  /\ UNCHANGED <<listed, selection, runRows, running, files, late>>

DecodeVerifySelected ==
  /\ SelectedPipelineAvailable(pipeline, channel)
  /\ StartVerify({pipeline} \X EncodedArtifact(channel, pipeline),
                 Append(verifyRows, Pending(pipeline)))

\* no pending row in a batch
DecodeVerifyAllAvailable ==
  StartVerify(UNION {{p} \X EncodedArtifact(channel, p) :
                       p \in {q \in Pipelines : PipelineMatchesChannel(q, channel)}},
              verifyRows)

\* the thread compresses one channel with one pipeline; a failed run may leave
\* its metrics behind.  The row of a Python process that failed names no stream.
Compress(j, p) ==
  /\ j.kind = "run" /\ p \in j.todo
  /\ \E ok, kept \in BOOLEAN :
       LET row == RunRow(p, j.chan, j.of, ok)
           lost == p \in Python /\ ~ok /\ ~kept
       IN  /\ ok => kept
           /\ metrics' = IF kept THEN {m \in metrics : ~(SameKey(m, row) /\ m.of = row.of)} \cup {row}
                         ELSE metrics
           /\ jobs' = (jobs \ {j}) \cup {[j EXCEPT !.todo = @ \ {p},
                         !.done = @ \cup {[row EXCEPT !.chan = IF lost THEN "selected" ELSE @]}]}
  /\ UNCHANGED <<listed, selection, tables, running, verifying, verdicts, late, mixed, acts>>

Check(j, a) ==
  /\ j.kind = "verify" /\ a \in j.todo
  /\ \E state \in {"exact", "mismatch"} :
       LET row == VerifyRow(a[1], j.chan, a[2], j.of, state)
       IN  /\ state = "exact" => a[2] = j.of
           /\ verdicts' = {v \in verdicts : ~(SameKey(v, row) /\ v.art = row.art)} \cup {row}
           /\ jobs' = (jobs \ {j}) \cup {[j EXCEPT !.todo = @ \ {a}, !.done = @ \cup {row}]}
  /\ UNCHANGED <<listed, selection, tables, running, verifying, metrics, late, mixed, acts>>

(***************************************************************************)
(* The queued call that applies the results of a finished thread.          *)
(***************************************************************************)
Resolved(row) == [row EXCEPT !.chan = IF @ = "selected" THEN channel ELSE @]

Applied(rows, done) == {r \in rows : \A d \in done : ~SameKey(r, d)} \cup done

ApplyResults(j) ==
  LET done == {Resolved(row) : row \in j.done}
  IN  /\ j \in jobs /\ j.kind = "run" /\ j.todo = {}
      /\ runRows' = Applied(runRows, done)
      /\ late' = (late \/ j.of # session \/ \E row \in j.done : row.chan = "selected" /\ channel # j.chan)
      /\ running' = FALSE
      /\ jobs' = jobs \ {j}
      /\ UNCHANGED <<listed, selection, verifyRows, verifying, files, mixed, acts>>

ApplyVerifyResults(j) ==
  /\ j \in jobs /\ j.kind = "verify" /\ j.todo = {}
  /\ verifyRows' = Applied(verifyRows, j.done)
  /\ late' = (late \/ j.of # session)
  /\ verifying' = FALSE
  /\ jobs' = jobs \ {j}
  /\ UNCHANGED <<listed, selection, runRows, running, files, mixed, acts>>

Init == /\ listed = Sessions
        /\ session \in Sessions
        /\ channel = FirstAvailableChannel(session)
        /\ pipeline \in FirstAvailable("trades")
        /\ runRows = {} /\ verifyRows = {} /\ metrics = {} /\ verdicts = {} /\ jobs = {}
        /\ running = FALSE /\ verifying = FALSE /\ late = FALSE /\ mixed = FALSE
        /\ acts = 0

Thread == \E j \in jobs : \/ \E t \in j.todo : Compress(j, t) \/ Check(j, t)
                          \/ ApplyResults(j)
                          \/ ApplyVerifyResults(j)

Next == \/ \E s \in Sessions : SelectSession(s)
        \/ \E c \in Channels : SelectChannel(c)
        \/ \E p \in Pipelines : SelectPipeline(p)
        \/ \E l \in {{}} \cup {{s} : s \in Sessions} : CatalogChanged(l)
        \/ RunCompression \/ RunAllAvailablePipelines
        \/ DecodeVerifySelected \/ DecodeVerifyAllAvailable
        \/ Thread

\* a detached thread runs to its end and the event loop delivers its call
Spec == Init /\ [][Next]_vars /\ WF_vars(Thread)

(***************************************************************************)
(* Properties.                                                             *)
(***************************************************************************)

\* While no thread is at work and no result has arrived for a selection that
\* was left, the metrics table lists what is on disk for the selected session:
\* a row with an artifact is of that session, and every artifact has a row
\* unless a later attempt failed.
TableMatchesDisk ==
  (jobs = {} /\ ~late) =>
    /\ \A r \in runRows : r.ok => r \in StoredRunRows(session)
    /\ \A m \in StoredRunRows(session) : m.ok => \E r \in runRows : SameKey(r, m)

\* While no check was ever given files of two sessions, and no late result is
\* in the table, every verdict shown compares an artifact of the selected
\* session with that session's own JSONL.
VerdictsOfSelected ==
  (~mixed /\ ~late) => \A v \in verifyRows : v.of = session /\ v.art \in {session, NoSession}

\* A row that says the check is running is the row of a check that is: none is
\* left behind when the check ends, wherever the selection has moved.
PendingIsRunning ==
  \A v \in verifyRows : v.state = "running" =>
    \E j \in jobs : j.kind = "verify" /\ j.chan = v.chan /\ j.of = v.of

\* At most one thread is at work, and the two flags say which: the batch
\* applies its rows through the single-result functions, which clear the flag.
OneJobAtATime == /\ Cardinality(jobs) <= 1
                 /\ running = (\E j \in jobs : j.kind = "run")
                 /\ verifying = (\E j \in jobs : j.kind = "verify")

\* Every compression and every check ends, and the page is usable again.
Working == running \/ verifying
WorkEnds == Working ~> ~Working
=============================================================================
