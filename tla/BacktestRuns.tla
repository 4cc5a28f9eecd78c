---- MODULE BacktestRuns ----
(***************************************************************************)
(* Two machines: the jobs of the backtest page (Init, Next), and the       *)
(* loading of their results (ResultsInit, ResultsNext).                    *)
(*                                                                         *)
(* The backtests of the viewer, from BacktestViewModel.cpp,                *)
(* BacktestViewModelBatch.cpp and BacktestViewModelResultRefresh.cpp.  One *)
(* worker thread at a time runs a backtest ("run"), a parameter sweep      *)
(* ("sweep") or a batch over pairs of recordings ("batch", "basis"); it    *)
(* reports to the event loop by queued calls.  The event loop starts jobs, *)
(* joins the previous worker first (blocking itself), takes cancels, and   *)
(* reloads the results, where the manifest of the active run may show that *)
(* the run has ended before its report has arrived.                        *)
(*                                                                         *)
(* The backtest engine is external: it polls the cancel flag, writes its   *)
(* result and returns, or throws.                                          *)
(***************************************************************************)
EXTENDS Integers, Sequences, FiniteSets

CONSTANTS Kinds,    \* the kinds of jobs the user starts
          MaxJobs,  \* bound on jobs
          MaxPairs, \* bound on the pairs of a batch
          MaxLoads  \* bound on reloads of the results

VARIABLES
  ui,        \* "idle", "start": blocked in stopWorker_ before a start, "closing", "closed"
  kind,      \* the kind of the job a blocked start is for
  running,   \* running_
  active,    \* activeRunId_, 0 when empty
  cancel,    \* cancelRequested_
  worker,    \* the worker thread
  inbox,     \* calls queued for the event loop, in order
  jobs,      \* jobs started so far; a job is named by its number
  written,   \* jobs whose result manifest is on disk
  loads,     \* reloads so far
  reading,   \* a reload is under way
  reported,  \* history: jobs whose report was applied
  early,     \* history: runs a reload showed to have ended
  dropped,   \* history: runs whose report was ignored
  asked,     \* history: jobs the user cancelled
  cancelled  \* history: jobs that ended because of a cancel

history == <<reported, early, dropped, asked, cancelled>>
vars == <<ui, kind, running, active, cancel, worker, inbox, jobs, written, loads, reading, history>>

\* No thread; "busy" computes, "wrote" has its manifest on disk, "done" has
\* posted its report and can be joined.
NoWorker == [id |-> 0, kind |-> "none", phase |-> "none", chosen |-> 0, left |-> 0, ok |-> 0, skipped |-> 0]

Init ==
  /\ ui = "idle" /\ kind = "none" /\ running = FALSE /\ active = 0 /\ cancel = FALSE
  /\ worker = NoWorker /\ inbox = <<>> /\ jobs = 0 /\ written = {} /\ loads = 0 /\ reading = FALSE
  /\ reported = {} /\ early = {} /\ dropped = {} /\ asked = {} /\ cancelled = {}

-----------------------------------------------------------------------------
(* The event loop                                                          *)

Start(k) ==
  /\ ui = "idle" /\ ~running /\ jobs < MaxJobs
  /\ ui' = "start" /\ kind' = k
  /\ UNCHANGED <<running, active, cancel, worker, inbox, jobs, written, loads, reading, history>>

Joined == worker.phase \in {"none", "done"}

\* cancelRequested_ goes back to false between the join and the new worker.
\* The sessions cannot be prepared, or the configuration of the run or of
\* every pair cannot be written: nothing runs.
StartFails ==
  /\ ui = "start" /\ Joined
  /\ ui' = "idle" /\ kind' = "none"
  /\ worker' = NoWorker
  /\ cancel' = FALSE
  /\ running' = FALSE
  /\ active' \in IF kind = "run" THEN {active, 0} ELSE {active}
  /\ UNCHANGED <<inbox, jobs, written, loads, reading, history>>

Launch(id) ==
  /\ running' = TRUE /\ cancel' = FALSE
  /\ active' = IF kind = "run" THEN id ELSE active

StartRun ==
  /\ ui = "start" /\ kind = "run" /\ Joined
  /\ ui' = "idle" /\ kind' = "none"
  /\ jobs' = jobs + 1
  /\ Launch(jobs + 1)
  /\ worker' = [NoWorker EXCEPT !.id = jobs + 1, !.kind = "run", !.phase = "busy"]
  /\ UNCHANGED <<inbox, written, loads, reading, history>>

StartSweep ==
  /\ ui = "start" /\ kind = "sweep" /\ Joined
  /\ ui' = "idle" /\ kind' = "none"
  /\ jobs' = jobs + 1
  /\ Launch(jobs + 1)
  /\ worker' = [NoWorker EXCEPT !.id = jobs + 1, !.kind = "sweep", !.phase = "busy"]
  /\ UNCHANGED <<inbox, written, loads, reading, history>>

\* The pairs whose configuration cannot be written are skipped.
StartBatch ==
  /\ ui = "start" /\ kind = "batch" /\ Joined
  /\ ui' = "idle" /\ kind' = "none"
  /\ jobs' = jobs + 1
  /\ Launch(jobs + 1)
  /\ \E n \in 1..MaxPairs : \E m \in 1..n :
       worker' = [id |-> jobs + 1, kind |-> "batch", phase |-> "busy",
                  chosen |-> n, left |-> m, ok |-> 0, skipped |-> n - m]
  /\ UNCHANGED <<inbox, written, loads, reading, history>>

\* The batch over the spot and futures pairs of a basis group.
StartBasisChain ==
  /\ ui = "start" /\ kind = "basis" /\ Joined
  /\ ui' = "idle" /\ kind' = "none"
  /\ jobs' = jobs + 1
  /\ Launch(jobs + 1)
  /\ \E n \in 1..MaxPairs : \E m \in 1..n :
       worker' = [id |-> jobs + 1, kind |-> "basis", phase |-> "busy",
                  chosen |-> n, left |-> m, ok |-> 0, skipped |-> n - m]
  /\ UNCHANGED <<inbox, written, loads, reading, history>>

CancelBacktest ==
  /\ ui = "idle"
  /\ cancel' = TRUE
  /\ asked' = asked \cup {worker.id}
  /\ UNCHANGED <<ui, kind, running, active, worker, inbox, jobs, written, loads, reading,
                 reported, early, dropped, cancelled>>

\* A reload starts; its worker reads the manifests and queues what it read.
Reload ==
  /\ ui = "idle" /\ ~reading /\ loads < MaxLoads
  /\ loads' = loads + 1 /\ reading' = TRUE
  /\ UNCHANGED <<ui, kind, running, active, cancel, worker, inbox, jobs, written, history>>

ReadManifests ==
  /\ reading /\ ui # "closed"
  /\ \A i \in 1..Len(inbox) : inbox[i].what # "results"
  /\ inbox' = Append(inbox, [what |-> "results", id |-> 0, kind |-> "none", named |-> FALSE, seen |-> written])
  /\ UNCHANGED <<ui, kind, running, active, cancel, worker, jobs, written, loads, reading, history>>

Report(what, named) ==
  [what |-> what, id |-> worker.id, kind |-> worker.kind, named |-> named, seen |-> {}]

Take(what) ==
  /\ ui = "idle" /\ inbox # <<>> /\ Head(inbox).what = what
  /\ inbox' = Tail(inbox)

\* applyLoadedResults_: the active run is shown to have ended.
ApplyLoadedResults ==
  /\ Take("results")
  /\ reading' = FALSE
  /\ IF running /\ active \in Head(inbox).seen
     THEN active' = 0 /\ running' = FALSE /\ early' = early \cup {active}
     ELSE UNCHANGED <<active, running, early>>
  /\ UNCHANGED <<ui, kind, cancel, worker, jobs, written, loads, reported, dropped, asked, cancelled>>

Ignored(m) == m.kind = "run" /\ m.named /\ active # 0 /\ active # m.id

ApplyReport ==
  /\ Take("report")
  /\ LET m == Head(inbox)
     IN  IF Ignored(m)
         THEN dropped' = dropped \cup {m.id} /\ UNCHANGED <<active, running, reported>>
         ELSE /\ running' = FALSE
              /\ active' = IF m.kind = "run" THEN 0 ELSE active
              /\ reported' = reported \cup {m.id}
              /\ UNCHANGED dropped
  /\ UNCHANGED <<ui, kind, cancel, worker, jobs, written, loads, reading, early, asked, cancelled>>

\* The destructor asks the worker to stop and joins it; queued calls go with
\* the object.
Close ==
  /\ ui = "idle"
  /\ ui' = "closing" /\ cancel' = TRUE
  /\ asked' = asked \cup {worker.id}
  /\ UNCHANGED <<kind, running, active, worker, inbox, jobs, written, loads, reading,
                 reported, early, dropped, cancelled>>

Closed ==
  /\ ui = "closing" /\ Joined
  /\ ui' = "closed" /\ inbox' = <<>> /\ worker' = NoWorker /\ reading' = FALSE
  /\ UNCHANGED <<kind, running, active, cancel, jobs, written, loads, history>>

-----------------------------------------------------------------------------
(* The worker thread                                                       *)

Post(named) == inbox' = Append(inbox, Report("report", named))

RunFails ==
  /\ worker.kind = "run" /\ worker.phase = "busy"
  /\ \E named \in BOOLEAN : Post(named)
  /\ worker' = [worker EXCEPT !.phase = "done"]
  /\ UNCHANGED <<ui, kind, running, active, cancel, jobs, written, loads, reading, history>>

\* The engine writes the manifest of a run, complete or cancelled.
RunWrites ==
  /\ worker.kind = "run" /\ worker.phase = "busy"
  /\ written' = written \cup {worker.id}
  /\ worker' = [worker EXCEPT !.phase = "wrote"]
  /\ \/ cancelled' = cancelled \cup {worker.id} /\ cancel
     \/ UNCHANGED cancelled
  /\ UNCHANGED <<ui, kind, running, active, cancel, inbox, jobs, loads, reading, reported, early, dropped, asked>>

RunReports ==
  /\ worker.kind = "run" /\ worker.phase = "wrote"
  /\ Post(TRUE)
  /\ worker' = [worker EXCEPT !.phase = "done"]
  /\ UNCHANGED <<ui, kind, running, active, cancel, jobs, written, loads, reading, history>>

SweepEnds ==
  /\ worker.kind = "sweep" /\ worker.phase = "busy"
  /\ Post(TRUE)
  /\ worker' = [worker EXCEPT !.phase = "done"]
  /\ \/ cancelled' = cancelled \cup {worker.id} /\ cancel
     \/ UNCHANGED cancelled
  /\ UNCHANGED <<ui, kind, running, active, cancel, jobs, written, loads, reading, reported, early, dropped, asked>>

\* One pair: its rows, or the pair is skipped because its sweep failed.
BatchPair ==
  /\ worker.kind = "batch" /\ worker.phase = "busy" /\ worker.left > 0 /\ ~cancel
  /\ \E good \in BOOLEAN :
       worker' = [worker EXCEPT !.left = @ - 1, !.ok = IF good THEN @ + 1 ELSE @,
                                !.skipped = IF good THEN @ ELSE @ + 1]
  /\ UNCHANGED <<ui, kind, running, active, cancel, inbox, jobs, written, loads, reading, history>>

\* All pairs are done; or the batch stops between two pairs on a cancel or on
\* an error of its output files.  The rows so far are kept and reported.
BatchEnds ==
  /\ worker.kind = "batch" /\ worker.phase = "busy"
  /\ cancelled' = IF worker.left > 0 /\ cancel THEN cancelled \cup {worker.id} ELSE cancelled
  /\ Post(TRUE)
  /\ worker' = [worker EXCEPT !.phase = "done"]
  /\ UNCHANGED <<ui, kind, running, active, cancel, jobs, written, loads, reading, reported, early, dropped, asked>>

\* A basis pair has its row whether or not its run succeeded.
BasisPair ==
  /\ worker.kind = "basis" /\ worker.phase = "busy" /\ worker.left > 0 /\ ~cancel
  /\ worker' = [worker EXCEPT !.left = @ - 1, !.ok = @ + 1]
  /\ UNCHANGED <<ui, kind, running, active, cancel, inbox, jobs, written, loads, reading, history>>

BasisEnds ==
  /\ worker.kind = "basis" /\ worker.phase = "busy"
  /\ cancelled' = IF worker.left > 0 /\ cancel THEN cancelled \cup {worker.id} ELSE cancelled
  /\ Post(TRUE)
  /\ worker' = [worker EXCEPT !.phase = "done"]
  /\ UNCHANGED <<ui, kind, running, active, cancel, jobs, written, loads, reading, reported, early, dropped, asked>>

-----------------------------------------------------------------------------
Worker == BasisPair \/ BasisEnds \/ RunFails \/ RunWrites \/ RunReports \/ SweepEnds \/ BatchPair \/ BatchEnds
Loop == StartFails \/ StartRun \/ StartSweep \/ StartBatch \/ StartBasisChain \/ ApplyLoadedResults \/ ApplyReport \/ Closed
Next ==
  \/ \E k \in Kinds : Start(k)
  \/ CancelBacktest \/ Reload \/ Close
  \/ ReadManifests \/ Worker \/ Loop

\* The engine returns, the reader of results ends and the event loop serves
\* its queue.
Spec == Init /\ [][Next]_vars
FairSpec == Spec /\ WF_vars(Worker) /\ WF_vars(ReadManifests) /\ WF_vars(Loop)

-----------------------------------------------------------------------------
\* The viewer offers a new run only when the current one has its result on
\* disk or has ended, although reports of earlier runs may still be queued
\* (the check of activeRunId_ in the queued report, together with the order
\* of the queue).
IdleMeansFinished == ~running => worker.phase # "busy"

\* A report is ignored only if a reload of the results had already shown the
\* end of its run: no run ends unnoticed.
DroppedWasKnown == dropped \subseteq early

\* A job ends as cancelled only if the user cancelled that job: a cancel left
\* over from the job before, or pressed when nothing ran, does not reach it
\* (the reset of cancelRequested_ between stopWorker_ and the new worker).
CancelNotInherited == cancelled \subseteq asked

\* Under any mix of jobs the worker that is replaced has ended and has posted
\* its report: assigning to a joinable std::thread would end the viewer.
WorkerNeverLost ==
  worker.id # 0 /\ worker'.id # worker.id => worker.phase = "done"

\* The viewer never stays "running": every job that is started ends with
\* running_ false, whatever late reports come in between.
Running == running
IdleAgain == ~running \/ ui = "closed"
RunningEnds == Running ~> IdleAgain

\* The report of the last job is applied in the end, even if late reports of
\* other jobs came between.
Posted(j) == worker.id = j /\ worker.phase = "done"
ReportTaken(j) == j \in reported \/ jobs # j \/ ui # "idle"
LastReported == \A j \in 1..MaxJobs : Posted(j) ~> ReportTaken(j)

-----------------------------------------------------------------------------
(***************************************************************************)
(* How the viewer loads the results of backtests, from                     *)
(* BacktestViewModelResultRefresh.cpp and BacktestViewModelResults.cpp.    *)
(* A reload lists the results of the selected sessions on a thread of its  *)
(* own and keeps what is already loaded of a result whose files have not   *)
(* changed; the curve of the selected run (its preview) and its details    *)
(* are loaded by threads as well.  Threads queue what they read for the    *)
(* event loop, where generations and the selected run decide whether it is *)
(* still wanted.                                                           *)
(*                                                                         *)
(* One version number stands for the size and time stamps of all files of  *)
(* a run.  Result files are readable and hold at least one point.          *)
(***************************************************************************)

CONSTANTS Runs,      \* runs of the first selection of sessions
          Others,    \* those of them that match the second selection too
          Sweeps,    \* those of them that are sweeps: no preview
          NoRun,
          MaxWrites, \* bound on writes of results by the engine
          MaxActs    \* bound on acts of the user and ends of jobs

VARIABLES
  disk,     \* version of each run's files, 0 when there are none
  writes, acts,
  v,        \* the members of BacktestViewModel
  records,  \* records_: for each run, whether it is listed and what is loaded
  shownKey, \* history: the selection records_ was loaded for
  threads,  \* asyncLoaders_ that have not queued their result
  resultsInbox,    \* queued calls
  mixed,    \* history: a reload was applied while details were on their way
  finished, \* history: a job ended and selected its run
  gone      \* runs the user deleted; their names are not used again

resultsVars == <<gone, disk, writes, acts, v, records, shownKey, threads, resultsInbox, mixed, finished>>

Matching(key) == IF key = 1 THEN Runs ELSE Others

Unlisted == [listed |-> FALSE, stamp |-> 0, points |-> 0, details |-> FALSE]
Thread(what, gen, run) ==
  [what |-> what, gen |-> gen, run |-> run, key |-> 0, read |-> FALSE, stamp |-> 0,
   points |-> 0, records |-> [r \in Runs |-> Unlisted]]

ResultsInit ==
  /\ disk = [r \in Runs |-> 1]
  /\ writes = 0 /\ acts = 0
  /\ v = [key |-> 1, selected |-> NoRun, loading |-> FALSE, pending |-> FALSE, timer |-> TRUE,
          preview |-> NoRun, previewGen |-> 0, details |-> NoRun, detailsGen |-> 0, waiting |-> NoRun]
  /\ records = [r \in Runs |-> Unlisted]
  /\ shownKey = 1 /\ threads = {} /\ resultsInbox = <<>> /\ mixed = FALSE /\ finished = FALSE /\ gone = {}

-----------------------------------------------------------------------------
(* Members: v.preview and v.details are the runs previewLoading_ and       *)
(* detailsLoading_ are for, v.waiting is pendingDetailsRunId_.             *)

Refresh(w) ==
  IF w.loading THEN [w EXCEPT !.timer = FALSE, !.pending = TRUE]
  ELSE [w EXCEPT !.timer = FALSE, !.loading = TRUE,
                 !.previewGen = @ + 1, !.preview = NoRun,
                 !.details = IF w.waiting # NoRun THEN NoRun ELSE @, !.waiting = NoRun]

Reloader(w) ==
  IF w.loading THEN {}
  ELSE {[Thread("results", 0, NoRun) EXCEPT !.key = w.key, !.records = records]}

\* ensureSelectedPreviewLoaded_ on members w and records recs.
NeedsPreview(w, recs) ==
  /\ w.selected # NoRun /\ recs[w.selected].listed /\ w.selected \notin Sweeps
  /\ recs[w.selected].points = 0 /\ w.preview # w.selected
Preview(w, recs) ==
  IF NeedsPreview(w, recs) THEN [w EXCEPT !.previewGen = @ + 1, !.preview = w.selected] ELSE w
Previewer(w, recs) ==
  IF NeedsPreview(w, recs) THEN {Thread("preview", w.previewGen + 1, w.selected)} ELSE {}

\* clearRecordDetails_
Cleared(run) == IF run = NoRun THEN records ELSE [records EXCEPT ![run].details = FALSE]

-----------------------------------------------------------------------------
(* The user and the jobs                                                   *)

Act == acts < MaxActs /\ acts' = acts + 1

TimerFires ==
  /\ v.timer
  /\ v' = Refresh(v)
  /\ threads' = threads \cup Reloader(v)
  /\ UNCHANGED <<gone, disk, writes, acts, records, shownKey, resultsInbox, mixed, finished>>

SelectRun(r) ==
  /\ Act
  /\ r # v.selected /\ records[r].listed
  /\ LET w == [v EXCEPT !.previewGen = @ + 1, !.detailsGen = @ + 1, !.waiting = NoRun,
                        !.preview = NoRun, !.details = NoRun, !.selected = r]
     IN  v' = Preview(w, Cleared(v.selected)) /\ threads' = threads \cup Previewer(w, Cleared(v.selected))
  /\ records' = Cleared(v.selected)
  /\ UNCHANGED <<gone, disk, writes, shownKey, resultsInbox, mixed, finished>>

\* loadSelectedRunDetails: at once when the curve is loaded, with the preview
\* when that is on its way, by a thread otherwise.
LoadDetails ==
  /\ Act
  /\ v.selected # NoRun /\ records[v.selected].listed
  /\ ~records[v.selected].details /\ v.details # v.selected
  /\ CASE v.selected \notin Sweeps /\ records[v.selected].points # 0 ->
            records' = [records EXCEPT ![v.selected].details = TRUE] /\ UNCHANGED <<v, threads>>
       [] v.selected \notin Sweeps /\ records[v.selected].points = 0 /\ v.preview = v.selected ->
            v' = [v EXCEPT !.waiting = v.selected, !.details = v.selected] /\ UNCHANGED <<records, threads>>
       [] OTHER ->
            /\ v' = [v EXCEPT !.detailsGen = @ + 1, !.details = v.selected]
            /\ threads' = threads \cup {Thread("details", v.detailsGen + 1, v.selected)}
            /\ UNCHANGED records
  /\ UNCHANGED <<gone, disk, writes, shownKey, resultsInbox, mixed, finished>>

UnloadDetails ==
  /\ Act
  /\ v.selected # NoRun /\ records[v.selected].listed
  /\ records' = Cleared(v.selected)
  /\ v' = [v EXCEPT !.detailsGen = @ + 1, !.waiting = NoRun, !.details = NoRun]
  /\ UNCHANGED <<gone, disk, writes, shownKey, threads, resultsInbox, mixed, finished>>

\* setSelectedSessionId_ and applyLegSelection: another selection of sessions.
ChangeSelection ==
  /\ Act
  /\ v' = [v EXCEPT !.key = 3 - @, !.selected = NoRun, !.detailsGen = @ + 1, !.details = NoRun, !.timer = TRUE]
  /\ records' = Cleared(v.selected)
  /\ UNCHANGED <<gone, disk, writes, shownKey, threads, resultsInbox, mixed, finished>>

DeleteRun ==
  /\ Act
  /\ v.selected # NoRun /\ records[v.selected].listed
  /\ disk' = [disk EXCEPT ![v.selected] = 0] /\ gone' = gone \cup {v.selected}
  /\ v' = Refresh([v EXCEPT !.selected = NoRun])
  /\ threads' = threads \cup Reloader(v)
  /\ UNCHANGED <<writes, records, shownKey, resultsInbox, mixed, finished>>

\* The report of a job: its run becomes the selected one.
JobEnds(r) ==
  /\ Act
  /\ disk[r] # 0
  /\ v' = Refresh([v EXCEPT !.selected = r])
  /\ threads' = threads \cup Reloader(v)
  /\ finished' = TRUE
  /\ UNCHANGED <<gone, disk, writes, records, shownKey, resultsInbox, mixed>>

\* The engine writes the files of a run; a watched file or directory leads
\* to a reload.
EngineWrites(r) ==
  /\ r \notin gone /\ writes < MaxWrites /\ writes' = writes + 1
  /\ disk' = [disk EXCEPT ![r] = writes + 2]
  /\ v' \in {v, [v EXCEPT !.timer = TRUE]}
  /\ UNCHANGED <<gone, acts, records, shownKey, threads, resultsInbox, mixed, finished>>

-----------------------------------------------------------------------------
(* The threads                                                             *)

Listed(t, r) ==
  IF t.records[r].listed /\ t.records[r].stamp = disk[r]
  THEN [listed |-> TRUE, stamp |-> disk[r], points |-> t.records[r].points,
        details |-> t.records[r].details]
  ELSE [listed |-> TRUE, stamp |-> disk[r], points |-> 0, details |-> FALSE]

ReadResults(t) ==
  /\ t \in threads /\ t.what = "results"
  /\ threads' = threads \ {t}
  /\ resultsInbox' = Append(resultsInbox,
       [t EXCEPT !.records = [r \in Runs |-> IF disk[r] # 0 /\ r \in Matching(t.key) THEN Listed(t, r) ELSE Unlisted]])
  /\ UNCHANGED <<gone, disk, writes, acts, v, records, shownKey, mixed, finished>>

\* loadRecord_: the stamps first, the points later.
ReadStamp(t) ==
  /\ t \in threads /\ t.what # "results" /\ ~t.read /\ t.stamp = 0 /\ disk[t.run] # 0
  /\ threads' = (threads \ {t}) \cup {[t EXCEPT !.stamp = disk[t.run]]}
  /\ UNCHANGED <<gone, disk, writes, acts, v, records, shownKey, resultsInbox, mixed, finished>>

ReadPoints(t) ==
  /\ t \in threads /\ t.what # "results" /\ ~t.read /\ (t.stamp # 0 \/ disk[t.run] = 0)
  /\ threads' = (threads \ {t}) \cup {[t EXCEPT !.read = TRUE, !.points = disk[t.run]]}
  /\ UNCHANGED <<gone, disk, writes, acts, v, records, shownKey, resultsInbox, mixed, finished>>

Queue(t) ==
  /\ t \in threads /\ t.read
  /\ threads' = threads \ {t}
  /\ resultsInbox' = Append(resultsInbox, t)
  /\ UNCHANGED <<gone, disk, writes, acts, v, records, shownKey, mixed, finished>>

-----------------------------------------------------------------------------
(* The queued calls                                                        *)

DetailsOnTheirWay ==
  \E t \in threads \cup {resultsInbox[i] : i \in 1..Len(resultsInbox)} : t.what = "details" /\ t.gen = v.detailsGen

\* applyLoadedResults_: the results of another selection are dropped and the
\* reload repeated.
Wanted(m) == m.key = v.key
Repeat(m) == v.pending \/ ~Wanted(m)
ApplyResults ==
  /\ resultsInbox # <<>> /\ Head(resultsInbox).what = "results"
  /\ resultsInbox' = Tail(resultsInbox)
  /\ LET m == Head(resultsInbox)
         listed == {r \in Runs : m.records[r].listed}
         done(w) == [w EXCEPT !.loading = FALSE, !.pending = FALSE]
     IN  IF ~Wanted(m)
         THEN v' = [done(v) EXCEPT !.timer = @ \/ Repeat(m)] /\ UNCHANGED <<records, shownKey, threads, mixed>>
         ELSE /\ records' = m.records /\ shownKey' = m.key
              /\ mixed' = (mixed \/ DetailsOnTheirWay)
              /\ \E s \in IF v.selected \in listed THEN {v.selected}
                          ELSE IF listed = {} THEN {NoRun} ELSE listed :
                   LET w == [done(v) EXCEPT !.selected = s, !.timer = @ \/ Repeat(m)]
                   IN  v' = Preview(w, m.records) /\ threads' = threads \cup Previewer(w, m.records)
  /\ UNCHANGED <<gone, disk, writes, acts, finished>>

ApplyPreview ==
  /\ resultsInbox # <<>> /\ Head(resultsInbox).what = "preview"
  /\ resultsInbox' = Tail(resultsInbox)
  /\ LET m == Head(resultsInbox)
         waits == v.waiting = m.run
     IN  IF m.gen # v.previewGen \/ v.selected # m.run THEN UNCHANGED <<v, records>>
         ELSE IF ~records[m.run].listed THEN v' = [v EXCEPT !.preview = NoRun] /\ UNCHANGED records
         ELSE /\ v' = [v EXCEPT !.preview = NoRun,
                                !.waiting = IF waits THEN NoRun ELSE @, !.details = IF waits THEN NoRun ELSE @]
              /\ records' = [records EXCEPT ![m.run].points = m.points,
                                            ![m.run].stamp = m.stamp,
                                            ![m.run].details = IF waits THEN m.points # 0 ELSE @]
  /\ UNCHANGED <<gone, disk, writes, acts, shownKey, threads, mixed, finished>>

ApplyDetails ==
  /\ resultsInbox # <<>> /\ Head(resultsInbox).what = "details"
  /\ resultsInbox' = Tail(resultsInbox)
  /\ LET m == Head(resultsInbox)
     IN  IF m.gen # v.detailsGen \/ v.selected # m.run THEN UNCHANGED <<v, records>>
         ELSE /\ v' = [v EXCEPT !.details = NoRun]
              /\ records' = IF records[m.run].listed
                            THEN [records EXCEPT ![m.run].points = m.points, ![m.run].details = m.points # 0]
                            ELSE records
  /\ UNCHANGED <<gone, disk, writes, acts, shownKey, threads, mixed, finished>>

-----------------------------------------------------------------------------
ResultsNext ==
  \/ TimerFires \/ LoadDetails \/ UnloadDetails \/ ChangeSelection \/ DeleteRun
  \/ \E r \in Runs : SelectRun(r) \/ JobEnds(r) \/ EngineWrites(r)
  \/ \E t \in threads : ReadResults(t) \/ ReadStamp(t) \/ ReadPoints(t) \/ Queue(t)
  \/ ApplyResults \/ ApplyPreview \/ ApplyDetails
ResultsSpec == ResultsInit /\ [][ResultsNext]_resultsVars

Quiet == threads = {} /\ resultsInbox = <<>> /\ ~v.timer

-----------------------------------------------------------------------------
\* When nothing is on its way, no reload is marked as running, the list is
\* the one of the selected sessions without the deleted runs, and the selected run has
\* its curve:
\* no interleaving of selections, reloads, previews and deletions leaves the
\* viewer waiting for a load that is not coming (refresh, applyLoadedResults_,
\* ensureSelectedPreviewLoaded_).
QuietMeansLoaded ==
  Quiet => /\ ~v.loading /\ shownKey = v.key
           /\ \A r \in gone : ~records[r].listed
           /\ v.selected # NoRun /\ v.selected \notin Sweeps /\ records[v.selected].listed /\ disk[v.selected] # 0
                => records[v.selected].points # 0

\* A curve kept for a record is never older than the stamps it is kept under,
\* so that a later change of the files is noticed: previews that were read
\* before a reload are not applied after it, and stamps are read before
\* points.  (Details that a reload overtakes can break this; mixed.)
CurveNotOlder ==
  ~mixed => \A r \in Runs : records[r].points # 0 => records[r].points >= records[r].stamp

\* When nothing is on its way the selected run is not shown as loading its
\* details, unless the end of a job moved the selection while they loaded.
QuietDetails ==
  Quiet /\ ~finished => v.selected = NoRun \/ v.details # v.selected

\* Details are applied to the run they were asked for and only while it is
\* the selected run: a record that is not selected never gains details.
DetailsOfSelected ==
  \A r \in Runs : records'[r].details /\ ~records[r].details /\ records[r].listed
    => r = v.selected \/ v.loading

=============================================================================
