---- MODULE RecorderRuns ----
(***************************************************************************)
(* Three machines: the loop that runs the jobs of a preset (Init, Next),   *)
(* the plan of their starts (PlanInit, PlanNext), and the sweep of dead    *)
(* sessions (SweepInit, SweepNext).                                        *)
(*                                                                         *)
(* The job loop shared by run-preset and the TUI's run screen.  Each job is *)
(* started by a worker of its own (std::async), watched by the loop, and   *)
(* finalized; its coordinator captures in a thread of its own.  The loop   *)
(* visits the jobs one by one, so a capture may end, or a worker finish,   *)
(* between the visits.                                                     *)
(***************************************************************************)
EXTENDS FiniteSets, Integers, Sequences, SequencesExt

CONSTANTS
    N,              \* jobs 1..N, in the order of the plan
    MaxActive,      \* maxActiveJobs after clamping
    Wave,           \* launchWaveSize after clamping
    Exclusive,      \* jobs that share one exclusive market data session key
    Tui             \* TRUE for the TUI's loop, FALSE for run-preset

VARIABLES
    jobOf,        \* the RunningJob records
    worker,     \* start workers: "none", "busy", or the outcome waiting in the future
    capture,    \* coordinators: [thread, live, rows, closed]
    loopAt, visited,      \* where the loop is, and on which job
    launched,   \* launchedThisTick
    quit        \* an interrupt or the quit key

vars == <<jobOf, worker, capture, loopAt, visited, launched, quit>>
Jobs == 1..N

NewJob == [launched |-> FALSE, starting |-> FALSE, running |-> FALSE, stop |-> FALSE,
           finalized |-> FALSE, made |-> FALSE, status |-> "pending", rows |-> FALSE, error |-> FALSE]
NoCapture == [thread |-> FALSE, live |-> FALSE, rows |-> FALSE, closed |-> FALSE]

Init ==
    \* run-preset asks for the available channels when it plans, the TUI when it starts a job
    /\ jobOf \in [Jobs -> {NewJob} \cup {k \in {[NewJob EXCEPT !.status = "skipped", !.finalized = TRUE]} : ~Tui}]
    /\ worker = [j \in Jobs |-> "none"] /\ capture = [j \in Jobs |-> NoCapture]
    /\ loopAt = "collect" /\ visited = 1 /\ launched = 0 /\ quit = FALSE

(***************************************************************************)
(* Workers and captures.                                                   *)
(***************************************************************************)
\* Preflight passed: the session is open and a channel captures while others start.
WorkerOpens(j) ==
    /\ worker[j] \in {"busy", "opened"} /\ ~capture[j].thread
    /\ capture' = [capture EXCEPT ![j].thread = TRUE, ![j].live = TRUE]
    /\ worker' = [worker EXCEPT ![j] = "opened"]
    /\ UNCHANGED <<jobOf, loopAt, visited, launched, quit>>

\* The future is ready.  running is what the worker saw last: the capture may end
\* before the loop looks.
Outcomes(j) ==
    (IF capture[j].live THEN {"running", "warned"} ELSE {"idle"})
    \cup (IF worker[j] = "opened" THEN {} ELSE {"refused", IF Tui THEN "skipped" ELSE "threw"})

WorkerEnds(j) ==
    /\ worker[j] \in {"busy", "opened"}
    /\ \E o \in Outcomes(j) : worker' = [worker EXCEPT ![j] = o]
    /\ UNCHANGED <<jobOf, capture, loopAt, visited, launched, quit>>

Row(j) ==
    /\ capture[j].thread /\ ~capture[j].rows
    /\ capture' = [capture EXCEPT ![j].rows = TRUE]
    /\ UNCHANGED <<jobOf, worker, loopAt, visited, launched, quit>>

\* The manager thread ends: its owner failed, or it saw the stop.
CaptureEnds(j) ==
    /\ capture[j].thread
    /\ capture' = [capture EXCEPT ![j].thread = FALSE, ![j].live = FALSE]
    /\ UNCHANGED <<jobOf, worker, loopAt, visited, launched, quit>>

(***************************************************************************)
(* Stopping and completing a job.                                          *)
(***************************************************************************)
\* requestStopJob, for a job with a coordinator, without one, or still starting
StopRequested(r) ==
    IF r.finalized \/ r.stop THEN r
    ELSE IF r.starting THEN [r EXCEPT !.stop = TRUE, !.status = "stopping"]
    ELSE IF ~r.made THEN [r EXCEPT !.stop = TRUE, !.running = FALSE, !.finalized = TRUE,
                                   !.status = IF Tui /\ @ # "pending" THEN @ ELSE "stopped"]
    ELSE [r EXCEPT !.stop = TRUE, !.running = FALSE, !.status = "stopping"]

\* The channels' running flags are cleared at once; the thread sees the stop later.
Quieted(c, before) == IF before.finalized \/ before.stop \/ before.starting \/ ~before.made
                      THEN c ELSE [c EXCEPT !.live = FALSE]

\* What the worker made of the job; an exception leaves only the mark that it failed.
Result(j) ==
    LET o == worker[j]
    IN CASE o = "refused" -> [NewJob EXCEPT !.launched = TRUE, !.finalized = TRUE, !.error = TRUE,
                                            !.status = "preflight_failed"]
         [] o = "skipped" -> [NewJob EXCEPT !.finalized = TRUE, !.status = "skipped"]
         [] o = "threw" -> [jobOf[j] EXCEPT !.starting = FALSE, !.finalized = TRUE, !.error = TRUE,
                                          !.status = "error"]
         [] OTHER -> [NewJob EXCEPT !.launched = TRUE, !.made = TRUE, !.running = o # "idle",
                                    !.error = o # "running", !.status = IF o = "idle" THEN "error" ELSE "running"]

\* completeStartJobIfReady, waitForStartJob: a stop asked for meanwhile is made now.
Completed(j) == IF jobOf[j].stop THEN StopRequested(Result(j)) ELSE Result(j)

Ready(j) == jobOf[j].starting /\ worker[j] \notin {"none", "busy", "opened"}

Collected(js) ==
    /\ jobOf' = [j \in Jobs |-> IF j \in js THEN Completed(j) ELSE jobOf[j]]
    /\ capture' = [j \in Jobs |-> IF j \in js /\ jobOf[j].stop THEN Quieted(capture[j], Result(j)) ELSE capture[j]]
    /\ worker' = [j \in Jobs |-> IF j \in js THEN "none" ELSE worker[j]]

(***************************************************************************)
(* The loop.                                                               *)
(***************************************************************************)
Go(there, k) == loopAt' = there /\ visited' = k
\* The next job of this pass, or the next pass.
Onward(there) == IF visited < N THEN Go(loopAt, visited + 1) ELSE Go(there, 1)

Collect ==
    /\ loopAt = "collect"
    /\ IF quit THEN Go("stopping", 1) /\ UNCHANGED <<jobOf, worker, capture>>
       ELSE Collected({j \in Jobs : Ready(j)}) /\ Go("launch", 1)
    /\ launched' = 0 /\ UNCHANGED quit

ActiveSlots == Cardinality({j \in Jobs : ~jobOf[j].finalized /\ (jobOf[j].starting \/ jobOf[j].running)})

\* exclusiveMarketDataSessionBlocked
Blocked(j) ==
    /\ j \in Exclusive
    /\ \E k \in Exclusive \ {j} : ~jobOf[k].finalized /\ (jobOf[k].starting \/ jobOf[k].running)

RoomToLaunch == launched < Wave /\ ActiveSlots < MaxActive

Launch ==
    /\ loopAt = "launch"
    /\ \E due \in BOOLEAN :
        IF due /\ RoomToLaunch /\ ~jobOf[visited].launched /\ ~jobOf[visited].finalized /\ ~jobOf[visited].starting /\ ~Blocked(visited)
        THEN /\ jobOf' = [jobOf EXCEPT ![visited].starting = TRUE, ![visited].launched = ~Tui, ![visited].status = "starting"]
             /\ worker' = [worker EXCEPT ![visited] = "busy"]
             /\ launched' = launched + 1
        ELSE UNCHANGED <<jobOf, worker, launched>>
    /\ Onward("watch") /\ UNCHANGED <<capture, quit>>

\* finalizeJob reads the rows and then finalizes the session (okay or not), which joins
\* the capture.
Finalized(r, c, okay) ==
    LET stopped == StopRequested(r)
    IN IF r.finalized THEN r
       ELSE IF ~r.made
       THEN [r EXCEPT !.running = FALSE, !.finalized = TRUE,
                      !.status = IF @ # "pending" THEN @ ELSE IF r.stop THEN "stopped" ELSE "skipped"]
       ELSE [stopped EXCEPT !.running = FALSE, !.finalized = TRUE, !.rows = c.rows,
                            !.error = @ \/ ~okay \/ ~c.rows,
                            !.status = IF ~okay THEN "error" ELSE IF ~c.rows THEN "failed_empty"
                                       ELSE IF r.error THEN "done_warn" ELSE "done"]

\* The capture after it was joined; late rows came after they were counted.
Joined(r, c, late) ==
    IF r.finalized \/ ~r.made THEN c
    ELSE [thread |-> FALSE, live |-> FALSE, rows |-> c.rows \/ (late /\ c.thread), closed |-> TRUE]

\* One visit: a capture without rows for too long (expired) is finalized as dead, one
\* that is over is finalized, one whose time is up is stopped.
Watch ==
    /\ loopAt = "watch"
    /\ LET r == jobOf[visited]
           c == capture[visited]
           seen == [r EXCEPT !.running = @ /\ c.live]
       IN \E expired, elapsed, late, okay \in BOOLEAN :
            IF ~r.launched \/ r.starting \/ r.finalized THEN UNCHANGED <<jobOf, capture>>
            ELSE IF r.made /\ ~c.rows /\ expired
            THEN /\ jobOf' = [jobOf EXCEPT ![visited] = [Finalized(r, c, okay) EXCEPT !.status = "dead", !.error = TRUE]]
                 /\ capture' = [capture EXCEPT ![visited] = Joined(r, c, late)]
            ELSE IF ~seen.running /\ ~c.live
            THEN /\ jobOf' = [jobOf EXCEPT ![visited] = Finalized(seen, c, okay)]
                 /\ capture' = [capture EXCEPT ![visited] = Joined(r, c, late)]
            ELSE /\ jobOf' = [jobOf EXCEPT ![visited] = IF seen.running /\ elapsed THEN StopRequested(seen) ELSE seen]
                 /\ capture' = [capture EXCEPT ![visited] = IF seen.running /\ elapsed THEN Quieted(c, seen) ELSE c]
    /\ Onward("keys") /\ UNCHANGED <<worker, launched, quit>>

\* run-preset ends when all is finalized; the TUI goes on until it is told to quit.
Keys ==
    /\ loopAt = "keys"
    /\ IF ~Tui /\ \A j \in Jobs : jobOf[j].finalized THEN Go("stopping", 1) ELSE Go("collect", 1)
    /\ UNCHANGED <<jobOf, worker, capture, launched, quit>>

StopKey(j) ==
    /\ Tui /\ loopAt = "keys"
    /\ jobOf' = [jobOf EXCEPT ![j] = StopRequested(@)]
    /\ capture' = [capture EXCEPT ![j] = Quieted(@, jobOf[j])]
    /\ Go("collect", 1) /\ UNCHANGED <<worker, launched, quit>>

Quit == ~quit /\ quit' = TRUE /\ UNCHANGED <<jobOf, worker, capture, loopAt, visited, launched>>

Stopping ==
    /\ loopAt = "stopping"
    /\ jobOf' = [j \in Jobs |-> StopRequested(jobOf[j])]
    /\ capture' = [j \in Jobs |-> Quieted(capture[j], jobOf[j])]
    /\ Go("settle", 1) /\ UNCHANGED <<worker, launched, quit>>

\* The TUI waits for every start; run-preset takes those that are ready and gives the
\* others up.
Settle ==
    /\ loopAt = "settle"
    /\ Tui => \A j \in Jobs : jobOf[j].starting => Ready(j)
    /\ LET ready == {j \in Jobs : Ready(j)}
       IN /\ jobOf' = [j \in Jobs |->
                        IF j \in ready THEN Completed(j)
                        ELSE IF jobOf[j].starting
                        THEN [jobOf[j] EXCEPT !.stop = TRUE, !.starting = FALSE, !.running = FALSE,
                                            !.finalized = TRUE, !.status = "stopped_starting", !.error = TRUE]
                        ELSE jobOf[j]]
          /\ capture' = [j \in Jobs |-> IF j \in ready /\ jobOf[j].stop THEN Quieted(capture[j], Result(j)) ELSE capture[j]]
          /\ worker' = [j \in Jobs |-> IF j \in ready THEN "none" ELSE worker[j]]
    /\ Go("close", 1) /\ UNCHANGED <<launched, quit>>

Close ==
    /\ loopAt = "close"
    /\ \E late, okay \in BOOLEAN :
        /\ jobOf' = [jobOf EXCEPT ![visited] = Finalized(@, capture[visited], okay)]
        /\ capture' = [capture EXCEPT ![visited] = Joined(jobOf[visited], @, late)]
    /\ Onward("done") /\ UNCHANGED <<worker, launched, quit>>

IsError(status) == status \in {"error", "done_warn", "dead", "failed_empty", "preflight_failed", "stopped_starting"}

\* The state run-preset leaves in its status file.
FinalState ==
    IF quit THEN "stopped"
    ELSE IF \A j \in Jobs : jobOf[j].status = "skipped" THEN "skipped"
    ELSE IF \E j \in Jobs : IsError(jobOf[j].status) THEN "error" ELSE "done"

Ended == loopAt = "done" /\ UNCHANGED vars

Loop == Collect \/ Launch \/ Watch \/ Keys \/ (\E j \in Jobs : StopKey(j)) \/ Stopping \/ Settle \/ Close
Next == \/ Loop \/ Quit \/ Ended
        \/ \E j \in Jobs : WorkerOpens(j) \/ WorkerEnds(j) \/ Row(j) \/ CaptureEnds(j)
Spec == Init /\ [][Next]_vars

\* The loop runs on, workers finish, a due job is launched, and captures end or their
\* time is up.
LaunchOf(j) == Launch /\ jobOf'[j].starting
FairSpec ==
    /\ Spec /\ WF_vars(Loop)
    /\ \A j \in Jobs : /\ WF_vars(WorkerEnds(j)) /\ WF_vars(CaptureEnds(j))
                       /\ SF_vars(LaunchOf(j))

(***************************************************************************)
(* Properties.                                                             *)
(***************************************************************************)

\* A job whose stop was asked for, even while its start was under way, is never running
\* once that start is over.
StopSticks == \A j \in Jobs : jobOf[j].stop /\ ~jobOf'[j].starting => ~jobOf'[j].running

\* Captures nobody asked to stop never outnumber the active slots: what the loop counts
\* as active is what is really capturing.
CapturesWithinSlots ==
    loopAt # "done" =>
        Cardinality({j \in Jobs : capture[j].live /\ jobOf[j].status # "stopped_starting"}) <= MaxActive

\* Jobs that need the same exclusive session never capture at the same time, unless the
\* first was told to stop.
ExclusiveHeld ==
    \A j, k \in Exclusive : (j # k /\ loopAt # "done" /\ capture[j].live) => ~capture[k].live

\* When the program is over every session was finalized, except a start that run-preset
\* gave up, and that one is reported as such.
AllClosed ==
    loopAt = "done" =>
        \A j \in Jobs : /\ jobOf[j].finalized
                        /\ jobOf[j].made => capture[j].closed
                        /\ capture[j].thread => ~Tui /\ jobOf[j].status = "stopped_starting" /\ jobOf[j].error

\* A job is called done only for a session that was closed and has rows.
DoneMeansRecorded ==
    \A j \in Jobs : jobOf[j].status \in {"done", "done_warn"} => capture[j].closed /\ capture[j].rows

\* A run reported as done left no session empty, failed or half-captured behind.
DoneReport ==
    (loopAt = "done" /\ FinalState = "done") =>
        \A j \in Jobs : jobOf[j].status = "skipped" \/ (capture[j].closed /\ capture[j].rows /\ ~jobOf[j].error)

\* Every job is finalized in the end.
JobOver(j) == jobOf[j].finalized
EveryJobEnds == \A j \in Jobs : <>JobOver(j)

-----------------------------------------------------------------------------
(***************************************************************************)
(* The launch plan of a preset: which jobs run, and when each is started,  *)
(* so that starts come in waves and two starts on one exchange keep their  *)
(* distance.  One step schedules one job, as scheduleRunnableJobs does.    *)
(***************************************************************************)

CONSTANTS
    Exchanges,      \* exchange names
    Channels,       \* channels a job may select
    MaxJobs,        \* bound: jobs of a preset
    Waves, Staggers, Cooldowns  \* settings tried: wave size, stagger, same-exchange cooldown

VARIABLES
    preset,     \* the jobs: exchange, channels selected, channels available
    setting,    \* [wave, stagger, cooldown] after clamping
    runnable,   \* indices not scheduled yet
    plan        \* scheduled jobs in order: [job, start]

planVars == <<preset, setting, runnable, plan>>

\* Channels that are not available are dropped; a job left with none is skipped.
Kept(job) == job.selected \cap job.available
Runs(job) == Kept(job) # {}

PlanJobs == [exchange : Exchanges, selected : SUBSET Channels, available : {Channels, {}}]

PlanInit ==
    /\ preset \in UNION {[1..n -> PlanJobs] : n \in 0..MaxJobs}
    /\ setting \in [wave : Waves, stagger : Staggers, cooldown : Cooldowns]
    /\ runnable = {i \in DOMAIN preset : Runs(preset[i])}
    /\ plan = <<>>

StartsOn(x) == {k \in DOMAIN plan : preset[plan[k].job].exchange = x}

\* earliestStartMs: the job's wave, and the cooldown after the last start on its exchange
Earliest(i) ==
    LET wave == (Len(plan) \div setting.wave) * setting.stagger
        before == StartsOn(preset[i].exchange)
    IN IF before = {} THEN wave
       ELSE LET last == CHOOSE k \in before : \A m \in before : m <= k
            IN Max({wave, plan[last].start + setting.cooldown})

\* The earliest start wins, and of equals the first of the preset.
Best(i) ==
    /\ i \in runnable
    /\ \A j \in runnable : Earliest(i) < Earliest(j) \/ (Earliest(i) = Earliest(j) /\ i <= j)

\* scheduleRunnableJobs
Schedule ==
    \E i \in runnable :
        /\ Best(i)
        /\ plan' = Append(plan, [job |-> i, start |-> Earliest(i)])
        /\ runnable' = runnable \ {i}
        /\ UNCHANGED <<preset, setting>>

\* The plan is complete: skipped jobs follow, without a start.
Done == runnable = {} /\ UNCHANGED planVars

PlanNext == Schedule \/ Done
PlanSpec == PlanInit /\ [][PlanNext]_planVars

\* Starts never go back in time, so the order of the plan is the order of launching.
StartsAscend == \A k \in 1..Len(plan) - 1 : plan[k].start <= plan[k + 1].start

\* Two starts on one exchange are at least the cooldown apart, however the waves fall.
CooldownKept ==
    \A k, m \in DOMAIN plan :
        (k < m /\ preset[plan[k].job].exchange = preset[plan[m].job].exchange)
            => plan[m].start >= plan[k].start + setting.cooldown

\* Before the n-th stagger interval is over no more than n waves of jobs are started.
WavesBounded ==
    setting.stagger > 0 =>
        \A n \in 1..MaxJobs :
            Cardinality({k \in DOMAIN plan : plan[k].start < n * setting.stagger}) <= n * setting.wave

\* No start is later than its wave and cooldowns demand: the plan never idles while
\* a job of another exchange could start.
NeverIdles ==
    \A k \in DOMAIN plan :
        LET wave == ((k - 1) \div setting.wave) * setting.stagger
        IN plan[k].start > wave =>
            \E m \in 1..k - 1 : /\ preset[plan[m].job].exchange = preset[plan[k].job].exchange
                                /\ plan[k].start = plan[m].start + setting.cooldown

-----------------------------------------------------------------------------
(***************************************************************************)
(* The TUI removes sessions that recorded nothing: the whole output root   *)
(* before a run, the run's groups every half minute.  A session belongs to *)
(* a recorder, of this process or another, that makes its directory, writes *)
(* its manifest, records rows and rewrites the manifest now and then; the  *)
(* sweep knows of the rows only what the manifest on disk says.            *)
(***************************************************************************)

CONSTANTS Sessions,
          Named,        \* those whose directory name looks like a session's
          Ttl,          \* kDeadZeroRowSessionTtl
          MaxFails      \* removals that fail

VARIABLES
    dir,        \* [here, live, manifest, rows, age, quiet]: quiet is the age of the last change of its entries
    group,      \* the group directory exists
    sweep,      \* [kind, at, orphans, sessions, now, doomed]
    fails,
    lateRows        \* ghost: the first row is newer than the manifest last judged or on disk

sweepVars == <<dir, group, sweep, fails, lateRows>>

NoDir == [here |-> FALSE, live |-> FALSE, manifest |-> "none", rows |-> FALSE, age |-> 0, quiet |-> 0]
Idle == [kind |-> "none", at |-> "idle", orphans |-> {}, sessions |-> {}, now |-> [s \in Sessions |-> 0], doomed |-> {}]

SweepInit == /\ dir = [s \in Sessions |-> NoDir] /\ group = FALSE /\ sweep = Idle /\ fails = 0 /\ lateRows = {}

Here == {s \in Sessions : dir[s].here}

(***************************************************************************)
(* The recorders.                                                          *)
(***************************************************************************)
Make(s) ==
    /\ dir[s] = NoDir
    /\ dir' = [dir EXCEPT ![s].here = TRUE, ![s].live = TRUE] /\ group' = TRUE
    /\ UNCHANGED <<sweep, fails, lateRows>>

\* at the start, every few seconds and at the end; fails once the directory is gone
WriteManifest(s) ==
    /\ dir[s].live /\ dir[s].here
    /\ dir' = [dir EXCEPT ![s].manifest = IF dir[s].rows THEN "rows" ELSE "empty", ![s].quiet = 0]
    /\ lateRows' = IF s \in sweep.doomed THEN lateRows ELSE lateRows \ {s}
    /\ UNCHANGED <<group, sweep, fails>>

\* rows follow the first manifest, which a failed removal may have taken
SweepRow(s) ==
    /\ dir[s].live /\ dir[s].here /\ ~dir[s].rows /\ (dir[s].manifest # "none" \/ fails > 0)
    /\ dir' = [dir EXCEPT ![s].rows = TRUE] /\ lateRows' = lateRows \cup {s}
    /\ UNCHANGED <<group, sweep, fails>>

\* the capture ends, with its last manifest written before, or the process is killed
End(s) == dir[s].live /\ dir' = [dir EXCEPT ![s].live = FALSE] /\ UNCHANGED <<group, sweep, fails, lateRows>>

Older(n) == IF n < Ttl THEN n + 1 ELSE n
Tick ==
    /\ \E s \in Here : dir[s].quiet < Ttl
    /\ dir' = [s \in Sessions |-> IF dir[s].here THEN [dir[s] EXCEPT !.age = Older(@), !.quiet = Older(@)] ELSE dir[s]]
    /\ UNCHANGED <<group, sweep, fails, lateRows>>

(***************************************************************************)
(* The sweep.                                                              *)
(***************************************************************************)
\* sweepDeadZeroRowSessions lists the root first; sweepDeadZeroRowSessionsInGroup takes the
\* entries of a group as they come.  Both take the time before they look at a manifest.
SweepBegin(kind) ==
    /\ sweep.at = "idle" /\ group
    /\ sweep' = [kind |-> kind, at |-> "visit", now |-> [s \in Sessions |-> dir[s].age], doomed |-> {},
                 orphans |-> IF kind = "root" THEN Here \cap Named ELSE Here,
                 sessions |-> IF kind = "root" THEN {s \in Here : dir[s].manifest # "none"} ELSE {}]
    /\ UNCHANGED <<dir, group, fails, lateRows>>

\* removeOrphanSessionDirIfDead
DeadOrphan(s) ==
    s \in Named /\ dir[s].here /\ dir[s].manifest = "none" /\ dir[s].quiet >= Ttl /\ ~dir[s].rows

\* deadZeroRowManifest of a manifest that can be read
DeadSession(s) == dir[s].here /\ dir[s].manifest = "empty" /\ sweep.now[s] >= Ttl

\* in a group a directory that is no dead orphan is at once looked at as a session
VisitOrphan(s) ==
    /\ sweep.at = "visit" /\ s \in sweep.orphans
    /\ LET dead == DeadOrphan(s) \/ (sweep.kind = "group" /\ DeadSession(s))
       IN sweep' = [sweep EXCEPT !.orphans = @ \ {s}, !.doomed = IF dead THEN {s} ELSE {}, !.at = IF dead THEN "remove" ELSE @]
    /\ UNCHANGED <<dir, group, fails, lateRows>>

VisitSession(s) ==
    /\ sweep.at = "visit" /\ sweep.orphans = {} /\ s \in sweep.sessions
    /\ LET dead == DeadSession(s)
       IN sweep' = [sweep EXCEPT !.sessions = @ \ {s}, !.doomed = IF dead THEN {s} ELSE {}, !.at = IF dead THEN "remove" ELSE @]
    /\ UNCHANGED <<dir, group, fails, lateRows>>

\* after a removal the root's sweep looks at the group; a group's sweep does so at its end
Removed(s) ==
    /\ sweep.at = "remove" /\ s \in sweep.doomed
    /\ dir' = [dir EXCEPT ![s].here = FALSE]
    /\ sweep' = [sweep EXCEPT !.doomed = {}, !.at = IF sweep.kind = "root" THEN "group" ELSE "visit"]
    /\ UNCHANGED <<group, fails, lateRows>>

\* remove_all fails, before or after it has removed the manifest
RemoveFails(s) ==
    /\ sweep.at = "remove" /\ s \in sweep.doomed /\ fails < MaxFails /\ fails' = fails + 1
    /\ \E m \in {dir[s].manifest, "none"} :
         dir' = [dir EXCEPT ![s].manifest = m, ![s].quiet = IF m = dir[s].manifest THEN @ ELSE 0]
    /\ sweep' = [sweep EXCEPT !.doomed = {}, !.at = "visit"]
    /\ UNCHANGED <<group, lateRows>>

VisitsEnd ==
    /\ sweep.at = "visit" /\ sweep.orphans = {} /\ sweep.sessions = {}
    /\ sweep' = IF sweep.kind = "group" THEN [sweep EXCEPT !.at = "group"] ELSE Idle
    /\ UNCHANGED <<dir, group, fails, lateRows>>

After == IF sweep.kind = "root" THEN [sweep EXCEPT !.at = "visit"] ELSE Idle

\* removeGroupIfEmpty: looks whether the group is empty, and removes it if it still is
LookAtGroup ==
    /\ sweep.at = "group"
    /\ sweep' = IF group /\ Here = {} THEN [sweep EXCEPT !.at = "empty"] ELSE After
    /\ UNCHANGED <<dir, group, fails, lateRows>>

RemoveGroup ==
    /\ sweep.at = "empty"
    /\ group' = (group /\ Here # {})
    /\ sweep' = After /\ UNCHANGED <<dir, fails, lateRows>>

Sweeping == \/ \E s \in Sessions : VisitOrphan(s) \/ VisitSession(s) \/ Removed(s)
            \/ VisitsEnd \/ LookAtGroup \/ RemoveGroup

SweepNext == \/ \E s \in Sessions : Make(s) \/ WriteManifest(s) \/ SweepRow(s) \/ End(s) \/ RemoveFails(s)
             \/ Tick \/ Sweeping \/ \E kind \in {"root", "group"} : SweepBegin(kind)

\* the loop of the run screen sweeps its groups again and again; time passes
Fairness == WF_sweepVars(Sweeping) /\ WF_sweepVars(SweepBegin("group")) /\ WF_sweepVars(Tick)
SweepSpec == SweepInit /\ [][SweepNext]_sweepVars /\ Fairness

(***************************************************************************)
(* Properties.                                                             *)
(***************************************************************************)
\* A sweep removes a session that has rows only if the first of them came after the manifest
\* the sweep judged it by: rows a manifest has counted are never removed.  (A first row that
\* comes in the seconds between two manifests, of a session old enough, is removed with it.)
CountedRowsKept == \A s \in Sessions : dir[s].here /\ ~dir'[s].here /\ dir[s].rows => s \in lateRows

\* No session younger than the time to live is removed, whichever path finds it and however
\* long the sweep takes: a recorder that is just starting keeps its directory.
YoungKept == \A s \in Sessions : dir[s].here /\ ~dir'[s].here => dir[s].age >= Ttl

\* A session that ended without rows does not stay: some later sweep removes it, also after
\* removals that failed half way.
Dead(s) == dir[s].here /\ ~dir[s].live /\ ~dir[s].rows
Gone(s) == ~dir[s].here
DeadGo == \A s \in Named : Dead(s) ~> Gone(s)

=============================================================================
