---- MODULE ShardSupervisor ----
(***************************************************************************)
(* shard-run: a supervisor spawns one run-preset process per shard, admits *)
(* queued shards as slots, memory and exclusive sessions allow, follows    *)
(* their status files, and on the stop key terminates them: SIGTERM, a     *)
(* deadline, SIGKILL.  Each status file is written by both sides.          *)
(***************************************************************************)
EXTENDS Naturals, FiniteSets, FiniteSetsExt

CONSTANTS
    N,              \* shards 1..N
    MaxActive,      \* maxActiveShards after clamping
    Limit,          \* memoryLimitKb in units of the 512 MiB reserve, or 0
    Gradual,        \* one admission per round (venue multiplex)
    Keyed           \* shards that share an exclusive market data session key

VARIABLES
    shard,      \* ShardProcess: launched, exited, stop, pid, rss and the status in memory
    disk,       \* the status files
    child,      \* the processes: "none", "alive", "ok" (exit 0), "failed" (signal or code)
    wrote,      \* the errors the child itself last wrote and whether that was its final status
    killed,     \* SIGKILL was sent
    at, i

vars == <<shard, disk, child, wrote, killed, at, i>>
Shards == 1..N

\* active: a state of staleActiveState; errs: errors counted
Status(state, errs) == [state |-> state, errs |-> errs]

Init ==
    /\ shard = [s \in Shards |-> [launched |-> FALSE, exited |-> FALSE, stop |-> FALSE, pid |-> FALSE,
                                  rss |-> 0, status |-> Status("pending", 0)]]
    /\ disk = [s \in Shards |-> Status("pending", 0)]
    /\ child = [s \in Shards |-> "none"] /\ wrote = [s \in Shards |-> Status("none", 0)]
    /\ killed = {} /\ at = "admit" /\ i = 1

(***************************************************************************)
(* The child: run-preset.                                                  *)
(***************************************************************************)
ChildWrites(s) ==
    /\ child[s] = "alive" /\ wrote[s].state # "final"
    /\ \E st \in {Status("running", 0), Status("running", 1), Status("done", 0), Status("error", 1)}
                \cup {Status("stopped", e) : e \in IF shard[s].stop THEN 0..1 ELSE {}} :
        /\ disk' = [disk EXCEPT ![s] = st]
        /\ wrote' = [wrote EXCEPT ![s] = Status(IF st.state = "running" THEN "some" ELSE "final", st.errs)]
    /\ UNCHANGED <<shard, child, killed, at, i>>

\* run-preset returns 0 after its final status; before that it can only fail or crash.
ChildEnds(s) ==
    /\ child[s] = "alive"
    /\ child' = [child EXCEPT ![s] = IF wrote[s].state = "final" /\ s \notin killed THEN "ok" ELSE "failed"]
    /\ UNCHANGED <<shard, disk, wrote, killed, at, i>>

(***************************************************************************)
(* Watching.                                                               *)

\* applyShardChildExit
AfterExit(st, ended) ==
    IF ended = "failed" THEN Status("exited", Max({st.errs, 1}))
    ELSE IF st.state = "stopping" THEN [st EXCEPT !.state = "stopped"]
    ELSE IF st.state \in {"pending", "spawned", "running"} THEN Status("exited_incomplete", Max({st.errs, 1}))
    ELSE st

\* reapShard and then refreshShardStatus, for one shard
Watched(s) ==
    LET r == shard[s]
        over == r.pid /\ ~r.exited /\ child[s] # "alive"
        st == AfterExit(disk[s], child[s])
    IN IF over
       THEN /\ shard' = [shard EXCEPT ![s].exited = TRUE, ![s].rss = 0, ![s].status = st]
            /\ disk' = [disk EXCEPT ![s] = st]
       ELSE IF r.exited THEN UNCHANGED <<shard, disk>>
       ELSE \E rss \in IF r.pid THEN 1..2 ELSE {0} :
                /\ shard' = [shard EXCEPT ![s].status = disk[s], ![s].rss = rss]
                /\ UNCHANGED disk

Go(there, k) == at' = there /\ i' = k
Onward(there) == IF i < N THEN Go(at, i + 1) ELSE Go(there, 1)

Watch == at = "watch" /\ Watched(i) /\ Onward("admit") /\ UNCHANGED <<child, wrote, killed>>

(***************************************************************************)
(* Admission: startQueuedShards.                                           *)
(***************************************************************************)
Active == {s \in Shards : shard[s].launched /\ ~shard[s].exited}
Reserved == MapThenSumSet(LAMBDA s : IF shard[s].rss = 0 THEN 1 ELSE shard[s].rss, Active)

\* exclusiveMarketDataSessionConflict
Conflict(s) ==
    s \in Keyed /\ \E t \in Keyed : shard[t].launched /\ ~shard[t].exited /\ ~shard[t].stop

Slot == Cardinality(Active) < MaxActive

\* The shards are visited in order; a round ends early when the memory does not suffice
\* or, with gradual admission, once one was spawned.
OverLimit == Limit # 0 /\ Reserved + 1 > Limit

Admit ==
    /\ at = "admit"
    /\ LET r == shard[i]
           queued == ~r.launched /\ ~r.exited /\ ~r.stop
       IN \/ /\ ~Slot
             /\ Go("key", 1) /\ UNCHANGED <<shard, disk, child>>
          \/ /\ Slot /\ (~queued \/ Conflict(i))
             /\ Onward("key") /\ UNCHANGED <<shard, disk, child>>
          \/ /\ Slot /\ queued /\ ~Conflict(i) /\ OverLimit
             /\ shard' = [shard EXCEPT ![i].status = Status("pending", 0)]
             /\ disk' = [disk EXCEPT ![i] = Status("pending", 0)]
             /\ Go("key", 1) /\ UNCHANGED child
          \/ /\ Slot /\ queued /\ ~Conflict(i) /\ ~OverLimit
             /\ shard' = [shard EXCEPT ![i].launched = TRUE, ![i].pid = TRUE, ![i].status = Status("spawned", 0)]
             /\ child' = [child EXCEPT ![i] = "alive"]
             /\ Go("spawned", i) /\ UNCHANGED disk
          \/ \* fork failed
             /\ Slot /\ queued /\ ~Conflict(i) /\ ~OverLimit
             /\ shard' = [shard EXCEPT ![i].launched = TRUE, ![i].exited = TRUE, ![i].status = Status("spawn_error", 1)]
             /\ Go("spawned", i) /\ UNCHANGED <<disk, child>>
    /\ UNCHANGED <<wrote, killed>>

\* The new child may have written its status before the supervisor writes "spawned".
PersistSpawned ==
    /\ at = "spawned"
    /\ disk' = [disk EXCEPT ![i] = shard[i].status]
    /\ IF Gradual \/ i = N THEN Go("key", 1) ELSE Go("admit", i + 1)
    /\ UNCHANGED <<shard, child, wrote, killed>>

(***************************************************************************)
(* Stopping.                                                               *)
(***************************************************************************)
AllExited == \A s \in Shards : shard[s].exited

NoKey ==
    /\ at = "key"
    /\ IF AllExited THEN Go("done", 1) ELSE Go("watch", 1)
    /\ UNCHANGED <<shard, disk, child, wrote, killed>>

StopKey == at = "key" /\ Go("stop", 1) /\ UNCHANGED <<shard, disk, child, wrote, killed>>

\* stopShard: the status in memory is written over the child's.
StopShard ==
    /\ at = "stop"
    /\ LET r == shard[i]
           st == IF r.launched THEN Status("stopping", r.status.errs) ELSE Status("stopped", r.status.errs)
       IN IF r.exited THEN UNCHANGED <<shard, disk>>
          ELSE /\ shard' = [shard EXCEPT ![i].stop = TRUE, ![i].exited = ~r.launched, ![i].status = st]
               /\ disk' = [disk EXCEPT ![i] = st]
    /\ Onward("wait") /\ UNCHANGED <<child, wrote, killed>>

\* Rounds of reaping until all are gone or 20 seconds are over.
WaitRound == at = "wait" /\ (i = 1 => ~AllExited) /\ Watched(i) /\ i' = (i % N) + 1 /\ UNCHANGED <<at, child, wrote, killed>>

Deadline == at = "wait" /\ i = 1 /\ Go("kill", 1) /\ UNCHANGED <<shard, disk, child, wrote, killed>>

Kill ==
    /\ at = "kill"
    /\ killed' = {s \in Shards : ~shard[s].exited /\ shard[s].launched}
    /\ Go("reap", 1) /\ UNCHANGED <<shard, disk, child, wrote>>

Reap == at = "reap" /\ (i = 1 => ~AllExited) /\ Watched(i) /\ i' = (i % N) + 1 /\ UNCHANGED <<at, child, wrote, killed>>

KeepsUnreaped(s) == shard[s]

\* markKillSentNotReaped
Unreaped(s) ==
    IF shard[s].exited \/ ~shard[s].launched THEN shard[s]
    ELSE [shard[s] EXCEPT !.stop = TRUE, !.exited = TRUE, !.rss = 0,
                          !.status = Status("kill_sent_not_reaped", Max({shard[s].status.errs, 1}))]

\* All are gone, or the two seconds are over.
Mark ==
    /\ at = "reap" /\ i = 1
    /\ shard' = [s \in Shards |-> Unreaped(s)]
    /\ disk' = [s \in Shards |-> IF Unreaped(s) = shard[s] THEN disk[s] ELSE Unreaped(s).status]
    /\ Go("done", 1) /\ UNCHANGED <<child, wrote, killed>>

Ended == at = "done" /\ UNCHANGED vars

Supervise == \/ Watch \/ Admit \/ PersistSpawned \/ NoKey \/ StopShard
             \/ WaitRound \/ Deadline \/ Kill \/ Reap \/ Mark
Next == \/ Supervise \/ StopKey \/ Ended
        \/ \E s \in Shards : ChildWrites(s) \/ ChildEnds(s)
Spec == Init /\ [][Next]_vars

\* The supervisor's loop runs, its deadlines pass, and recordings end; a child that was
\* told to stop is not assumed to obey.
Waiting == at \in {"wait", "reap"} /\ (WaitRound \/ Reap)
RecordingEnds(s) == ~shard[s].stop /\ ChildEnds(s)
FairSpec ==
    /\ Spec /\ WF_vars(Supervise) /\ WF_vars(Waiting)
    /\ SF_vars(Deadline) /\ SF_vars(Mark) /\ SF_vars(NoKey)
    /\ \A s \in Shards : WF_vars(RecordingEnds(s))

(***************************************************************************)
(* Properties.                                                             *)
(***************************************************************************)

\* cleanShardExit
Clean(s) == shard[s].exited /\ shard[s].status.errs = 0 /\ shard[s].status.state \in {"done", "skipped", "stopped"}

Alive == {s \in Shards : child[s] = "alive"}

\* No more processes are alive than the configured number of active shards.
ProcessesBounded == Cardinality(Alive) <= MaxActive

\* Two processes never hold the same exclusive session.
ExclusiveProcesses == Cardinality(Alive \cap Keyed) <= 1

\* A child that crashed, failed or had to be killed is never counted as a clean exit.
CrashIsNotClean == \A s \in Shards : Clean(s) => child[s] \in {"none", "ok"}

\* Errors a child reported in its final status are in the supervisor's verdict, unless
\* the supervisor's own stop wrote over them.
ErrorsKept == \A s \in Shards : Clean(s) /\ ~shard[s].stop => wrote[s].errs = 0

\* When the supervisor returns nothing is left running that was not sent SIGKILL.
NoOrphan == at = "done" => \A s \in Shards : shard[s].exited /\ (child[s] = "alive" => s \in killed)

\* Every shard is started in the end, or the stop key was pressed.
Started(s) == shard[s].launched \/ at = "stop"
EveryShardStarts == \A s \in Shards : <>Started(s)

\* After the stop key the supervisor returns, whatever the children do.
InStop == at = "stop"
Returned == at = "done"
StopReturns == InStop ~> Returned
====
