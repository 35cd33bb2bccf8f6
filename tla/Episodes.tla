------------------------------ MODULE Episodes ------------------------------
(***************************************************************************)
(* Everything that happens to the episodes once the poller has found them: *)
(* the scheduled cycle (requeue, process, retention), the Process, Retry,  *)
(* Queue and Delete requests, the crash of the process, and the clock.     *)
(* APScheduler runs one cycle at a time; request threads, and the sync     *)
(* thread, run alongside it, and nothing but SQLite stands between them.   *)
(***************************************************************************)
EXTENDS Retention, Requeue

CONSTANTS
    JobsOf,      \* JobsOf[t]: the jobs thread t may be given
    DiscoverAs,  \* the statuses the poller inserts new rows with
    RetryFrom,   \* row statuses in which the Retry button gets pressed
    Faults,      \* which of "crash", "mkdir" and "unlink" may happen
    MaxFaults    \* bound on the faults of one behaviour

Jobs == {"cycle", "process", "retry", "queue", "delete"}

ASSUME JobsAssumption == JobsOf \in [Threads -> SUBSET Jobs]
ASSUME DiscoverAssumption == DiscoverAs \subseteq {"baseline", "skipped_short", "pending"}
ASSUME RetryFromAssumption == RetryFrom \subseteq Statuses \ {"absent"}
ASSUME FaultsAssumption == Faults \subseteq {"crash", "mkdir", "unlink"} /\ MaxFaults \in Nat

VARIABLE faults  \* how many there have been

vars == <<baseVars, attempt, retentionVars, cycleLocals, paths, faults>>

Init ==
    /\ EmptyTable
    /\ IdleThreads
    /\ attempt = [t \in Threads |-> 0]
    /\ override = [c \in Channels |-> NoOverride]
    /\ defaultRetention \in Policies
    /\ policy = [t \in Threads |-> override]
    /\ todo = [t \in Threads |-> {}]
    /\ paths = [t \in Threads |-> {}]
    /\ faults = 0

Start(t, j, to) ==
    /\ j \in JobsOf[t]
    /\ Goto(t, "idle", to)
    /\ job' = [job EXCEPT ![t] = j]

\* run_cycle's list_channels: the retention overrides are read here.
StartCycle(t) ==
    /\ Start(t, "cycle", "requeue")
    /\ policy' = [policy EXCEPT ![t] = override]
    /\ UNCHANGED <<table, media, locals, attempt, retentionVars, todo, paths>>

\* POST /process, and a sync once its polling is over.
StartProcess(t) ==
    /\ Start(t, "process", "select")
    /\ UNCHANGED <<table, media, locals, attempt, retentionVars, cycleLocals, paths>>

\* POST .../retry: the row must exist, its status is not looked at.
StartRetry(t) ==
    /\ Start(t, "retry", "retry_write")
    /\ \E v \in Videos :
          /\ status[v] \in RetryFrom
          /\ current' = [current EXCEPT ![t] = v]
    /\ UNCHANGED <<table, media, rows, attempt, retentionVars, cycleLocals, paths>>

QUEUEABLE_STATUSES == {"baseline", "skipped_short", "deleted"}

\* POST .../queue: the status is checked on a row that may be stale by the write.
StartQueue(t) ==
    /\ Start(t, "queue", "retry_write")
    /\ \E v \in Videos :
          /\ status[v] \in QUEUEABLE_STATUSES
          /\ current' = [current EXCEPT ![t] = v]
    /\ UNCHANGED <<table, media, rows, attempt, retentionVars, cycleLocals, paths>>

\* processor.retry_video, after which the request processes what is pending.
RetryVideo(t) ==
    /\ Goto(t, "retry_write", "select")
    /\ SetStatus(current[t], "pending")
    /\ Release(t)
    /\ UNCHANGED <<filePath, recent, retryCount, media, job, rows, attempt,
                   retentionVars, cycleLocals, paths>>

\* POST .../delete: _find_video reads the file_path delete_episode will use.
StartDelete(t) ==
    /\ Start(t, "delete", "delete")
    /\ \E v \in Videos :
          /\ InTable(v)
          /\ current' = [current EXCEPT ![t] = v]
          /\ paths' = [paths EXCEPT ![t] = IF filePath[v] THEN {v} ELSE {}]
    /\ UNCHANGED <<table, media, rows, attempt, retentionVars, cycleLocals>>

Requeue(t) ==
    /\ SelectStaleFailures(t) \/ RequeueStaleFailures(t)
    /\ UNCHANGED <<attempt, retentionVars, cycleLocals, paths>>

ProcessStep(t) == Process(t) /\ UNCHANGED <<retentionVars, cycleLocals, paths>>

JobOver(t) ==
    \/ pc[t] \in {"returned", "raised"}
    \/ pc[t] = "processed" /\ job[t] # "cycle"

ResetThreads(ts) ==
    LET reset(f, value) == [t \in Threads |-> IF t \in ts THEN value ELSE f[t]] IN
    /\ pc' = reset(pc, "idle")
    /\ job' = reset(job, "none")
    /\ rows' = reset(rows, {})
    /\ current' = reset(current, NoVideo)
    /\ attempt' = reset(attempt, 0)
    /\ policy' = reset(policy, [c \in Channels |-> NoOverride])
    /\ todo' = reset(todo, {})
    /\ paths' = reset(paths, {})

\* The job returns, or raises: `finally: conn.close()` in its caller.
EndJob(t) ==
    /\ JobOver(t)
    /\ ResetThreads({t})
    /\ UNCHANGED <<table, media, retentionVars>>

\* The process dies; the database and the files stay as they are, and
\* lifespan changes no row of `videos` when it starts again.
Crash ==
    /\ \E t \in Threads : pc[t] # "idle"
    /\ ResetThreads(Threads)
    /\ UNCHANGED <<table, media, retentionVars>>

\* The rows one commit of the poller inserts, seen from here.
Discover(vs) ==
    /\ \A v \in vs : ~InTable(v)
    /\ \E found \in [vs -> DiscoverAs] :
          status' = [v \in Videos |-> IF v \in vs THEN found[v] ELSE status[v]]
    /\ UNCHANGED <<filePath, recent, retryCount, media, job, pc, locals, attempt,
                   retentionVars, cycleLocals, paths>>

\* LONG_RANGE_RETRY_INTERVAL_HOURS pass since the last attempt.
Age(v) ==
    /\ recent[v]
    /\ recent' = [recent EXCEPT ![v] = FALSE]
    /\ UNCHANGED <<status, filePath, retryCount, media, job, pc, locals, attempt,
                   retentionVars, cycleLocals, paths>>

\* POST .../settings
UpdateChannelRetention ==
    /\ \E c \in Channels, p \in Policies \cup {NoOverride} :
          override' = [override EXCEPT ![c] = p]
    /\ UNCHANGED <<baseVars, attempt, defaultRetention, cycleLocals, paths>>

\* POST /settings/retention
SetDefaultRetention ==
    /\ defaultRetention' \in Policies
    /\ UNCHANGED <<baseVars, attempt, override, cycleLocals, paths>>

\* The steps a thread takes once it has been given a job.
Work(t) ==
    \/ RetryVideo(t)
    \/ Requeue(t)
    \/ ProcessStep(t)
    \/ Retain(t)
    \/ EndJob(t)

StartJob(t) ==
    \/ StartCycle(t)
    \/ StartProcess(t)
    \/ StartRetry(t)
    \/ StartQueue(t)
    \/ StartDelete(t)

Step ==
    \/ \E t \in Threads : StartJob(t) \/ Work(t)
    \/ \E vs \in (SUBSET Videos) \ {{}} : Discover(vs)
    \/ \E v \in Videos : Age(v)
    \/ UpdateChannelRetention
    \/ SetDefaultRetention

CountFault == faults < MaxFaults /\ faults' = faults + 1

\* The faults that hit one thread's job.
JobFault(t) ==
    \/ /\ "mkdir" \in Faults /\ MkdirFails(t)
       /\ UNCHANGED <<retentionVars, cycleLocals, paths>>
    \/ "unlink" \in Faults /\ UnlinkFails(t)

Fault ==
    /\ CountFault
    /\ \/ "crash" \in Faults /\ Crash
       \/ \E t \in Threads : JobFault(t)

Next == (Step /\ UNCHANGED faults) \/ Fault

Spec == Init /\ [][Next]_vars

\* APScheduler starts the cycle again and again, a thread that has a job gets
\* to run, downloads end one way or the other, and time passes.
Fairness ==
    /\ \A t \in Threads : WF_vars(Work(t) /\ UNCHANGED faults)
    /\ \A t \in Threads : "cycle" \in JobsOf[t] => WF_vars(StartCycle(t) /\ UNCHANGED faults)
    /\ \A v \in Videos : WF_vars(Age(v) /\ UNCHANGED faults)

FairSpec == Spec /\ Fairness
=============================================================================
