------------------------------ MODULE Retention ------------------------------
(***************************************************************************)
(* retention.py and the retention part of run_cycle: for every channel the *)
(* cycle listed, delete the done episodes past the newest keep_latest.     *)
(* delete_episode removes the file first and tombstones the row after; the *)
(* admin UI's Delete button calls the same function.                       *)
(***************************************************************************)
EXTENDS Processor

CONSTANTS
    Published,   \* Published[v]: rank of published_at, larger is newer
    Policies,    \* keep_latest values in use; 0 keeps everything
    NoOverride   \* retention_json IS NULL

\* No two episodes of a channel share a published_at: ORDER BY has one answer.
ASSUME PublishedAssumption ==
    /\ Published \in [Videos -> Nat]
    /\ \A v, w \in Videos : Published[v] = Published[w] => v = w
ASSUME PoliciesAssumption == Policies \subseteq Nat /\ Policies # {}
ASSUME NoOverrideAssumption == NoOverride \notin Policies

VARIABLES
    override,         \* channels.retention_json
    defaultRetention, \* settings.default_retention
    policy,           \* policy[t]: the retention t's channel objects carry
    todo,             \* todo[t]: channels t's retention loop has still to handle
    paths             \* paths[t]: fetched rows with a file_path in them

retentionVars == <<override, defaultRetention>>
cycleLocals == <<policy, todo>>

DoneEpisodes(c) == {v \in Videos : Owner[v] = c /\ status[v] = "done"}

NewerDone(v) == {w \in DoneEpisodes(Owner[v]) : Published[w] > Published[v]}

\* Mutants: the slice starts one too late, or one too early.
ExcessLate(c, keep) ==
    IF keep = 0 THEN {}
    ELSE {v \in DoneEpisodes(c) : Cardinality(NewerDone(v)) > keep}

ExcessEarly(c, keep) ==
    IF keep = 0 THEN {}
    ELSE {v \in DoneEpisodes(c) : Cardinality(NewerDone(v)) >= keep - 1}

\* rows[keep_latest:] of the channel's done rows, newest first.
Excess(c, keep) ==
    IF keep = 0 THEN {}
    ELSE {v \in DoneEpisodes(c) : Cardinality(NewerDone(v)) >= keep}

\* get_default_retention, then `channel.retention or default_retention`.
ReadDefaultRetention(t) ==
    /\ job[t] = "cycle"
    /\ Goto(t, "processed", "retain")
    /\ policy' = [policy EXCEPT ![t] =
                     [c \in Channels |-> IF @[c] = NoOverride THEN defaultRetention ELSE @[c]]]
    /\ todo' = [todo EXCEPT ![t] = Channels]
    /\ UNCHANGED <<table, media, job, locals, attempt, retentionVars, paths>>

\* apply_retention for one more channel: its SELECT.
SelectExcess(t) ==
    /\ rows[t] = {}
    /\ Goto(t, "retain", "retain")
    /\ \E c \in todo[t] :
          LET excess == Excess(c, policy[t][c]) IN
          /\ todo' = [todo EXCEPT ![t] = @ \ {c}]
          /\ Fetch(t, excess)
          /\ paths' = [paths EXCEPT ![t] = {v \in excess : filePath[v]}]
    /\ UNCHANGED <<table, media, job, current, attempt, retentionVars, policy>>

\* The loop over to_delete, newest first.
NextExcess(t) ==
    /\ Goto(t, "retain", "delete")
    /\ \E v \in rows[t] :
          /\ \A w \in rows[t] : Published[w] <= Published[v]
          /\ NextRow(t, v)
    /\ UNCHANGED <<table, media, job, attempt, retentionVars, cycleLocals, paths>>

RetentionApplied(t) ==
    /\ rows[t] = {} /\ todo[t] = {}
    /\ Goto(t, "retain", "returned")
    /\ UNCHANGED <<table, media, job, locals, attempt, retentionVars, cycleLocals, paths>>

\* Mutant: unlinks when there is no path.
UnlinkInverted(t) ==
    /\ Goto(t, "delete", "tombstone")
    /\ media' = media \ ({current[t]} \ paths[t])
    /\ UNCHANGED <<table, job, locals, attempt, retentionVars, cycleLocals, paths>>

\* delete_episode, first half: unlink(missing_ok=True) if there was a path.
Unlink(t) ==
    /\ Goto(t, "delete", "tombstone")
    /\ media' = media \ ({current[t]} \cap paths[t])
    /\ UNCHANGED <<table, job, locals, attempt, retentionVars, cycleLocals, paths>>

\* A fault: the OSError is swallowed, the file stays.
UnlinkFails(t) ==
    /\ current[t] \in paths[t]
    /\ Goto(t, "delete", "tombstone")
    /\ UNCHANGED <<table, media, job, locals, attempt, retentionVars, cycleLocals, paths>>

\* Mutant: the commit is forgotten.
TombstoneUncommitted(t) ==
    /\ Goto(t, "tombstone", IF job[t] = "cycle" THEN "retain" ELSE "returned")
    /\ Release(t)
    /\ UNCHANGED <<table, media, job, rows, attempt, retentionVars, cycleLocals, paths>>

\* Mutant: file_path is not cleared.
TombstoneKeepsPath(t) ==
    /\ Goto(t, "tombstone", IF job[t] = "cycle" THEN "retain" ELSE "returned")
    /\ SetStatus(current[t], "deleted")
    /\ Release(t)
    /\ UNCHANGED <<filePath, recent, retryCount, media, job, rows, attempt,
                   retentionVars, cycleLocals, paths>>

\* Mutant: "AND status = 'done'", to spare a row somebody else is working on.
TombstoneIfDone(t) ==
    /\ Goto(t, "tombstone", IF job[t] = "cycle" THEN "retain" ELSE "returned")
    /\ IF status[current[t]] = "done"
       THEN SetStatus(current[t], "deleted") /\ filePath' = [filePath EXCEPT ![current[t]] = FALSE]
       ELSE UNCHANGED <<status, filePath>>
    /\ Release(t)
    /\ UNCHANGED <<recent, retryCount, media, job, rows, attempt,
                   retentionVars, cycleLocals, paths>>

\* delete_episode, second half: the UPDATE and its commit.
Tombstone(t) ==
    /\ Goto(t, "tombstone", IF job[t] = "cycle" THEN "retain" ELSE "returned")
    /\ SetStatus(current[t], "deleted")
    /\ filePath' = [filePath EXCEPT ![current[t]] = FALSE]
    /\ Release(t)
    /\ UNCHANGED <<recent, retryCount, media, job, rows, attempt,
                   retentionVars, cycleLocals, paths>>

Retain(t) ==
    \/ ReadDefaultRetention(t)
    \/ SelectExcess(t)
    \/ NextExcess(t)
    \/ RetentionApplied(t)
    \/ Unlink(t)
    \/ Tombstone(t)
=============================================================================
