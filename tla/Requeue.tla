------------------------------- MODULE Requeue -------------------------------
(***************************************************************************)
(* requeue.py: give 'failed' rows another attempt once a day, at most      *)
(* MAX_LONG_RANGE_RETRIES times.  The rows are chosen by a SELECT of its   *)
(* own; the UPDATEs that follow, in one transaction, look at nothing but   *)
(* the video_id.                                                           *)
(***************************************************************************)
EXTENDS VideoTable

CONSTANT MAX_LONG_RANGE_RETRIES

ASSUME RetriesAssumption == MAX_LONG_RANGE_RETRIES \in Nat \ {0}

\* Mutants of the SELECT's WHERE clause: <= for <, one retry too few, and no
\* condition on the status.
StaleAtCap(v) ==
    /\ status[v] = "failed"
    /\ retryCount[v] <= MAX_LONG_RANGE_RETRIES
    /\ ~recent[v]

StaleOneShort(v) ==
    /\ status[v] = "failed"
    /\ retryCount[v] + 1 < MAX_LONG_RANGE_RETRIES
    /\ ~recent[v]

StaleAnyStatus(v) ==
    /\ InTable(v)
    /\ retryCount[v] < MAX_LONG_RANGE_RETRIES
    /\ ~recent[v]

Stale(v) ==
    /\ status[v] = "failed"
    /\ retryCount[v] < MAX_LONG_RANGE_RETRIES
    /\ ~recent[v]

SelectStaleFailures(t) ==
    /\ Goto(t, "requeue", "requeue_write")
    /\ Fetch(t, {v \in Videos : Stale(v)})
    /\ UNCHANGED <<table, media, job, current>>

RequeueStaleFailures(t) ==
    /\ Goto(t, "requeue_write", "select")
    /\ status' = [v \in Videos |-> IF v \in rows[t] THEN "pending" ELSE status[v]]
    /\ retryCount' = [v \in Videos |->
                         IF v \in rows[t] THEN retryCount[v] + 1 ELSE retryCount[v]]
    /\ Fetch(t, {})
    /\ UNCHANGED <<filePath, recent, media, job, current>>
=============================================================================
