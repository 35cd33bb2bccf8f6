----------------------------- MODULE VideoTable -----------------------------
(***************************************************************************)
(* The `videos` table (db.py), the media directory, and the program        *)
(* counter and locals every thread that works on them has.                 *)
(*                                                                         *)
(* Each thread opens its own SQLite connection.  A SELECT runs by itself;  *)
(* the first UPDATE or INSERT opens a transaction that lasts until         *)
(* commit().  So one action below is either one SELECT together with the   *)
(* decisions taken on its result, or the writes up to one commit(), and    *)
(* other threads may run between any two of them.                          *)
(***************************************************************************)
EXTENDS Naturals, FiniteSets

CONSTANTS
    Videos,      \* video_id values, the table's primary key
    Channels,    \* slugs of the tracked channels
    Owner,       \* Owner[v]: the channel_slug v's row was inserted with
    Threads,     \* the scheduler's job thread and the request threads
    NoVideo      \* no row in hand

ASSUME OwnerAssumption == Owner \in [Videos -> Channels]
ASSUME NoVideoAssumption == NoVideo \notin Videos
ASSUME ThreadsAssumption == IsFiniteSet(Threads)

VARIABLES
    status,      \* status column; "absent" while there is no row
    filePath,    \* file_path IS NOT NULL
    recent,      \* last_attempt_at lies within LONG_RANGE_RETRY_INTERVAL_HOURS
    retryCount,  \* long_range_retry_count column
    media,       \* the episodes whose mp3 file exists under media_dir
    job,         \* what each thread is running
    pc,          \* where in it the thread is
    rows,        \* result rows the thread's loop has still to handle
    current      \* the row it is handling

table == <<status, filePath, recent, retryCount>>
locals == <<rows, current>>
baseVars == <<table, media, job, pc, locals>>

\* Never downloaded, and not to be unless somebody asks for it.
Parked == {"baseline", "skipped_short", "deleted"}

Statuses == {"absent", "pending", "downloading", "done", "failed"} \cup Parked

InTable(v) == status[v] # "absent"

\* build_channel_feed: the episodes channel c's feed lists.
Feed(c) == {v \in Videos : Owner[v] = c /\ status[v] = "done"}

\* get_media_file has something to send for v's enclosure.
Playable(v) == v \in media

EmptyTable ==
    /\ status = [v \in Videos |-> "absent"]
    /\ filePath = [v \in Videos |-> FALSE]
    /\ recent = [v \in Videos |-> FALSE]
    /\ retryCount = [v \in Videos |-> 0]
    /\ media = {}

IdleThreads ==
    /\ job = [t \in Threads |-> "none"]
    /\ pc = [t \in Threads |-> "idle"]
    /\ rows = [t \in Threads |-> {}]
    /\ current = [t \in Threads |-> NoVideo]

\* Thread t moves from one label to another; the other threads stay put.
Goto(t, from, to) == pc[t] = from /\ pc' = [pc EXCEPT ![t] = to]

SetStatus(v, s) == status' = [status EXCEPT ![v] = s]

\* Keep the rows a SELECT returned for the loop that follows it.
Fetch(t, vs) == rows' = [rows EXCEPT ![t] = vs]

\* Take one row out of the loop's result set.
NextRow(t, v) ==
    /\ rows' = [rows EXCEPT ![t] = @ \ {v}]
    /\ current' = [current EXCEPT ![t] = v]

Release(t) == current' = [current EXCEPT ![t] = NoVideo]
=============================================================================
