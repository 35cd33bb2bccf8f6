-------------------------- MODULE EpisodeProperties --------------------------
(***************************************************************************)
(* What the episode pipeline of module Episodes promises.                  *)
(***************************************************************************)
EXTENDS Episodes

Labels == {"idle", "requeue", "requeue_write", "retry_write",
           "select", "row", "download", "failed", "stat", "finish", "processed",
           "retain", "delete", "tombstone", "returned", "raised"}

(* Type correctness of the table, the files and the threads' locals.       *)
TypeOK ==
    /\ status \in [Videos -> Statuses]
    /\ filePath \in [Videos -> BOOLEAN]
    /\ recent \in [Videos -> BOOLEAN]
    /\ retryCount \in [Videos -> Nat]
    /\ media \subseteq Videos
    /\ job \in [Threads -> Jobs \cup {"none"}]
    /\ pc \in [Threads -> Labels]
    /\ rows \in [Threads -> SUBSET Videos]
    /\ current \in [Threads -> Videos \cup {NoVideo}]
    /\ attempt \in [Threads -> 0..MAX_DOWNLOAD_ATTEMPTS]
    /\ override \in [Channels -> Policies \cup {NoOverride}]
    /\ defaultRetention \in Policies
    /\ policy \in [Threads -> [Channels -> Policies \cup {NoOverride}]]
    /\ todo \in [Threads -> SUBSET Channels]
    /\ paths \in [Threads -> SUBSET Videos]
    /\ faults \in 0..MaxFaults

-----------------------------------------------------------------------------
(* Properties that hold whatever the threads' interleaving.                *)

\* Thread t is going to write v's status.
WillSettle(t, v) ==
    /\ current[t] = v
    /\ \/ pc[t] \in {"download", "failed", "finish", "tombstone"}
       \/ pc[t] = "stat" /\ v \in media

(* No row is left 'downloading' behind: nothing selects that status again, *)
(* so while a row has it some thread must be on its way to overwrite it,   *)
(* even when deletions pull the file away under a download.                *)
DownloadingIsOwned ==
    \A v \in Videos : status[v] = "downloading" => \E t \in Threads : WillSettle(t, v)

(* A row that the feed serves has a file_path, and a row that was never    *)
(* downloaded or was tombstoned has none, so Delete and retention always   *)
(* know the file of the episode they remove.                               *)
RowPathSound ==
    \A v \in Videos :
        /\ status[v] = "done" => filePath[v]
        /\ filePath[v] => status[v] \in {"pending", "downloading", "done", "failed"}

\* Cycles that have chosen v for another attempt and have not written it yet.
Requeuing(v) == {t \in Threads : pc[t] = "requeue_write" /\ v \in rows[t]}

\* The threads that may run cycles: the scheduler's, and one per open POST /run.
CycleThreads == {t \in Threads : "cycle" \in JobsOf[t]}

(* Overlapping cycles can overshoot MAX_LONG_RANGE_RETRIES, but only by    *)
(* one for every further cycle running at the same time.                   *)
RetryOvershootBounded ==
    \A v \in Videos :
        retryCount[v] + Cardinality(Requeuing(v))
            < MAX_LONG_RANGE_RETRIES + Cardinality(CycleThreads)

-----------------------------------------------------------------------------
(* Properties of jobs that run one after the other.                        *)

(* requeue.py's cap: no row is requeued more than MAX_LONG_RANGE_RETRIES   *)
(* times by the cycle.                                                     *)
RetriesCapped == \A v \in Videos : retryCount[v] <= MAX_LONG_RANGE_RETRIES

(* A deleted episode, and one that was never meant to be downloaded,       *)
(* returns to the queue only when somebody asks for that very episode.     *)
ParkedStaysParked ==
    [][\A v \in Videos :
          status[v] \in Parked /\ status'[v] \notin Parked =>
              \E t \in Threads : RetryVideo(t) /\ current[t] = v]_vars

BeingDeleted(v) == \E t \in Threads : pc[t] = "tombstone" /\ current[t] = v
JustDownloaded(v) == \E t \in Threads : pc[t] \in {"stat", "finish"} /\ current[t] = v

(* Every episode in a feed can be played: its file is there, except for    *)
(* the moment between delete_episode's unlink and its commit.              *)
DoneHasFile == \A c \in Channels : \A v \in Feed(c) : Playable(v) \/ BeingDeleted(v)

(* No file is left on disk that no row refers to: neither retention nor    *)
(* Delete would ever remove it.                                            *)
NoOrphanFile == \A v \in media : filePath[v] \/ JustDownloaded(v)

(* keep_latest is a floor: when retention removes an episode, at least     *)
(* keep_latest newer episodes of the channel are still there.              *)
RetentionKeepsNewest ==
    [][\A t \in Threads :
          job[t] = "cycle" /\ Tombstone(t) =>
              LET v == current[t] IN
              Cardinality(NewerDone(v)) >= policy[t][Owner[v]]]_vars

(* keep_latest is a ceiling: when a cycle returns, no channel holds more   *)
(* done episodes than the policy the cycle applied to it allows.           *)
RetentionMeetsPolicy ==
    \A t \in Threads :
        job[t] = "cycle" /\ pc[t] = "returned" =>
            \A c \in Channels :
                policy[t][c] = 0 \/ Cardinality(DoneEpisodes(c)) <= policy[t][c]

Lifecycle == INSTANCE EpisodeLifecycle
                WITH phase <- status, retries <- retryCount,
                     MaxRetries <- MAX_LONG_RANGE_RETRIES

(* The pipeline implements the documented life of an episode: one download *)
(* at a time, a done episode only ever leaves the feed by deletion, and    *)
(* nothing sleeping is woken but on request.                               *)
ImplementsLifecycle == Lifecycle!Spec

-----------------------------------------------------------------------------
(* Liveness.                                                               *)

(* What is pending gets picked up by a cycle, or was deleted before, even  *)
(* if the process dies and restarts first (sync.py: "the episodes it had   *)
(* already discovered stay 'pending' in the DB for the next cycle").       *)
PendingPickedUp == \A v \in Videos : status[v] = "pending" ~> status[v] # "pending"

(* Recovery "doesn't depend on someone noticing" (README.md): a failed     *)
(* episode with retries left does not stay failed.                         *)
FailureRetried ==
    \A v \in Videos :
        status[v] = "failed" /\ retryCount[v] < MAX_LONG_RANGE_RETRIES
            ~> status[v] # "failed"

-----------------------------------------------------------------------------
(* Statements of the documentation that overlapping jobs do not keep.      *)

(* sync.py: a restart is fine, the episodes a run had before it are still  *)
(* there "for the next cycle": every queued episode settles, faults or not.*)
EveryEpisodeSettles ==
    \A v \in Videos :
        status[v] = "pending" ~> status[v] \in {"done", "failed", "deleted"}
=============================================================================
