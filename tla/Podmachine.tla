----------------------------- MODULE Podmachine -----------------------------
(***************************************************************************)
(* The poller and the episode pipeline over the one `videos` table: what   *)
(* run_cycle does from list_channels to retention, and the requests of the *)
(* admin UI next to it.  A thread is either polling (pollPc) or working on *)
(* episodes (pc).  The tracked channels and the retention settings are     *)
(* fixed, and only cycles poll; Poller, Episodes and ChannelAdmin have     *)
(* settings change, and SyncSession and Poller have a sync poll as well.   *)
(***************************************************************************)
EXTENDS EpisodeProperties

CONSTANTS
    Sources, Playlists, Shorts, Lists, Uploaded, WINDOW, Config,
    CIRCUIT_BREAKER_THRESHOLD, MaxFailures, Events, NoSource, NoChannel

\* No video is listed on two tracked channels: the owner of its row is known.
ASSUME ListsAssumption ==
    \A v \in Videos, c \in Channels : Config[c] \in Lists[v] => Owner[v] = c

\* A poll may insert a row with any of its statuses.
ASSUME DiscoverAllAssumption == DiscoverAs = {"baseline", "skipped_short", "pending"}

VARIABLES
    source, baseline, failures, backoff, rowSlug, uploaded, withdrawn,
    pollPc, queue, chan, sawBaseline, sawFailures, entries, known, restarts, preexisting

\* A poll's inserts are rows of the pipeline's own table.
P == INSTANCE Poller WITH
        Slugs <- Channels, Rank <- Published, MaxRestarts <- MaxFaults,
        Pollers <- CycleThreads,
        inserted <- status, pc <- pollPc

pollVars == <<source, baseline, failures, backoff, rowSlug, uploaded, withdrawn, pollPc,
              queue, chan, sawBaseline, sawFailures, entries, known, restarts, preexisting>>

\* Everything but the table's status column that polls do not touch.
pipelineVars == <<filePath, recent, retryCount, media, job, pc, locals, attempt,
                  retentionVars, cycleLocals, paths, faults>>

systemVars == <<vars, pollVars>>

SystemInit == Init /\ P!Init

Polling(t) == t \in CycleThreads /\ pollPc[t] # "idle"

\* run_cycle: the channels it polls and the overrides it will apply to them
\* come from one list_channels.
BeginCycle(t) ==
    /\ t \in CycleThreads
    /\ StartCycle(t) /\ UNCHANGED faults
    /\ P!StartPoll(t)

\* A request; a sync whose polls are over starts like POST /process.
BeginRequest(t) ==
    /\ StartProcess(t) \/ StartRetry(t) \/ StartQueue(t) \/ StartDelete(t)
    /\ UNCHANGED <<faults, pollVars>>

\* poll_all_channels, the first half of a cycle.
PollStep(t) ==
    /\ t \in CycleThreads
    /\ P!Poll(t)
    /\ UNCHANGED pipelineVars

\* Whatever comes after it.
WorkStep(t) ==
    /\ ~Polling(t)
    /\ Work(t)
    /\ UNCHANGED <<faults, pollVars>>

\* YouTube and the clock.
Outside ==
    \/ /\ \/ \E c \in Channels : P!BackoffExpires(c)
          \/ \E v \in Videos : P!Upload(v) \/ P!Withdraw(v)
       /\ UNCHANGED pipelineVars
    \/ \E v \in Videos : Age(v) /\ UNCHANGED <<faults, pollVars>>

\* A crash ends the polls with everything else; lifespan runs as it restarts.
SystemFault ==
    /\ CountFault
    /\ \/ "crash" \in Faults /\ Crash /\ P!Restart
       \/ (\E t \in Threads : JobFault(t)) /\ UNCHANGED pollVars

SystemNext ==
    \/ \E t \in Threads :
          BeginCycle(t) \/ BeginRequest(t) \/ PollStep(t) \/ WorkStep(t)
    \/ Outside
    \/ SystemFault

SystemSpec == SystemInit /\ [][SystemNext]_systemVars

\* What Episodes and Poller ask for: cycles keep coming, threads with a job
\* run, time passes, and a source that is asked for ever answers some time.
SystemFairness ==
    /\ \A t \in Threads : WF_systemVars(WorkStep(t))
    /\ \A t \in CycleThreads :
          /\ WF_systemVars(PollStep(t))
          /\ WF_systemVars(BeginCycle(t))
    /\ \A t \in CycleThreads, c \in Channels :
          SF_systemVars(PollStep(t) /\ P!FetchSucceeds(t) /\ P!Slug(t) = c)
    /\ \A c \in Channels : WF_systemVars(Outside /\ P!BackoffExpires(c))
    /\ \A v \in Videos : WF_systemVars(Outside /\ Age(v))

FairSystem == SystemSpec /\ SystemFairness

-----------------------------------------------------------------------------
(* What the two halves promise together.                                   *)

(* Seen from the episodes, a poll only ever adds rows: the whole program   *)
(* is an instance of Episodes, so what holds there holds here.  This is    *)
(* "the regression test that matters most" of docs/retention.md, for       *)
(* every row: no poll touches one that exists.                             *)
ImplementsEpisodes == Spec

Listed(v) == \E c \in P!Tracked : v \in P!Listing(source[c])

Outstanding(v) == status[v] = "pending" \/ (status[v] = "absent" /\ Listed(v))

(* From upload to feed: a video that a tracked channel lists, and that     *)
(* nobody has begun to download, is recorded and then downloaded, or fails *)
(* or is parked, or leaves the listing unrecorded, once the faults are     *)
(* over.                                                                   *)
UploadSettles ==
    \A v \in Videos :
        Outstanding(v) /\ faults = MaxFaults
            ~> \/ status[v] \in {"done", "failed"} \cup Parked
               \/ status[v] = "absent" /\ ~Listed(v)

(* retention.py, delete_episode: a file that cannot be removed does not    *)
(* keep the row from being tombstoned, "rather than retry this forever".   *)
RemovalCompletes ==
    \A v \in Videos :
        faults = MaxFaults /\ (\E t \in Threads : current[t] = v /\ pc[t] \in {"delete", "tombstone"})
            ~> status[v] = "deleted"
=============================================================================
