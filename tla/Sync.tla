-------------------------------- MODULE Sync --------------------------------
(***************************************************************************)
(* sync.py: the "Sync now" button.  A background thread polls every        *)
(* channel and then processes whatever is pending, and keeps a snapshot of *)
(* its progress for the admin UI.  The snapshot is written under a lock,   *)
(* one critical section per action below; the database is not behind that  *)
(* lock, and the rows counted for the progress display are not the rows    *)
(* that are fetched for processing a moment later.                         *)
(*                                                                         *)
(* poll_channel and _process_one appear here by what they do to the set of *)
(* pending rows; modules Poller and Processor have them in detail.         *)
(***************************************************************************)
EXTENDS Integers, FiniteSets

CONSTANTS
    Channels, Videos,
    Owner,       \* Owner[v]: the channel_slug v's row is inserted with
    Runs,        \* threads that may come to run a sync
    Events,      \* which of "queue", "take" and "raise" may happen
    Nothing      \* no channel and no row in hand

ASSUME OwnerAssumption == Owner \in [Videos -> Channels]
ASSUME FiniteAssumption == IsFiniteSet(Channels) /\ IsFiniteSet(Videos)
ASSUME NothingAssumption == Nothing \notin Channels \cup Videos

VARIABLES
    \* SyncManager._state
    phase, done, total, badge, pollErrors, downloaded, failedDownloads,
    channelsWithNew, fatalError,
    expired,      \* SUMMARY_TTL_SECONDS have passed since the sync finished
    \* the database: videos without a row yet, and the rows that are 'pending'
    unrecorded, pending,
    \* the sync threads: program counter, channels still to poll, rows still to
    \* process, channel or row in hand, its index in the loop, _run's locals
    pc, queue, rows, hand, index, remaining, failedSlugs,
    \* history, read by no step: the episodes this sync downloaded and those it
    \* could not, and whether anybody else changed what is pending since it
    \* counted
    fetched, missed, disturbed

summary == <<pollErrors, downloaded, failedDownloads, channelsWithNew, fatalError>>
manager == <<phase, done, total, badge, summary, expired>>
database == <<unrecorded, pending>>
locals == <<queue, rows, hand, index, remaining, failedSlugs>>
history == <<fetched, missed, disturbed>>
vars == <<manager, database, pc, locals, history>>

Running == {"polling", "processing"}

\* A dictionary without keys.
Empty == [c \in {} |-> 0]

FreshState(p) ==
    /\ phase' = p
    /\ done' = 0 /\ total' = 0
    /\ badge' = [c \in Channels |-> "none"]
    /\ pollErrors' = {}
    /\ downloaded' = 0 /\ failedDownloads' = 0 /\ channelsWithNew' = 0
    /\ fatalError' = FALSE
    /\ expired' = FALSE

\* The process starts, for the first time or after it died, with whatever is
\* in the database.
Init ==
    /\ phase = "idle"
    /\ done = 0 /\ total = 0
    /\ badge = [c \in Channels |-> "none"]
    /\ pollErrors = {}
    /\ downloaded = 0 /\ failedDownloads = 0 /\ channelsWithNew = 0
    /\ fatalError = FALSE /\ expired = FALSE
    /\ pending \in SUBSET Videos /\ unrecorded \in SUBSET (Videos \ pending)
    /\ pc = [r \in Runs |-> "idle"]
    /\ queue = [r \in Runs |-> {}]
    /\ rows = [r \in Runs |-> {}]
    /\ hand = [r \in Runs |-> Nothing]
    /\ index = [r \in Runs |-> 0]
    /\ remaining = [r \in Runs |-> Empty]
    /\ failedSlugs = [r \in Runs |-> {}]
    /\ fetched = {} /\ missed = {} /\ disturbed = FALSE

Goto(r, from, to) == pc[r] = from /\ pc' = [pc EXCEPT ![r] = to]

SetBadge(c, b) == badge' = [badge EXCEPT ![c] = b]

\* The thread is over and its locals are gone.
Leave(r) ==
    /\ pc' = [pc EXCEPT ![r] = "idle"]
    /\ queue' = [queue EXCEPT ![r] = {}]
    /\ rows' = [rows EXCEPT ![r] = {}]
    /\ hand' = [hand EXCEPT ![r] = Nothing]
    /\ index' = [index EXCEPT ![r] = 0]
    /\ remaining' = [remaining EXCEPT ![r] = Empty]
    /\ failedSlugs' = [failedSlugs EXCEPT ![r] = {}]

-----------------------------------------------------------------------------
(* The requests.                                                           *)

\* Mutant of Begin: a sync that is already downloading is not looked for.
BeginWhileProcessing(r) ==
    /\ phase # "polling"
    /\ Goto(r, "idle", "list")
    /\ FreshState("polling")
    /\ fetched' = {} /\ missed' = {} /\ disturbed' = FALSE
    /\ UNCHANGED <<database, locals>>

\* start: _begin's test and set, and the thread it launches.
Begin(r) ==
    /\ phase \notin Running
    /\ Goto(r, "idle", "list")
    /\ FreshState("polling")
    /\ fetched' = {} /\ missed' = {} /\ disturbed' = FALSE
    /\ UNCHANGED <<database, locals>>

\* Mutant of Dismiss: a sync in flight is dismissed too.
DismissAnyway ==
    /\ phase # "idle"
    /\ FreshState("idle")
    /\ UNCHANGED <<database, pc, locals, history>>

Dismiss ==
    /\ phase = "done"
    /\ FreshState("idle")
    /\ UNCHANGED <<database, pc, locals, history>>

-----------------------------------------------------------------------------
(* _run, first half: the channels.                                         *)

\* Whatever the admin has left in the channels table by now.
ListChannels(r) ==
    /\ Goto(r, "list", "poll")
    /\ \E cs \in SUBSET Channels :
          /\ queue' = [queue EXCEPT ![r] = cs]
          /\ total' = Cardinality(cs)
          /\ badge' = [c \in Channels |-> IF c \in cs THEN "waiting" ELSE "none"]
    /\ UNCHANGED <<phase, done, summary, expired, database, rows, hand, index, remaining,
                   failedSlugs, history>>

\* _on_poll(channel, i, None)
CheckChannel(r) ==
    /\ Goto(r, "poll", "checking")
    /\ \E c \in queue[r] :
          /\ queue' = [queue EXCEPT ![r] = @ \ {c}]
          /\ hand' = [hand EXCEPT ![r] = c]
          /\ SetBadge(c, "checking")
    /\ UNCHANGED <<phase, done, total, summary, expired, database, rows, index, remaining,
                   failedSlugs, history>>

\* _on_poll(channel, i, result), common part.
ChannelDone(r) ==
    /\ Goto(r, "checking", "poll")
    /\ done' = index[r] + 1
    /\ index' = [index EXCEPT ![r] = @ + 1]
    /\ hand' = [hand EXCEPT ![r] = Nothing]
    /\ UNCHANGED <<phase, total, downloaded, failedDownloads, channelsWithNew, fatalError, expired,
                   queue, rows, remaining, failedSlugs, history>>

\* The channel's new videos get rows: 'pending' ones, or a baseline.
ChannelChecked(r) ==
    /\ ChannelDone(r)
    /\ \E vs \in SUBSET {v \in unrecorded : Owner[v] = hand[r]} :
          /\ unrecorded' = unrecorded \ vs
          /\ pending' \in {pending, pending \cup vs}
    /\ SetBadge(hand[r], "checked")
    /\ UNCHANGED pollErrors

ChannelBackedOff(r) ==
    /\ ChannelDone(r)
    /\ SetBadge(hand[r], "none")
    /\ UNCHANGED <<pollErrors, database>>

\* Mutant of ChannelFails: _badge's label in the place of its state.
ChannelFailsLabelled(r) ==
    /\ ChannelDone(r)
    /\ SetBadge(hand[r], "couldn't check")
    /\ pollErrors' = pollErrors \cup {hand[r]}
    /\ UNCHANGED database

ChannelFails(r) ==
    /\ ChannelDone(r)
    /\ SetBadge(hand[r], "failed")
    /\ pollErrors' = pollErrors \cup {hand[r]}
    /\ UNCHANGED database

-----------------------------------------------------------------------------
(* _run, second half: the episodes.                                        *)

PendingOf(c) == {v \in pending : Owner[v] = c}
PendingSlugs == {Owner[v] : v \in pending}

\* The COUNT ... GROUP BY finds nothing.
NothingPending(r) ==
    /\ queue[r] = {} /\ pending = {}
    /\ Goto(r, "poll", "finish")
    /\ disturbed' = FALSE
    /\ UNCHANGED <<manager, database, locals, fetched, missed>>

\* Mutant of StartProcessing: done keeps counting from the channels on.
StartProcessingWithoutReset(r) ==
    /\ queue[r] = {} /\ pending # {}
    /\ Goto(r, "poll", "select")
    /\ remaining' = [remaining EXCEPT ![r] =
                        [c \in PendingSlugs |-> Cardinality(PendingOf(c))]]
    /\ index' = [index EXCEPT ![r] = 0]
    /\ phase' = "processing"
    /\ total' = Cardinality(pending)
    /\ channelsWithNew' = Cardinality(PendingSlugs)
    /\ badge' = [c \in Channels |-> IF c \in PendingSlugs THEN "queued" ELSE badge[c]]
    /\ disturbed' = FALSE
    /\ UNCHANGED <<done, pollErrors, downloaded, failedDownloads, fatalError, expired, database,
                   queue, rows, hand, failedSlugs, fetched, missed>>

\* The COUNT, and _start_processing.
StartProcessing(r) ==
    /\ queue[r] = {} /\ pending # {}
    /\ Goto(r, "poll", "select")
    /\ remaining' = [remaining EXCEPT ![r] =
                        [c \in PendingSlugs |-> Cardinality(PendingOf(c))]]
    /\ index' = [index EXCEPT ![r] = 0]
    /\ phase' = "processing"
    /\ done' = 0
    /\ total' = Cardinality(pending)
    /\ channelsWithNew' = Cardinality(PendingSlugs)
    /\ badge' = [c \in Channels |-> IF c \in PendingSlugs THEN "queued" ELSE badge[c]]
    /\ disturbed' = FALSE
    /\ UNCHANGED <<pollErrors, downloaded, failedDownloads, fatalError, expired, database,
                   queue, rows, hand, failedSlugs, fetched, missed>>

\* Mutant of SelectPending: episodes of channels that could not be checked are
\* left alone.
SelectOfCheckedChannels(r) ==
    /\ Goto(r, "select", "row")
    /\ rows' = [rows EXCEPT ![r] = {v \in pending : Owner[v] \notin pollErrors}]
    /\ UNCHANGED <<manager, database, queue, hand, index, remaining, failedSlugs, history>>

\* process_pending_videos' own SELECT.
SelectPending(r) ==
    /\ Goto(r, "select", "row")
    /\ rows' = [rows EXCEPT ![r] = pending]
    /\ UNCHANGED <<manager, database, queue, hand, index, remaining, failedSlugs, history>>

\* _on_process(row, i, total, None), and the row becomes 'downloading'.
StartDownload(r) ==
    /\ Goto(r, "row", "download")
    /\ \E v \in rows[r] :
          /\ rows' = [rows EXCEPT ![r] = @ \ {v}]
          /\ hand' = [hand EXCEPT ![r] = v]
          /\ pending' = pending \ {v}
          /\ SetBadge(Owner[v], "downloading")
    /\ UNCHANGED <<phase, done, total, summary, expired, unrecorded, queue, index, remaining,
                   failedSlugs, history>>

\* _on_process(row, i, total, result) up to `remaining[slug] -= 1`.
EpisodeDone(r) ==
    /\ done' = index[r] + 1
    /\ index' = [index EXCEPT ![r] = @ + 1]
    /\ hand' = [hand EXCEPT ![r] = Nothing]

\* Mutants of EpisodeCounted: a failed episode is still waited for; the badge
\* is settled one episode early.
EpisodeCountedIfDownloaded(r, c, failures) ==
    /\ remaining' = IF c \in failures THEN remaining ELSE [remaining EXCEPT ![r][c] = @ - 1]
    /\ failedSlugs' = [failedSlugs EXCEPT ![r] = failures]
    /\ badge' = IF remaining'[r][c] # 0 THEN badge
                ELSE [badge EXCEPT ![c] = IF c \in failures THEN "failed" ELSE "downloaded"]

EpisodeCountedEarly(r, c, failures) ==
    /\ remaining' = [remaining EXCEPT ![r][c] = @ - 1]
    /\ failedSlugs' = [failedSlugs EXCEPT ![r] = failures]
    /\ badge' = IF remaining[r][c] # 2 THEN badge
                ELSE [badge EXCEPT ![c] = IF c \in failures THEN "failed" ELSE "downloaded"]

\* One episode fewer to wait for; the last one settles the channel's badge.
EpisodeCounted(r, c, failures) ==
    /\ remaining' = [remaining EXCEPT ![r][c] = @ - 1]
    /\ failedSlugs' = [failedSlugs EXCEPT ![r] = failures]
    /\ badge' = IF remaining[r][c] # 1 THEN badge
                ELSE [badge EXCEPT ![c] = IF c \in failures THEN "failed" ELSE "downloaded"]

DownloadSucceeds(r) ==
    LET c == Owner[hand[r]] IN
    /\ Goto(r, "download", "row")
    /\ c \in DOMAIN remaining[r]
    /\ EpisodeDone(r)
    /\ EpisodeCounted(r, c, failedSlugs[r])
    /\ downloaded' = downloaded + 1
    /\ fetched' = fetched \cup {hand[r]}
    /\ UNCHANGED <<phase, total, pollErrors, failedDownloads, channelsWithNew, fatalError, expired,
                   database, queue, rows, missed, disturbed>>

DownloadFails(r) ==
    LET c == Owner[hand[r]] IN
    /\ Goto(r, "download", "row")
    /\ c \in DOMAIN remaining[r]
    /\ EpisodeDone(r)
    /\ EpisodeCounted(r, c, failedSlugs[r] \cup {c})
    /\ failedDownloads' = failedDownloads + 1
    /\ missed' = missed \cup {hand[r]}
    /\ UNCHANGED <<phase, total, pollErrors, downloaded, channelsWithNew, fatalError, expired,
                   database, queue, rows, fetched, disturbed>>

\* `remaining[slug]` of a slug that had nothing pending when it was counted.
SlugNotCounted(r) ==
    /\ Goto(r, "download", "raised")
    /\ Owner[hand[r]] \notin DOMAIN remaining[r]
    /\ EpisodeDone(r)
    /\ UNCHANGED <<phase, total, badge, summary, expired, database, queue, rows, remaining,
                   failedSlugs, history>>

\* A fault: a query (after the last channel the COUNT), poll_channel or
\* _process_one raises.
StepRaises(r) ==
    /\ "raise" \in Events
    /\ \/ pc[r] \in {"list", "checking", "select", "download"}
       \/ pc[r] = "poll" /\ queue[r] = {}
    /\ pc' = [pc EXCEPT ![r] = "raised"]
    /\ UNCHANGED <<manager, database, locals, history>>

RowsDone(r) ==
    /\ rows[r] = {}
    /\ Goto(r, "row", "finish")
    /\ UNCHANGED <<manager, database, locals, history>>

\* Mutant of Finish: no finally clause.
FinishUnlessRaised(r) ==
    /\ pc[r] \in {"finish", "raised"}
    /\ phase' = IF pc[r] = "finish" THEN "done" ELSE phase
    /\ fatalError' = (pc[r] = "raised")
    /\ Leave(r)
    /\ UNCHANGED <<done, total, badge, pollErrors, downloaded, failedDownloads, channelsWithNew,
                   expired, database, history>>

\* The except and finally clauses of _run.
Finish(r) ==
    /\ pc[r] \in {"finish", "raised"}
    /\ phase' = "done"
    /\ fatalError' = (pc[r] = "raised")
    /\ Leave(r)
    /\ UNCHANGED <<done, total, badge, pollErrors, downloaded, failedDownloads, channelsWithNew,
                   expired, database, history>>

Run(r) ==
    \/ ListChannels(r)
    \/ CheckChannel(r)
    \/ ChannelChecked(r) \/ ChannelBackedOff(r) \/ ChannelFails(r)
    \/ NothingPending(r) \/ StartProcessing(r)
    \/ SelectPending(r)
    \/ StartDownload(r)
    \/ DownloadSucceeds(r) \/ DownloadFails(r)
    \/ SlugNotCounted(r) \/ StepRaises(r)
    \/ RowsDone(r)
    \/ Finish(r)

-----------------------------------------------------------------------------
(* The rest of the program.                                                *)

\* A row becomes 'pending': Queue, Retry, requeue, or another poll.
Queue(v) ==
    /\ "queue" \in Events
    /\ v \notin unrecorded \cup pending
    /\ pending' = pending \cup {v}
    /\ disturbed' = TRUE
    /\ UNCHANGED <<manager, unrecorded, pc, locals, fetched, missed>>

\* A row stops being 'pending': Delete, or another job downloads it.
Take(v) ==
    /\ "take" \in Events
    /\ v \in pending
    /\ pending' = pending \ {v}
    /\ disturbed' = TRUE
    /\ UNCHANGED <<manager, unrecorded, pc, locals, fetched, missed>>

\* snapshot() shows a summary as idle once it is old enough.
Expire ==
    /\ phase = "done" /\ ~expired
    /\ expired' = TRUE
    /\ UNCHANGED <<phase, done, total, badge, summary, database, pc, locals, history>>

Next ==
    \/ \E r \in Runs : Begin(r) \/ Run(r)
    \/ \E v \in Videos : Queue(v) \/ Take(v)
    \/ Dismiss
    \/ Expire

Spec == Init /\ [][Next]_vars

\* A sync's thread gets to run, and polls and downloads end.
Fairness == \A r \in Runs : WF_vars(Run(r))

FairSpec == Spec /\ Fairness

-----------------------------------------------------------------------------
(* What snapshot() derives.                                                *)

ShownPhase == IF phase = "done" /\ expired THEN "idle" ELSE phase

\* Python's round(n / d): the nearest integer, the even one of two.
Rounded(n, d) ==
    LET up == (2 * n + d) \div (2 * d) IN
    IF (2 * n + d) % (2 * d) = 0 /\ up % 2 = 1 THEN up - 1 ELSE up

\* _percent, for a sync that runs: two halves of 50, the item in flight counted
\* as half done.
Percent ==
    LET share == IF total = 0 THEN 0
                 ELSE IF 2 * done + 1 >= 2 * total THEN 50
                 ELSE Rounded(25 * (2 * done + 1), total) IN
    CASE ShownPhase = "idle" -> 0
      [] ShownPhase = "polling" -> share
      [] ShownPhase = "processing" -> 50 + share
      [] ShownPhase = "done" -> 100
=============================================================================
