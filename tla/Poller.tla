------------------------------- MODULE Poller -------------------------------
(***************************************************************************)
(* poller.py: discover new uploads.  The first poll of a slug records      *)
(* everything its source lists as 'baseline'; later polls record what is   *)
(* new as 'pending' or 'skipped_short'.  Polls that fail feed a circuit    *)
(* breaker.  The scheduled cycle, POST /poll, POST /run and the sync       *)
(* thread may all poll at once; each works through the list of channels it *)
(* read when it started.                                                   *)
(*                                                                         *)
(* Besides the pollers the module has what they depend on: the `channels`  *)
(* table as add_channel, delete_channel and the bootstrap import leave it, *)
(* and YouTube, as far as a fetch can see it.                              *)
(***************************************************************************)
EXTENDS Naturals, FiniteSets

CONSTANTS
    Videos,       \* video_id values
    Slugs,        \* channel slugs
    Sources,      \* YouTube channel and playlist ids
    Playlists,    \* the sources that are playlists
    Shorts,       \* the videos whose link is a /shorts/ one
    Lists,        \* Lists[v]: the sources v appears on
    Rank,         \* Rank[v]: order of upload
    Uploaded,     \* the videos there are to begin with
    WINDOW,       \* entries in a channel's RSS feed
    Config,       \* Config[s]: the id config.yaml gives slug s, or NoSource
    Pollers,      \* threads that may poll
    CIRCUIT_BREAKER_THRESHOLD,
    MaxFailures,  \* bound on the failures counted; the code has none
    MaxRestarts,  \* bound on the crashes
    Events,       \* which of "remove", "remove_at_rest" and "withdraw" may happen:
                  \* a channel removed at any time, or only while nobody polls;
                  \* a video withdrawn
    NoSource, NoChannel

ASSUME SourcesAssumption ==
    /\ Playlists \subseteq Sources /\ Shorts \subseteq Videos /\ Uploaded \subseteq Videos
    /\ Lists \in [Videos -> SUBSET Sources]
    /\ Rank \in [Videos -> Nat]
    /\ Config \in [Slugs -> Sources \cup {NoSource}]
    /\ NoSource \notin Sources
ASSUME ThresholdAssumption ==
    CIRCUIT_BREAKER_THRESHOLD \in Nat \ {0} /\ WINDOW \in Nat /\ MaxFailures \in Nat
    /\ MaxRestarts \in Nat
ASSUME PollersAssumption == IsFiniteSet(Pollers) /\ Pollers # {}
ASSUME NoChannelAssumption == NoChannel \notin Slugs \X Sources

VARIABLES
    \* channels: the id tracked under each slug, NoSource if there is no row
    source,
    \* channel_state; a slug without a row reads like one with these at rest
    baseline, failures, backoff,
    \* videos: status each row was inserted with, and the slug it belongs to
    inserted, rowSlug,
    \* YouTube
    uploaded, withdrawn,
    \* the pollers: program counter, channels still to poll, channel in hand,
    \* and what they read and have not used yet
    pc, queue, chan, sawBaseline, sawFailures, entries, known,
    restarts,
    \* history: the videos there were when a slug was added; no step reads it
    preexisting

channelState == <<baseline, failures, backoff>>
videosTable == <<inserted, rowSlug>>
youtube == <<uploaded, withdrawn>>
read == <<sawBaseline, sawFailures, entries, known>>
vars == <<source, channelState, videosTable, youtube, pc, queue, chan, read, restarts, preexisting>>

On(src, vs) == {v \in vs : src \in Lists[v]}

\* What a fetch of src returns: a channel's RSS feed has its newest WINDOW
\* uploads, a playlist is listed in full.
Listing(src) ==
    LET there == On(src, uploaded \ withdrawn) IN
    IF src \in Playlists THEN there
    ELSE {v \in there : Cardinality({w \in there : Rank[w] > Rank[v]}) < WINDOW}

\* Mutant of Tracked: slugs without a row are listed too.
EverySlug == Slugs

Tracked == {s \in Slugs : source[s] # NoSource}

Init ==
    /\ source = Config
    /\ baseline = [s \in Slugs |-> FALSE]
    /\ failures = [s \in Slugs |-> 0]
    /\ backoff = [s \in Slugs |-> "none"]
    /\ inserted = [v \in Videos |-> "absent"]
    /\ rowSlug = [v \in Videos |-> NoChannel]
    /\ uploaded = Uploaded /\ withdrawn = {}
    /\ pc = [t \in Pollers |-> "idle"]
    /\ queue = [t \in Pollers |-> {}]
    /\ chan = [t \in Pollers |-> NoChannel]
    /\ sawBaseline = [t \in Pollers |-> FALSE]
    /\ sawFailures = [t \in Pollers |-> 0]
    /\ entries = [t \in Pollers |-> {}]
    /\ known = [t \in Pollers |-> {}]
    /\ restarts = 0
    /\ preexisting = [s \in Slugs |-> On(Config[s], Uploaded)]

Goto(t, from, to) == pc[t] = from /\ pc' = [pc EXCEPT ![t] = to]

Slug(t) == chan[t][1]

-----------------------------------------------------------------------------
(* poll_all_channels and poll_channel                                      *)

\* list_channels: the loop works on this list whatever changes meanwhile.
StartPoll(t) ==
    /\ Goto(t, "idle", "next")
    /\ queue' = [queue EXCEPT ![t] = {<<s, source[s]>> : s \in Tracked}]
    /\ UNCHANGED <<source, channelState, videosTable, youtube, chan, read, restarts, preexisting>>

PollDone(t) ==
    /\ queue[t] = {}
    /\ Goto(t, "next", "idle")
    /\ UNCHANGED <<source, channelState, videosTable, youtube, queue, chan, read, restarts, preexisting>>

AfterCheck(s) ==
    IF backoff[s] = "active" THEN "next" ELSE IF backoff[s] = "expired" THEN "reset" ELSE "fetch"

\* Mutant of CheckBackoff: a channel_state row, even one a failure left, is
\* taken for an established baseline.
CheckBackoffRowIsBaseline(t) ==
    \E c \in queue[t] :
        LET s == c[1] IN
        /\ Goto(t, "next", AfterCheck(s))
        /\ queue' = [queue EXCEPT ![t] = @ \ {c}]
        /\ chan' = [chan EXCEPT ![t] = IF backoff[s] = "active" THEN NoChannel ELSE c]
        /\ sawBaseline' = [sawBaseline EXCEPT ![t] =
                              backoff[s] # "active" /\ (baseline[s] \/ failures[s] > 0)]
        /\ UNCHANGED <<source, channelState, videosTable, youtube, sawFailures, entries, known,
                       restarts, preexisting>>

\* Read the channel's state; while it is backed off, leave it alone.
CheckBackoff(t) ==
    \E c \in queue[t] :
        LET s == c[1] IN
        /\ Goto(t, "next", AfterCheck(s))
        /\ queue' = [queue EXCEPT ![t] = @ \ {c}]
        /\ chan' = [chan EXCEPT ![t] = IF backoff[s] = "active" THEN NoChannel ELSE c]
        /\ sawBaseline' = [sawBaseline EXCEPT ![t] = backoff[s] # "active" /\ baseline[s]]
        /\ UNCHANGED <<source, channelState, videosTable, youtube, sawFailures, entries, known,
                       restarts, preexisting>>

\* Mutant of ResetFailures: the count is left.
ResetBackoffOnly(s) ==
    /\ backoff' = [backoff EXCEPT ![s] = "none"]
    /\ UNCHANGED <<baseline, failures>>

\* _reset_poll_failure_state
ResetFailures(s) ==
    /\ failures' = [failures EXCEPT ![s] = 0]
    /\ backoff' = [backoff EXCEPT ![s] = "none"]
    /\ UNCHANGED baseline

\* Mutant of ExpiredBackoff: the channel is left alone once more.
ExpiredStaysPut(t) ==
    /\ Goto(t, "reset", "next")
    /\ chan' = [chan EXCEPT ![t] = NoChannel]
    /\ sawBaseline' = [sawBaseline EXCEPT ![t] = FALSE]
    /\ UNCHANGED <<source, channelState, videosTable, youtube, queue, sawFailures, entries, known,
                   restarts, preexisting>>

ExpiredBackoff(t) ==
    /\ Goto(t, "reset", "fetch")
    /\ ResetFailures(Slug(t))
    /\ UNCHANGED <<source, videosTable, youtube, queue, chan, read, restarts, preexisting>>

FetchSucceeds(t) ==
    /\ Goto(t, "fetch", "success")
    /\ entries' = [entries EXCEPT ![t] = Listing(chan[t][2])]
    /\ UNCHANGED <<source, channelState, videosTable, youtube, queue, chan,
                   sawBaseline, sawFailures, known, restarts, preexisting>>

\* The fetch raises, and _record_poll_failure reads the count so far.
FetchFails(t) ==
    /\ Goto(t, "fetch", "failure")
    /\ failures[Slug(t)] < MaxFailures
    /\ sawFailures' = [sawFailures EXCEPT ![t] = failures[Slug(t)]]
    /\ UNCHANGED <<source, channelState, videosTable, youtube, queue, chan,
                   sawBaseline, entries, known, restarts, preexisting>>

\* Done with the channel in hand.
Drop(t) ==
    /\ chan' = [chan EXCEPT ![t] = NoChannel]
    /\ sawBaseline' = [sawBaseline EXCEPT ![t] = FALSE]
    /\ sawFailures' = [sawFailures EXCEPT ![t] = 0]
    /\ entries' = [entries EXCEPT ![t] = {}]
    /\ known' = [known EXCEPT ![t] = {}]

\* Mutant of RecordFailure: the breaker trips one failure late.
RecordFailureLate(t) ==
    LET s == Slug(t)
        count == sawFailures[t] + 1 IN
    /\ Goto(t, "failure", "next")
    /\ failures' = [failures EXCEPT ![s] = count]
    /\ backoff' = [backoff EXCEPT ![s] =
                      IF count > CIRCUIT_BREAKER_THRESHOLD THEN "active" ELSE "none"]
    /\ Drop(t)
    /\ UNCHANGED <<source, baseline, videosTable, youtube, queue, restarts, preexisting>>

\* _record_poll_failure's upsert writes the count it read, plus one.
RecordFailure(t) ==
    LET s == Slug(t)
        count == sawFailures[t] + 1 IN
    /\ Goto(t, "failure", "next")
    /\ failures' = [failures EXCEPT ![s] = count]
    /\ backoff' = [backoff EXCEPT ![s] =
                      IF count >= CIRCUIT_BREAKER_THRESHOLD THEN "active" ELSE "none"]
    /\ Drop(t)
    /\ UNCHANGED <<source, baseline, videosTable, youtube, queue, restarts, preexisting>>

RecordSuccess(t) ==
    /\ Goto(t, "success", IF sawBaseline[t] THEN "known" ELSE "baseline")
    /\ ResetFailures(Slug(t))
    /\ UNCHANGED <<source, videosTable, youtube, queue, chan, read, restarts, preexisting>>

\* Mutant of NewRows: INSERT OR REPLACE.
AllRows(vs) == vs

\* INSERT OR IGNORE on the primary key, whichever slug has the row.
NewRows(vs) == {v \in vs : inserted[v] = "absent"}

\* _insert_video for every v of vs, with the status how[v].
InsertVideos(s, vs, how) ==
    /\ inserted' = [v \in Videos |-> IF v \in NewRows(vs) THEN how[v] ELSE inserted[v]]
    /\ rowSlug' = [v \in Videos |-> IF v \in NewRows(vs) THEN s ELSE rowSlug[v]]

\* Mutant of InsertBaseline: the flag is set, the rows are not inserted.
BaselineFlagOnly(t) ==
    /\ Goto(t, "baseline", "next")
    /\ baseline' = [baseline EXCEPT ![Slug(t)] = TRUE]
    /\ Drop(t)
    /\ UNCHANGED <<source, failures, backoff, videosTable, youtube, queue, restarts, preexisting>>

\* Mutant of InsertBaseline: the rows are inserted, the flag is not set.
BaselineRowsOnly(t) ==
    /\ Goto(t, "baseline", "next")
    /\ InsertVideos(Slug(t), entries[t], [v \in Videos |-> "baseline"])
    /\ Drop(t)
    /\ UNCHANGED <<source, channelState, youtube, queue, restarts, preexisting>>

\* The first poll of a slug, in one transaction.
InsertBaseline(t) ==
    LET s == Slug(t) IN
    /\ Goto(t, "baseline", "next")
    /\ InsertVideos(s, entries[t], [v \in Videos |-> "baseline"])
    /\ baseline' = [baseline EXCEPT ![s] = TRUE]
    /\ Drop(t)
    /\ UNCHANGED <<source, failures, backoff, youtube, queue, restarts, preexisting>>

\* known_ids: the rows of this slug.
ReadKnown(t) ==
    /\ Goto(t, "known", "insert")
    /\ known' = [known EXCEPT ![t] = {v \in Videos : rowSlug[v] = Slug(t)}]
    /\ UNCHANGED <<source, channelState, videosTable, youtube, queue, chan,
                   sawBaseline, sawFailures, entries, restarts, preexisting>>

\* A short is not wanted, except on a playlist, which is a curated selection.
FoundAs(src) ==
    [v \in Videos |-> IF v \in Shorts /\ src \notin Playlists THEN "skipped_short" ELSE "pending"]

\* Mutant of InsertNew: what is older than a known video is taken as known.
InsertNewest(t) ==
    LET newest == {v \in entries[t] : \A w \in known[t] : Rank[w] < Rank[v]} IN
    /\ Goto(t, "insert", "next")
    /\ InsertVideos(Slug(t), newest, FoundAs(chan[t][2]))
    /\ Drop(t)
    /\ UNCHANGED <<source, channelState, youtube, queue, restarts, preexisting>>

\* Mutant of InsertNew: INSERT OR REPLACE of everything listed.
InsertReplacing(t) ==
    LET vs == entries[t] IN
    /\ Goto(t, "insert", "next")
    /\ inserted' = [v \in Videos |-> IF v \in vs THEN FoundAs(chan[t][2])[v] ELSE inserted[v]]
    /\ rowSlug' = [v \in Videos |-> IF v \in vs THEN Slug(t) ELSE rowSlug[v]]
    /\ Drop(t)
    /\ UNCHANGED <<source, channelState, youtube, queue, restarts, preexisting>>

\* A later poll's inserts, in one transaction.
InsertNew(t) ==
    /\ Goto(t, "insert", "next")
    /\ InsertVideos(Slug(t), entries[t] \ known[t], FoundAs(chan[t][2]))
    /\ Drop(t)
    /\ UNCHANGED <<source, channelState, youtube, queue, restarts, preexisting>>

Poll(t) ==
    \/ CheckBackoff(t)
    \/ ExpiredBackoff(t)
    \/ FetchSucceeds(t)
    \/ FetchFails(t)
    \/ RecordFailure(t)
    \/ RecordSuccess(t)
    \/ InsertBaseline(t)
    \/ ReadKnown(t)
    \/ InsertNew(t)
    \/ PollDone(t)

-----------------------------------------------------------------------------
(* The channels table.                                                     *)

\* add_channel: neither the slug nor the id may be there already.
AddChannel(s, src) ==
    /\ s \notin Tracked /\ \A r \in Slugs : source[r] # src
    /\ source' = [source EXCEPT ![s] = src]
    /\ preexisting' = [preexisting EXCEPT ![s] = On(src, uploaded)]
    /\ UNCHANGED <<channelState, videosTable, youtube, pc, queue, chan, read, restarts>>

\* delete_channel: the channel_state row and the videos stay.
DeleteChannel(s) ==
    /\ \/ "remove" \in Events
       \/ "remove_at_rest" \in Events /\ \A t \in Pollers : pc[t] = "idle"
    /\ s \in Tracked
    /\ source' = [source EXCEPT ![s] = NoSource]
    /\ UNCHANGED <<channelState, videosTable, youtube, pc, queue, chan, read, restarts, preexisting>>

\* The process dies; import_channels_from_config_if_empty runs as it restarts.
Restart ==
    /\ restarts < MaxRestarts
    /\ restarts' = restarts + 1
    /\ pc' = [t \in Pollers |-> "idle"]
    /\ queue' = [t \in Pollers |-> {}]
    /\ chan' = [t \in Pollers |-> NoChannel]
    /\ sawBaseline' = [t \in Pollers |-> FALSE]
    /\ sawFailures' = [t \in Pollers |-> 0]
    /\ entries' = [t \in Pollers |-> {}]
    /\ known' = [t \in Pollers |-> {}]
    /\ IF Tracked = {}
       THEN /\ source' = Config
            /\ preexisting' = [s \in Slugs |-> On(Config[s], uploaded)]
       ELSE UNCHANGED <<source, preexisting>>
    /\ UNCHANGED <<channelState, videosTable, youtube>>

-----------------------------------------------------------------------------
(* Time and YouTube.                                                       *)

\* CIRCUIT_BREAKER_BACKOFF_HOURS have passed.
BackoffExpires(s) ==
    /\ backoff[s] = "active"
    /\ backoff' = [backoff EXCEPT ![s] = "expired"]
    /\ UNCHANGED <<source, baseline, failures, videosTable, youtube, pc, queue, chan, read,
                   restarts, preexisting>>

Upload(v) ==
    /\ v \notin uploaded
    /\ \A w \in Videos : Rank[w] < Rank[v] => w \in uploaded
    /\ uploaded' = uploaded \cup {v}
    /\ UNCHANGED <<source, channelState, videosTable, withdrawn, pc, queue, chan, read, restarts, preexisting>>

\* The uploader deletes v or makes it private.
Withdraw(v) ==
    /\ "withdraw" \in Events
    /\ v \in uploaded \ withdrawn
    /\ withdrawn' = withdrawn \cup {v}
    /\ UNCHANGED <<source, channelState, videosTable, uploaded, pc, queue, chan, read, restarts, preexisting>>

Next ==
    \/ \E t \in Pollers : StartPoll(t) \/ Poll(t)
    \/ \E s \in Slugs : DeleteChannel(s) \/ BackoffExpires(s)
    \/ \E s \in Slugs, src \in Sources : AddChannel(s, src)
    \/ \E v \in Videos : Upload(v) \/ Withdraw(v)
    \/ Restart

Spec == Init /\ [][Next]_vars

\* Cycles keep coming, fetches return or time out, the hour passes, and a
\* source that is asked again and again answers some time.
Fairness ==
    /\ \A t \in Pollers : WF_vars(StartPoll(t)) /\ WF_vars(Poll(t))
    /\ \A t \in Pollers, s \in Slugs : SF_vars(FetchSucceeds(t) /\ Slug(t) = s)
    /\ \A s \in Slugs : WF_vars(BackoffExpires(s))

FairSpec == Spec /\ Fairness
=============================================================================
