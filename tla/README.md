# podmachine: a TLA+ model and its proofs

podmachine follows YouTube channels and playlists, downloads new uploads as
audio and serves a podcast feed per channel. One Python process holds a web
server (FastAPI, a thread per request), an APScheduler job and a sync thread.
All of them work on one SQLite file and one media directory, each through a
connection of its own, with no lock between them: SQLite makes single
statements and transactions atomic, and nothing makes a SELECT and the UPDATE
that follows it atomic. The specifications here are about what that leaves
true.

Paths below are relative to `src/podmachine/` in the repository unless they
start with `docs/` or `README.md` (the repository's own).

## 1. The system

| component | state it keeps | operations | hard part |
|---|---|---|---|
| poller (`poller.py`) | `channel_state`: baseline flag, failure count, backoff; inserts into `videos` | `poll_all_channels`, `poll_channel` | flag and count are read before a fetch and used after it; several polls at once |
| channels (`channels.py`) | `channels` | `unique_slug`, add, delete, list, category, retention override, bootstrap import | a SELECT decides about a later INSERT; removal leaves `channel_state` and `videos` |
| settings (`settings.py`) | `settings`: the default policy | get, set, bootstrap import | read at the end of a cycle, the overrides at its start |
| artwork (`artwork.py`) | `channel_state.avatar_path`; image files | `ensure_channel_artwork` | fetch, file and commit can be cut apart by faults |
| youtube (`youtube.py`) | none; YouTube's own | fetch of a feed window or a playlist, with retries | fails, shows only the newest entries |
| processor (`processor.py`) | `videos.status`, `file_path`, `last_attempt_at`; media files | `process_pending_videos`, `retry_video` | works for minutes through a list read once; UPDATEs check nothing |
| downloader (`downloader.py`) | media files | `download_audio` | fails, or raises outside its try block |
| requeue (`requeue.py`) | `videos.long_range_retry_count` | `requeue_stale_failures` | check and increment are separate |
| retention (`retention.py`) | `videos.status`, `file_path`; media files | `apply_retention`, `delete_episode` | file and row are removed in two steps |
| scheduler (`scheduler.py`, `main.py`) | none | `run_cycle` = poll, artwork, requeue, process, retain; POST `/poll`, `/process`, `/run` | a request's cycle overlaps the scheduled one |
| admin UI (`web/routes.py`) | none | Retry, Queue, Delete, settings, add/remove channel | acts on rows a cycle has in hand, and on channels another request has |
| sync (`sync.py`) | progress snapshot under a lock | start, dismiss; poll, then process, in a thread of its own | counts rows that other jobs change |
| feed (`feed.py`) | none | lists `done` rows and a cover | what it links to must be there |
| tagger, queries, auth, config | none | tags, reads, startup checks | none that concerns the state above |

Everything interacts through the tables `videos`, `channel_state`, `channels`
and `settings`, and the media and artwork directories. A video's `status` is the program's control state:

    (discovered) baseline | skipped_short | pending
    pending -> downloading -> done | failed
    failed -> pending              (requeue, Retry)
    baseline | skipped_short | deleted -> pending      (Queue)
    any -> deleted                 (Delete; retention for done)

What makes the components correct: an upload is recorded once, queued when it
is new and never when it is old; what is queued is downloaded, or fails and is
retried a bounded number of times; a deleted episode stays deleted; retention
keeps exactly the newest; rows and files agree; the breaker agrees with its
count. The hazards that threaten this are listed, each at its line, in
`PROJECT.json`.

## 2. Modules

    VideoTable          the videos table, the files, the threads' locals
      Processor         processor.py, downloader.py
        Retention       retention.py, settings.py, the retention loop of run_cycle
      Requeue           requeue.py
        Episodes        all of it composed: jobs, requests, crashes, time
          EpisodeProperties    what is claimed   (uses EpisodeLifecycle)
            MCEpisodes         instances for TLC
            EpisodesProofs     theorems for any threads and interleavings
              EpisodesSequentialProofs   theorems for one job at a time
    EpisodeLifecycle    abstract specification: the documented life of an episode

    Podmachine          Episodes EXTENDed by an INSTANCE of Poller: the program's
                        cycles from poll to retention, over one videos table
      MCPodmachine             instance for TLC
      PodmachineProofs         theorems (uses EpisodesSequentialProofs)

    ChannelAdmin        channels.py, settings.py, artwork.py, lifespan, the requests
                        that edit channels, the cycle's reads of all that
      ChannelAdminProperties   what is claimed   (uses Tracking)
        MCChannelAdmin         instance for TLC
        ChannelAdminProofs     theorems
    Tracking            abstract specification: which channels are tracked

    Poller              poller.py, the channels table, YouTube
      PollerProperties         what is claimed   (uses Discovery)
        MCPoller               instances for TLC
        PollerProofs           theorems
    Discovery           abstract specification: baseline once, then only new rows

    Sync                sync.py: lock, phases, badges, counters
      SyncProperties           what is claimed   (uses SyncSession)
        MCSync                 instances for TLC
        SyncProofs             theorems
          SyncSummaryProofs    theorems about badges, counters, bar and summary
    SyncSession         abstract specification: what the admin UI is shown

    CountingLemmas      sums and divisions, for EpisodesSequentialProofs and
                        SyncSummaryProofs

**Granularity.** An action is one SELECT with the decisions taken on its
result, or the writes up to one `commit()`, or one effect on the file system
or YouTube. Between any two of them every other thread may run. A thread has a
program counter `pc[t]` and locals that hold what it has read (`rows`,
`current`, `paths`, `policy`, `todo`; in Poller `queue`, `chan`, `sawBaseline`,
`sawFailures`, `entries`, `known`). Stale data is therefore explicit: an action
uses the local, not the table, exactly where the code does.

**Episodes.** A thread's job is one of `cycle` (from the requeue step on; its
polling is in Poller and appears here as `Discover`), `process` (POST
`/process`, and a sync after its polling), `retry`, `queue`, `delete`.
`JobsOf` says which threads may do what; the properties of the sequential run
hold because one thread has all the jobs. Rows carry what the code decides on:
`status`, whether `file_path` is set, whether `last_attempt_at` is within the
retry interval (`recent`, aged by `Age`), and the retry count. A policy is
`keep_latest`, 0 for `none`. Titles, sizes, descriptions and sleeps are left
out. `published_at` is a rank fixed per video. For playlist entries the code
replaces a fallback date when the download ends, which is before retention can
see the row as `done`; ties, for which SQLite's order is unspecified, are
excluded by `PublishedAssumption`.

| action | code |
|---|---|
| `SelectPending`, `MarkDownloading`, `Processed` | the SELECT and loop of `process_pending_videos`, first commit of `_process_one` |
| `DownloadSucceeds`, `DownloadFails`, `MkdirFails` | one turn of `_download_with_retry`, one call of `download_audio` |
| `RecordFailure`, `Stat`, `RecordDone` | the rest of `_process_one` |
| `SelectStaleFailures`, `RequeueStaleFailures` | `requeue_stale_failures` |
| `ReadDefaultRetention`, `SelectExcess`, `NextExcess`, `RetentionApplied` | the retention loop of `run_cycle`, `_apply_count_strategy` |
| `Unlink`, `UnlinkFails`, `Tombstone` | `delete_episode` |
| `StartRetry`, `StartQueue`, `RetryVideo`, `StartDelete` | the three episode actions of the admin UI |
| `EndJob`, `Crash` | return or exception; death of the process, which changes no row |

**Poller.** Any number of pollers, each with the list of channels it started
with. `Listing` is what YouTube shows: the newest `WINDOW` uploads of a
channel, all of a playlist. A backoff is `none`, `active` or `expired`, so time
is the one action `BackoffExpires`. `Events` says whether channels are removed
(at any time, or only while nobody polls) and whether videos are withdrawn.
`preexisting` is a history variable that no
step reads: what a source had when it was added.

| action | code |
|---|---|
| `StartPoll`, `PollDone` | `list_channels`, the loop of `poll_all_channels` |
| `CheckBackoff`, `ExpiredBackoff` | the head of `poll_channel` |
| `FetchSucceeds`, `FetchFails`, `RecordFailure` | the fetch and `_record_poll_failure` |
| `RecordSuccess`, `InsertBaseline` | a first poll |
| `RecordSuccess`, `ReadKnown`, `InsertNew` | a later poll |
| `AddChannel`, `DeleteChannel`, `Restart` | the channels table and its bootstrap import |
| `Upload`, `Withdraw`, `BackoffExpires` | YouTube and the clock |

**Sync.** Any number of threads may come to run `_run`; an action is one
critical section of `SyncManager._lock` or one SELECT. `poll_channel` and
`_process_one` appear by what they do to the set of pending rows, `pending`,
which other jobs change at any time (`Queue`, `Take`). Any query (the COUNT
between the halves too), poll or download may raise (`StepRaises`). `fetched`, `missed` and `disturbed` are history
variables that no step reads: the episodes this sync downloaded, those it could
not, and whether anybody else changed what is pending since it counted. Names,
error texts and the wording of the summary are left out; `Percent` rounds as
Python does, since the bar's monotonicity is about it. The rows are downloaded
in any order, `SELECT ... WHERE status = 'pending'` has none.

| action | code |
|---|---|
| `Begin`, `Dismiss`, `Expire` | `_begin` and `start`, `dismiss`, the time-out of `snapshot` |
| `ListChannels`, `CheckChannel`, `ChannelChecked`, `ChannelBackedOff`, `ChannelFails` | first half of `_run`, `_on_poll` |
| `NothingPending`, `StartProcessing`, `SelectPending` | the COUNT, `_start_processing`, the SELECT of `process_pending_videos` |
| `StartDownload`, `DownloadSucceeds`, `DownloadFails`, `SlugNotCounted` | `_on_process`; the last is its KeyError |
| `RowsDone`, `StepRaises`, `Finish` | the end of the loop; the `except` and `finally` of `_run` |

**Podmachine.** `P == INSTANCE Poller WITH inserted <- status, ...` makes a
poll's inserts rows of the pipeline's own table. A thread is polling (`pollPc`)
or working on episodes (`pc`); `BeginCycle` is one `list_channels` for both,
`PollStep` is any step of Poller, `WorkStep` any step of Episodes once the polls
are over, `SystemFault` a crash of both halves or a fault of a job. Only cycles
poll here, and channels and settings do not change (Poller, Episodes and
ChannelAdmin have that); a request is one of Episodes' own. The claim that ties
the module to the others is `ImplementsEpisodes`: with the poller's variables
hidden, every behaviour is one of Episodes, a commit of a poll being `Discover`
of the rows that were not there.

**ChannelAdmin.** Which id is tracked under which slug (`source`), with which
`override`, next to the `default` policy; the recorded picture (`avatar`) and
the file behind it (`image`: `"none"`, `"partial"`, or the id whose picture it
is). A form that validation turns down before any SELECT changes nothing and is
no step; names are the slugs `slugify` makes of them, `Variants[n]` the
candidates `n`, `n-2`, `n-3`... A cycle keeps the list it read (`run[t].list`)
and uses it to the end. `wiped`, `inForce` and `touched` are history: pictures
removed by hand, the policies in force for each channel since the cycle began,
and the settings changed since. `Tracking` sees the table and whether the
process runs: rows change only while it does, and a start imports config.yaml
exactly when it finds the table empty, at whichever start that is.

| action | code |
|---|---|
| `ImportChannels`, `ImportDefault`, `Crash` | `lifespan`: two imports, two commits; death of the process |
| `StartAdd`, `SlugTaken`, `SlugFree`, `CheckDuplicate`, `Insert` | POST `/channels`: the form, turns of `unique_slug`, `add_channel`'s SELECT and INSERT |
| `StartRemove`, `Remove` | POST `.../delete` |
| `StartSettings`, `SaveCategory`, `SaveRetention`, `SetDefault` | POST `.../settings`, POST `/settings/retention` |
| `StartCycle`, `ReadDefault`, `ApplyRetention`, `EndCycle` | `run_cycle` where it reads and uses channels and settings |
| `CheckArtwork`, `AvatarFetched`, `NoAvatar`, `OpenImage`, `WriteImage`, `RecordAvatar`, `DiskFails` | `ensure_channel_artwork` |
| `Wipe` | an operator removes a picture |

A module's mutants (definitions commented "Mutant") stand before the
definition they vary. No specification uses them; they document which mistake
each property would catch.

## 3. What TLC checks

| run | instance | shows |
|---|---|---|
| `episodes_sequential` | 3 videos, 1 channel, `keep_latest` 1 or 2, one thread with all jobs, 1 retry | the pipeline implements `EpisodeLifecycle`; the cap; rows and files agree; retention removes neither one too many nor one too few; parked episodes are woken on request only |
| `episodes_concurrent` | 1 video, scheduled cycle + a request thread with every job, 2 attempts, 2 retries, Retry in any state the page may be stale about, a failing `unlink` | no row is left `downloading` without an owner, `file_path` stays sound, overlapping cycles overshoot the cap by less than their number |
| `poller_concurrent` | 2 pollers, 2 slugs, a channel and a playlist sharing a video, threshold 2, a restart | nothing is queued before the baseline, no backfill, no row inserted twice, breaker and count agree |
| `poller_sequential` | 1 poller, 3 uploads, 1 slug that may be removed and reused for either source, withdrawals, a restart | the poller implements `Discovery`; uploads are found and backoffs end under fairness; the count stops at the threshold |
| `podmachine` | 1 channel, 1 video uploaded at any time, scheduled cycles next to process and delete requests, failing fetches, one crash, failing `mkdir` or failing `unlink` | the composition implements Episodes; an upload is recorded and settles; pending rows are picked up, failures retried, deletions completed |
| `channels_admin` | 3 slugs, 2 sources, 2 admins with 2 requests between them, scheduled cycles, any two of crash, failing write and removed picture | the table changes as `Tracking` allows; covers are whole and come back; a cycle's policy was in force; requests end |
| `sync_shared` | 2 channels, 3 videos (two on one channel), 2 threads that may start a sync, other jobs that queue and take rows, exceptions | one sync at a time, and it ends; the sync implements `SyncSession`; counters agree; the bar never moves back; badges and summary are true when nobody interfered |

Every property of these runs has a mutant in `PROJECT.json` under which TLC
finds it violated.

**Bounds.** What races in the episode pipeline is two threads on one row: a
row's life depends on other rows only through the list a job works through and
through retention, and the sequential run has three rows for those. Two retries
and two attempts are the smallest numbers that tell "one more" from "the last
one". `keep_latest` 1 and 2 with three episodes has something kept and
something removed under each, and changes between the two. `WINDOW` 1 is the
smallest window that loses an entry; two episodes on one channel and one on
another tell a channel's last episode from one before it, and a slug that was
counted from one that was not; a third starter of syncs would find the same
lock as the second; threshold 2 tells a first failure from
the tripping one. In `podmachine` one video and one channel are enough for the
seam between a poll's commit and the SELECTs of jobs; the modules behind it have
several. In `channels_admin` two requests give every pair of requests that can
race for a slug, an id or a row, and the third slug is one no configuration
has; one default and one override, each changed once, already tear a cycle's
policy. Two faults are the fewest that combine: a picture is
removed and the write of its successor fails, which is the one case
`ArtworkFetched` excepts. `MaxRequests`, `MaxFaults`, `MaxRestarts` and `MaxFailures` bound faults,
restarts and the stored failure count (which overlapping failures can push
past the threshold, and which the code does not bound). The theorems below
need none of these values.

**Fairness.** A cycle is started again and again (`start_scheduler`, an
interval job), a thread that has a job gets to run, a download or a fetch
ends one way or the other (they have time-outs), and time passes. In Poller a
fetch that is attempted for ever for one slug succeeds some time (strong
fairness of `FetchSucceeds`): YouTube may fail, but not always; no property of
liveness could hold for a source that never answers. A sync's thread gets to run (`Run` in
Sync) and every poll and download it waits for ends, by success, failure or
exception. Nothing is assumed of the
admin. Withdrawn videos and removed channels are exceptions inside
`UploadsFound` and `BackoffEnds`, and `Delete` inside `UploadSettles`. In
ChannelAdmin requests and cycles that have begun go on, the container restarts,
and when avatars are asked for again and again, one is fetched some time (strong
fairness, of all fetches together); a failing write is among the bounded faults.

**Documentation and code disagree** in five runs that TLC is expected to
refute; `PROJECT.json` quotes the lines.

| run | what happens |
|---|---|
| `stranded_download` | crash after the commit of `downloading`: nothing ever selects that status again, while `sync.py` calls a restart fine because episodes "stay 'pending'" |
| `deleted_redownloaded` | an episode deleted while it is in a cycle's list is downloaded after all |
| `lost_upload` | overlapping first polls: what was published in between becomes `baseline` and is never downloaded |
| `sync_stops` | an episode queued between the COUNT and the SELECT, for a channel that had nothing pending: KeyError in the progress callback, and the rest of the list is not downloaded |
| `backfill` | a channel with a baseline is removed, with no poll in flight, and added again: its `channel_state` row survived the removal, so it takes no new baseline, and what it had before it was added is queued |

A poll in flight has the effect of `backfill` in another way: `delete_channel`
does not stop it, and it writes `channel_state` after the removal, so even a
removal that deleted that row would not be enough. The runs with removals
contain this, `Discovery` allows it, and no document speaks of it.

Four more disagreements have no run of their own.

- **The one-time import is not one-time.** `README.md:26-28` ("the first time
  podmachine starts with an empty channel database, it imports this list and
  then ignores it from then on"), `channels.py:94-97` and `db.py:28-31` promise
  that config.yaml's channels are imported once. The code asks only whether the
  table is empty now (`channels.py:98-100`) and asks at every start: an admin
  who removes the last channel gets config.yaml's back with the next restart.
  `Tracking` describes what the code does, so `ImplementsTracking` and its
  theorem claim an import by each start that finds the table empty, and none by
  any other; they do not claim that there is one.
- **An `mkdir` that raises is no failed download.** It is outside
  `download_audio`'s `try` (`downloader.py:43`); its OSError ends the run after
  the commit of `downloading`, so the episode is neither "retried up to 3 times"
  nor "marked `failed`" (`README.md:148-149`) and stays as it is, in a process
  that lives on. `EveryEpisodeSettles` fails under this fault as under a crash:
  TLC shows it when `stranded_download.cfg` has `"mkdir"` for `"crash"`.
- **Overlapping cycles** (the scheduled one and POST `/run`) both select the
  same stale failure and both count it, past the "capped at 5 attempts" of
  `README.md:156-157`: `RetryOvershootBounded` says by how much, and is proved.
- **A policy that was never in force.** A cycle has a channel's override from
  its start, the admin gives the channel another override and then changes the
  default, and the cycle falls back to the new default for a channel that "has
  its own override" (`README.md:99-100`). `AppliedPolicy` excludes exactly this
  case, both settings changed during one cycle.

Apart from that, POST `/settings/retention` with a `keep_latest` that is no
integer raises a ValueError its handler does not catch (`routes.py:226-228`,
unlike `routes.py:276`): the request fails, nothing is written.

**Known exceptions.** A settings form names a slug, and its UPDATE comes after
other statements: sent for a channel that is removed and whose slug is added
again meanwhile, it sets the new channel's override. `Tracking!Change` allows
it. And a picture that is removed by hand is fetched again under a path that is
already recorded; if that second write is cut short by a full disk or a crash,
`is_file()` accepts the torn file and no cycle repairs it. `ArtworkWhole` and
`ArtworkFetched` except pictures so removed (`wiped`), the second only once they
are torn for good (`TornForGood`).

**What overlapping jobs break.** `RetriesCapped`, `ParkedStaysParked`,
`DoneHasFile`, `NoOrphanFile`, `RetentionMeetsPolicy` and
`RetentionKeepsNewest` are claimed for jobs that run one after the other only.
With two threads `ParkedStaysParked` fails in a run above and `RetriesCapped`
as just said; the others fail too: a
Delete of a `done` row whose Retry is being downloaded elsewhere leaves a
`done` row without its file, or a file without a row, and a Delete during
retention takes away the newer episodes the decision was based on.
`NoBackfill` is claimed while no channel is removed and nothing is withdrawn: a
withdrawal lets an older video slide back into the feed's window.

## 4. What is proved

TLAPS checks every theorem for all values of the constants: any number of
threads, videos, channels, retries, pollers.

`EpisodesProofs`

- `TypeCorrect`. `TypeOK`; the invariant behind everything else. It is not
  inductive alone: the attempt counter stays in range, and the file that
  appears is a video's, because a thread at `download` has a row in hand and an
  attempt left (`DownloadSound`).
- `RowPathCorrect`. `RowPathSound` for every interleaving and fault. Needs
  that a thread about to write `done` or a tombstone sets or clears the path in
  the same step, which is why the mutant that forgets to clear it is found.
- `DownloadsAreOwned` (assuming `Faults \subseteq {"unlink"}`: a crash or an
  `mkdir` that raises does strand the row). A row gets `downloading` from a
  thread that then has it as `current`; that thread reaches a label that
  overwrites the status or, when the file was deleted under it, the deleting
  thread has one ahead. The invariant ties the two: while a file is missing
  for a `stat`, somebody else is about to tombstone.
- `RetryOvershoot` and, from it, `RetriesCappedWithOneCycle` (assuming at most
  one thread runs cycles). A counting argument: the count plus the number of
  cycles that hold the row in their list never reaches
  `MAX_LONG_RANGE_RETRIES` plus the number of cycle threads, since a cycle
  takes the row only while the count is below the cap, and every cycle that
  increments it has stopped holding it.
- `JobsAreFinite` (finitely many videos and channels): `JobsRunOut`. A job of
  any kind has at most `JobLength` steps. `StepsLeft` counts those it can still
  take: three for a row of a retention list (`PerChannel`), for a pending row
  its attempts and three more (`PerRow`), and at `select` as many rows as there
  are videos, since it is not known yet how many are pending. Each step and each
  fault lowers it; other jobs, polls and settings leave it, although they
  change the rows the job works on; a crash makes it zero.

`EpisodesSequentialProofs`, all under `OneJobAtATime`: there is one thread. That
is the assumption of `episodes_sequential` without its bounds; what else each
theorem assumes is what the code needs for it:

| theorem | faults it survives | Retry |
|---|---|---|
| `EpisodesImplementLifecycle` | a failing `unlink`; the others strand a row in `downloading` | on failed rows, where the page offers it |
| `ParkedUntilAskedFor` | all | on any row |
| `FeedIsPlayable` | failing `mkdir` and `unlink`; a crash in `delete_episode` leaves a `done` row without its file | on any row |
| `FilesAreReferred` | a failing `mkdir`; a crash or a failing `unlink` leaves a file behind | on any row |
| `RetentionIsCeiling`, `RetentionIsFloor` | all; finitely many videos | on any row |

- `EpisodesImplementLifecycle` and `ParkedUntilAskedFor`. `ListInv`: while a job
  holds rows in its list, they have the status it selected them by. It survives
  every fault; a second thread is what breaks it. For the lifecycle add
  `OneDownload`, 'downloading' is the status of the row in hand and of no other:
  then each UPDATE that checks nothing is the move `EpisodeLifecycle` allows.
- `FeedIsPlayable` and `FilesAreReferred`. `PlaySound`: a `done` row lacks its
  file only at `tombstone`. `FileInv`, by the thread's label: a file lacks its
  row's `file_path` only between a download and its commit, and the path a
  deletion read is still the row's.
- `RetentionIsCeiling` and `RetentionIsFloor`, for finitely many videos. Two
  lemmas about the slice: what is kept is at most `keep_latest` (`KeepsNoMore`:
  the oldest kept row has all others above it), and each removed row has
  `keep_latest` newer ones that stay (`KeepsNoFewer`: those newer than the
  newest removed one). `PolicyMet` carries both through the loop by setting
  aside the rows selected and not yet tombstoned (`Doomed`): what remains does
  not change until the next SELECT.

`PollerProofs`

- `PollerTypeCorrect`, with what is known of the channel in hand at each label.
- `BreakerConsistent`. Every step writes count and backoff together and from
  the same number, however stale that number is.
- `RowsAreKept`. The action property that no step replaces a row.
- `NothingQueuedEarly`. A poller that saw the flag is right about it for ever,
  since nothing clears the flag: that is the strengthening.
- `SolePollerKeepsPromise` (assuming a single poller): `Spec => Discovery`,
  the refinement that the run `poller_sequential` checks on an instance. A
  sole poller's `sawBaseline` equals the flag from its SELECT to its commit, so
  its baseline commit is an `Establish`, its other insert a `Find`, and
  everything else a stutter.
- `SolePollerCount`. A sole poller only fetches with a count below the threshold,
  since a full count means a backoff (`BreakerMatchesCount`) and a backoff is
  waited for and reset first; nobody else raises the count before it writes.
- `HistoryStaysOut` (assuming finitely many videos, no removals, and withdrawals
  from playlists only): `NoBackfill` with any number of overlapping pollers. Every video
  a source had when it was added is recorded or out of the window once the
  baseline flag is set (`PastSound`), because the window only moves forward
  (`WindowMoves`) and a playlist, listed in full, only loses what is withdrawn
  (`WindowShrinks`): what the baseline's fetch did not list no later fetch lists.
  A poller carries the same knowledge from its fetch to its commit (`FetchSound`).
  Removals break `ChannelSound`, as run `backfill` shows; in a channel's feed a
  withdrawal lets an older entry back into the window.
- `PollsAreFinite` (finitely many slugs): `PollsRunOut`, six steps for each
  channel on the list, whatever is added, removed or uploaded meanwhile. An
  expired backoff goes on to the fetch, nothing goes back for a channel.

`PodmachineProofs`

- `SystemImplementsEpisodes`: `SystemSpec => Episodes!Spec`, for any listings,
  sources, polls in flight and faults. Every step of the system is a step of
  Episodes or leaves its variables alone; a poll's commit is `Discover` of the
  rows `INSERT OR IGNORE` finds absent, and needs only that `status` is a
  function (`TypeInv`) and that `Discover` may insert any of the three statuses.
- By it the theorems above hold of cycles that poll, under the assumptions they
  name: `SystemKeepsRows` (`RowPathSound`, `RetryOvershootBounded`),
  `SystemCapsRetries` (one thread runs cycles), `SystemOwnsDownloads` (no crash, no
  failing `mkdir`), and `SystemRetains` (one thread): ceiling, floor and parked
  episodes, where it matters most that later polls list a deleted episode again.

`ChannelAdminProofs`

- `ChannelAdminTypeCorrect`, with what a request or a cycle has in hand at each
  label (`RequestSound`, `HandSound`).
- `AdminImplementsTracking`: `Spec => Tracking`. `Duplicate` is evaluated twice in
  `add_channel`, by its SELECT and by the table's constraints; the proof uses only
  the second, which is why requests may interleave at will between the two. That
  rows change only while the process runs takes `ServerUp`: a thread under way is
  one of a process that is up, since a crash takes its threads along.
- `ArtworkStaysWhole` (assuming at most one thread runs cycles). Strengthening:
  while a picture is on its way, its path is not recorded yet, or the file was
  wiped (`Fetching`).
- `CyclesApplyPolicy`, for any number of cycles and requests. `CycleKnows`: while
  a channel's row is untouched the list still has its override, while the
  default is untouched falling back to it gives a policy in force since the
  cycle began; so at `ReadDefault` one of the two settings vouches for the pair.

`SyncProofs`

- `SyncTypeCorrect`, with what is in hand while a channel or an episode is worked
  on (`HandSound`).
- `OneSync`. The phase and the set of threads at work change together: that
  equivalence is part of the property, and it is what makes "only one" inductive.
- `SyncImplementsSession`: `Spec => SyncSession`. Needs `Progress`: the thread's
  place determines the phase, and `done` equals the index of its loop, so that
  the callbacks' `done = index + 1` finishes exactly one item.
- `SyncIsFinite`: `SyncRunsOut`, at most `5 + 2 * (channels + videos)` steps for
  a sync, whatever other jobs queue or take.

`SyncSummaryProofs`

- `BadgesAreSettled` and `SummaryIsTruthful`. While polling, a badge that is not
  settled belongs to a channel still in the queue. The COUNT fixes the set of
  episodes; from then on each of them is fetched, missed or left (`Counted`,
  `Left`), and badges, counters and the dictionary of remaining episodes are
  determined by these three sets. An exception leaves that as it is. The one
  thing needed of other jobs is what the properties say themselves: that they
  left the pending rows alone (`~disturbed`).

- `CountersAgree`: `CountsAddUp`, for any number of slugs and episodes.
  `total = done + Sum(remaining[r])` is about a sum over a dictionary. When
  processing starts the dictionary has the size of each slug's part of the pending
  rows, and the parts add up to the COUNT (`SumOfParts`); an episode that ends
  lowers one entry by one, so the sum by one (`SumLess`). `CountersSound`
  carries this while other jobs queue and take rows.
- `BarOnlyAdvances`: `BarNeverMovesBack`. Each half of the bar is a `Share` of at
  most 50, rounded half to even as Python's `round` does. Rounding is monotone
  (`RoundedMonotone`, case by case on the remainders), so the bar moves with
  `done` (`ShareGrows`); `total` changes only as the first half gives way to the
  second.

`CountingLemmas` has what these need about numbers and sums. The prover cannot
use induction theorems, whose parameter is an operator; but a least
counterexample is a statement about sets, and `FirstInduction` (what holds of the
empty set, and of a set if it holds without its first element, holds of every
subset of a finite set) follows from the well-foundedness of `Nat`. `PartialSumsExist`
and `SumUnfolds` give the fold its recursion equation, `SumExcept`, `SumLess` and
`SumOfParts` its algebra, `Division`, `ProductOrder` and `DivisionMonotone` what
`\div` does to an order.

**Model-checked only.** The liveness properties: `PendingPickedUp`,
`FailureRetried`, `UploadSettles`, `RemovalCompletes`, `UploadsFound`,
`BackoffEnds`, `SyncEnds`, `ArtworkFetched`, `RequestsEnd`. Fairness speaks of
ENABLED, which is beyond the prover. What can be said without it is proved:
`JobsAreFinite`, `PollsAreFinite` and `SyncIsFinite` leave nothing to loop for
ever, so that a scheduler that runs every thread ends them, unless they block.
(TLC agrees with the three on the instances of `episodes_concurrent`,
`poller_concurrent` and `sync_shared`; no run lists them, as they speak of the
proofs' measures.) Every invariant and action property a
passing run checks is a theorem, most under no assumption but the constants' own;
those that need one thread, one poller or fewer faults name them.

## 5. What is not modelled

- All of the program in one module: Podmachine keeps channels and settings
  fixed, ChannelAdmin has no episodes, Sync only the set of pending rows.
- SQLite's busy time-out: an UPDATE that waits longer than five seconds raises;
  a job ended that way is like `MkdirFails` at another label.
- `age` and `size` retention: the code logs a warning and does nothing.
- Tagging, the feed's XML, status pages, authentication, parsing of pasted URLs,
  names and pictures out of YouTube's answers, and validation of config.yaml:
  reads, best-effort extras and input checks that change none of the state above.
- Values of the category: its commit is a step, nothing depends on what it says.
- A slug used again for another channel finds the old one's `channel_state`: the
  baseline (run `backfill`) and the picture, which nothing checks the owner of.

## 6. Plan

1. Done: `VideoTable`, `Processor`, `Requeue`, `Retention`, `Episodes` with
   `EpisodeLifecycle`; `Poller` with `Discovery`; their proofs above.
2. Done: `Sync` with `SyncSession` and its proofs.
3. Done: `Podmachine`, from upload to feed; `ChannelAdmin` with `Tracking`; their
   proofs.
4. Done: `EpisodesSequentialProofs`, the properties claimed for one thread.
5. Done: `SyncSummaryProofs`, the badges and the summary; `HistoryStaysOut`, no
   backfill.
6. Done: `CountingLemmas`, with it the counters and the bar; the one-thread
   theorems without the faults they do not need; the theorems carried over to
   the composed system; jobs, polls and syncs are finite.
7. Left: what two threads still keep of the properties claimed for one.
