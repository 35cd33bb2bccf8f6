-------------------------- MODULE SyncSummaryProofs --------------------------
(***************************************************************************)
(* What a sync tells the admin, proved for any number of channels and      *)
(* videos.  Nothing is assumed about the jobs that run next to it: those   *)
(* properties that need it say themselves that nobody touched what was     *)
(* pending between the COUNT and the end.                                  *)
(***************************************************************************)
EXTENDS SyncProofs, CountingLemmas

USE DEF manager, summary, database, locals, history

Settled == {"none", "checked", "failed"}

\* The episodes r has still to handle, and all that its COUNT counted.
Left(r) ==
    IF pc[r] = "select" THEN pending
    ELSE IF pc[r] = "download" THEN rows[r] \cup {hand[r]} ELSE rows[r]

Counted(r) == fetched \cup missed \cup Left(r)

\* While channels are polled no episode is counted, and a badge that is not
\* settled is of a channel still to be polled.
PollSound(r) ==
    /\ pc[r] \in AtChannels \cup {"idle"} => failedSlugs[r] = {}
    /\ pc[r] \in AtChannels => /\ fetched = {} /\ missed = {}
                               /\ downloaded = 0 /\ channelsWithNew = 0
    /\ pc[r] \in {"poll", "checking"} => \A c \in Channels :
           badge[c] \in Settled \/ c \in queue[r] \/ (pc[r] = "checking" /\ c = hand[r])

\* A sync that had nothing to download.
NothingFound ==
    /\ fetched = {} /\ missed = {} /\ pending = {}
    /\ downloaded = 0 /\ channelsWithNew = 0
    /\ \A c \in Channels : badge[c] \in Settled

\* One that had: each episode counted is downloaded, missed or left, and the
\* counters, the dictionary and the badges say which.
EpisodesSound(r) ==
    /\ pc[r] # "select" => pending = rows[r]
    /\ pc[r] = "download" => hand[r] \notin rows[r]
    /\ pc[r] = "finish" => rows[r] = {}
    /\ (fetched \cup missed) \cap Left(r) = {}
    /\ fetched \cap missed = {}
    /\ downloaded = Cardinality(fetched)
    /\ channelsWithNew = Cardinality({Owner[v] : v \in Counted(r)})
    /\ DOMAIN remaining[r] = {Owner[v] : v \in Counted(r)}
    /\ \A c \in DOMAIN remaining[r] :
           remaining[r][c] = Cardinality({v \in Left(r) : Owner[v] = c})
    /\ failedSlugs[r] = {Owner[v] : v \in missed}
    /\ \A c \in Channels \ DOMAIN remaining[r] : badge[c] \in Settled
    /\ \A c \in DOMAIN remaining[r] :
           remaining[r][c] = 0 =>
               badge[c] = IF c \in failedSlugs[r] THEN "failed" ELSE "downloaded"

RunSound(r) ==
    /\ PollSound(r)
    /\ pc[r] \in AtEpisodes /\ ~disturbed => EpisodesSound(r)
    /\ pc[r] = "finish" /\ ~disturbed => NothingFound \/ EpisodesSound(r)

SummaryInv == BadgesSettle /\ SummaryTruthful /\ \A r \in Runs : RunSound(r)

LEMMA SummaryInit == Init => SummaryInv
  BY DEF Init, SummaryInv, BadgesSettle, SummaryTruthful, Undisturbed, RunSound, PollSound,
         AtChannels, AtEpisodes

\* Only the thread at work, and only its end, can disturb the invariant.
LEMMA SummaryByRun ==
  ASSUME SyncInv, SummaryInv, NEW r \in Runs, Run(r), ~Finish(r), RunSound(r)',
         \A s \in Runs \ {r} : failedSlugs'[s] = failedSlugs[s]
  PROVE  SummaryInv'
<1>1. phase' # "done"
  BY OneSyncAlone
  DEF SyncInv, Run, ListChannels, CheckChannel, ChannelChecked, ChannelBackedOff, ChannelFails,
      ChannelDone, NothingPending, StartProcessing, SelectPending, StartDownload,
      DownloadSucceeds, DownloadFails, SlugNotCounted, StepRaises, RowsDone, Running
<1>2. \A s \in Runs \ {r} : pc[s] = "idle" /\ pc'[s] = "idle"
  BY OneSyncAlone DEF SyncInv
<1>3. \A s \in Runs \ {r} : RunSound(s)'
  BY <1>2 DEF SummaryInv, RunSound, PollSound, AtChannels, AtEpisodes
<1> QED
  BY <1>1, <1>3 DEF SummaryInv, BadgesSettle, SummaryTruthful, Undisturbed

LEMMA SummaryPoll ==
  ASSUME SyncInv, SummaryInv, NEW r \in Runs,
         \/ ListChannels(r) \/ CheckChannel(r) \/ NothingPending(r)
         \/ ChannelChecked(r) \/ ChannelBackedOff(r) \/ ChannelFails(r)
  PROVE  RunSound(r)'
<1> RunSound(r)
  BY DEF SummaryInv
<1> USE DEF Goto, SetBadge, SyncInv, TypeInv, TypeOK, RunSound, PollSound, AtChannels, AtEpisodes, Settled
<1>1. CASE ListChannels(r)
  BY <1>1 DEF ListChannels
<1>2. CASE CheckChannel(r)
  BY <1>2 DEF CheckChannel
<1>3. CASE NothingPending(r)
  BY <1>3 DEF NothingPending, NothingFound
<1>4. CASE ChannelChecked(r)
  BY <1>4 DEF ChannelChecked, ChannelDone
<1>5. CASE ChannelBackedOff(r)
  BY <1>5 DEF ChannelBackedOff, ChannelDone
<1>6. CASE ChannelFails(r)
  BY <1>6 DEF ChannelFails, ChannelDone
<1> QED
  BY <1>1, <1>2, <1>3, <1>4, <1>5, <1>6

LEMMA SummaryCount ==
  ASSUME SyncInv, SummaryInv, NEW r \in Runs, StartProcessing(r)
  PROVE  RunSound(r)'
<1> RunSound(r)
  BY DEF SummaryInv
<1> USE DEF Goto, SyncInv, TypeInv, TypeOK
<1>1. /\ pc[r] = "poll" /\ pc'[r] = "select" /\ queue[r] = {} /\ pending # {}
      /\ UNCHANGED <<pending, fetched, missed, downloaded, failedSlugs>>
      /\ channelsWithNew' = Cardinality(PendingSlugs)
      /\ remaining'[r] = [c \in PendingSlugs |-> Cardinality(PendingOf(c))]
      /\ badge' = [c \in Channels |-> IF c \in PendingSlugs THEN "queued" ELSE badge[c]]
  BY DEF StartProcessing
<1>2. /\ fetched = {} /\ missed = {} /\ downloaded = 0 /\ failedSlugs[r] = {}
      /\ \A c \in Channels : badge[c] \in Settled
  BY <1>1 DEF RunSound, PollSound, AtChannels
<1>3. Left(r)' = pending /\ Counted(r)' = pending
  BY <1>1, <1>2 DEF Left, Counted
<1>4. \A c \in PendingSlugs : remaining'[r][c] = Cardinality({v \in Left(r)' : Owner[v] = c})
  BY <1>1, <1>3 DEF PendingOf
<1>5. \A c \in PendingSlugs : remaining'[r][c] # 0
  <2> SUFFICES ASSUME NEW c \in PendingSlugs PROVE Cardinality(PendingOf(c)) # 0
    BY <1>1
  <2>1. PendingOf(c) # {} /\ PendingOf(c) \in SUBSET Videos
    BY DEF PendingSlugs, PendingOf
  <2> QED
    BY <2>1, FiniteAssumption, FS_Subset, FS_EmptySet
<1>6. EpisodesSound(r)'
  BY <1>1, <1>2, <1>3, <1>4, <1>5, FS_EmptySet DEF EpisodesSound, PendingSlugs
<1> QED
  BY <1>1, <1>6 DEF RunSound, PollSound, AtChannels, AtEpisodes

\* The SELECT of the rows to process, and one of them taken in hand.
LEMMA SummaryRow ==
  ASSUME SyncInv, SummaryInv, NEW r \in Runs, SelectPending(r) \/ StartDownload(r) \/ RowsDone(r)
  PROVE  RunSound(r)'
<1> RunSound(r)
  BY DEF SummaryInv
<1> USE DEF Goto, SetBadge, SyncInv, TypeInv, TypeOK, RunSound, PollSound, AtChannels, AtEpisodes
<1>1. CASE SelectPending(r)
  <2>1. /\ pc[r] = "select" /\ pc'[r] = "row" /\ rows'[r] = pending
        /\ UNCHANGED <<badge, pending, fetched, missed, disturbed, downloaded, channelsWithNew,
                       remaining, failedSlugs>>
    BY <1>1 DEF SelectPending
  <2>2. Left(r)' = Left(r) /\ Counted(r)' = Counted(r)
    BY <2>1 DEF Left, Counted
  <2> QED
    BY <2>1, <2>2 DEF EpisodesSound
<1>2. CASE StartDownload(r)
  <2>1. PICK v \in rows[r] : StartDownload(r)!2!(v)
    BY <1>2 DEF StartDownload
  <2>2. /\ pc[r] = "row" /\ pc'[r] = "download" /\ v \in Videos
        /\ UNCHANGED <<fetched, missed, disturbed, downloaded, channelsWithNew, remaining,
                       failedSlugs>>
    BY <1>2 DEF StartDownload
  <2>3. Left(r)' = Left(r) /\ Counted(r)' = Counted(r)
    BY <2>1, <2>2 DEF Left, Counted
  <2>4. ASSUME ~disturbed
        PROVE  EpisodesSound(r)'
    <3>1. EpisodesSound(r)
      BY <2>2, <2>4
    <3>2. /\ Owner[v] \in DOMAIN remaining[r] /\ v \in Left(r)
          /\ remaining[r][Owner[v]] = Cardinality({w \in Left(r) : Owner[w] = Owner[v]})
      BY <2>1, <2>2, <3>1 DEF EpisodesSound, Counted, Left
    <3>3. remaining[r][Owner[v]] # 0
      <4> DEFINE mine == {w \in Left(r) : Owner[w] = Owner[v]}
      <4>1. mine # {} /\ mine \in SUBSET Videos
        BY <2>1, <2>2, <3>2 DEF Left
      <4> QED
        BY <3>2, <4>1, FiniteAssumption, FS_Subset, FS_EmptySet
    <3>4. pending' = rows'[r] /\ hand'[r] \notin rows'[r] /\ badge' = [badge EXCEPT ![Owner[v]] = "downloading"]
      BY <2>1, <2>2, <3>1 DEF EpisodesSound
    <3> QED
      BY <2>2, <2>3, <3>1, <3>2, <3>3, <3>4 DEF EpisodesSound
  <2> QED
    BY <2>2, <2>4
<1>3. CASE RowsDone(r)
  <2>1. /\ pc[r] = "row" /\ pc'[r] = "finish" /\ rows[r] = {}
        /\ UNCHANGED <<badge, pending, rows, fetched, missed, disturbed, downloaded,
                       channelsWithNew, remaining, failedSlugs>>
    BY <1>3 DEF RowsDone
  <2>2. Left(r)' = Left(r) /\ Counted(r)' = Counted(r)
    BY <2>1 DEF Left, Counted
  <2> QED
    BY <2>1, <2>2 DEF EpisodesSound
<1> QED
  BY <1>1, <1>2, <1>3

LEMMA OneFewer ==
  ASSUME NEW S, IsFiniteSet(S), NEW x \in S
  PROVE  Cardinality(S \ {x}) = Cardinality(S) - 1
  BY FS_RemoveElement

\* An episode ends, well or not: failures are the slugs with a failed one by now.
LEMMA SummaryEpisode ==
  ASSUME SyncInv, SummaryInv, NEW r \in Runs, DownloadSucceeds(r) \/ DownloadFails(r)
  PROVE  RunSound(r)'
<1> DEFINE v == hand[r]
           c == Owner[v]
<1> USE DEF Goto, SyncInv, TypeInv, TypeOK
<1>1. /\ pc[r] = "download" /\ pc'[r] = "row" /\ c \in DOMAIN remaining[r] /\ v \in Videos
      /\ UNCHANGED <<pending, rows, disturbed, channelsWithNew>>
      /\ EpisodeCounted(r, c, failedSlugs'[r])
  BY DEF DownloadSucceeds, DownloadFails, EpisodeCounted, HandSound
<1>2. SUFFICES ASSUME ~disturbed PROVE EpisodesSound(r)'
  BY <1>1 DEF RunSound, PollSound, AtChannels, AtEpisodes
<1>3. EpisodesSound(r)
  BY <1>1, <1>2 DEF SummaryInv, RunSound, AtEpisodes
<1>4. v \in Left(r) /\ Left(r)' = Left(r) \ {v} /\ Left(r) \subseteq Videos
  BY <1>1, <1>3 DEF Left, EpisodesSound
<1>5. IsFiniteSet(fetched) /\ v \notin fetched \cup missed
  BY <1>3, <1>4, FiniteAssumption, FS_Subset DEF EpisodesSound
<1>6. /\ \/ fetched' = fetched \cup {v} /\ missed' = missed
         \/ fetched' = fetched /\ missed' = missed \cup {v}
      /\ downloaded' = Cardinality(fetched')
      /\ failedSlugs'[r] = {Owner[w] : w \in missed'}
  <2>1. CASE DownloadSucceeds(r)
    <3>1. Cardinality(fetched \cup {v}) = Cardinality(fetched) + 1
      BY <1>5, FS_AddElement
    <3> QED
      BY <1>3, <2>1, <3>1 DEF DownloadSucceeds, EpisodeCounted, EpisodesSound
  <2>2. CASE DownloadFails(r)
    BY <1>3, <2>2 DEF DownloadFails, EpisodeCounted, EpisodesSound
  <2> QED
    BY <2>1, <2>2
<1>7. Counted(r)' = Counted(r)
  BY <1>4, <1>6 DEF Counted
<1>8. /\ remaining'[r] = [remaining[r] EXCEPT ![c] = @ - 1]
      /\ DOMAIN remaining'[r] = DOMAIN remaining[r]
  BY <1>1 DEF EpisodeCounted
<1>9. \A d \in DOMAIN remaining[r] :
          remaining'[r][d] = Cardinality({w \in Left(r)' : Owner[w] = d})
  <2> SUFFICES ASSUME NEW d \in DOMAIN remaining[r]
               PROVE  remaining'[r][d] = Cardinality({w \in Left(r) \ {v} : Owner[w] = d})
    BY <1>4
  <2> DEFINE theirs == {w \in Left(r) : Owner[w] = d}
  <2>1. IsFiniteSet(theirs) /\ Cardinality(theirs) = remaining[r][d]
    BY <1>3, <1>4, FiniteAssumption, FS_Subset DEF EpisodesSound
  <2>2. CASE d = c
    <3>1. v \in theirs /\ {w \in Left(r) \ {v} : Owner[w] = d} = theirs \ {v}
      BY <1>4, <2>2
    <3>2. Cardinality(theirs \ {v}) = Cardinality(theirs) - 1
      BY <2>1, <3>1, OneFewer
    <3> QED
      BY <1>8, <2>1, <2>2, <3>1, <3>2
  <2>3. CASE d # c
    <3>1. {w \in Left(r) \ {v} : Owner[w] = d} = theirs
      BY <2>3
    <3> QED
      BY <1>8, <2>1, <2>3, <3>1
  <2> QED
    BY <2>2, <2>3
<1>10. \A d \in DOMAIN remaining[r] :
          remaining'[r][d] = 0 =>
              badge'[d] = IF d \in failedSlugs'[r] THEN "failed" ELSE "downloaded"
  <2>1. /\ badge' = IF remaining[r][c] # 1 THEN badge
                    ELSE [badge EXCEPT ![c] = IF c \in failedSlugs'[r] THEN "failed"
                                              ELSE "downloaded"]
        /\ remaining[r] \in [DOMAIN remaining[r] -> Int] /\ c \in Channels
    BY <1>1, OwnerAssumption DEF EpisodeCounted
  <2>2. \A d \in DOMAIN remaining[r] \ {c} :
            /\ remaining'[r][d] = remaining[r][d] /\ badge'[d] = badge[d]
            /\ d \in failedSlugs'[r] <=> d \in failedSlugs[r]
    BY <1>3, <1>6, <1>8, <2>1 DEF EpisodesSound
  <2>3. remaining'[r][c] = 0 =>
            badge'[c] = IF c \in failedSlugs'[r] THEN "failed" ELSE "downloaded"
    BY <1>1, <1>8, <2>1
  <2> QED
    BY <1>3, <2>2, <2>3 DEF EpisodesSound
<1>11. \A d \in Channels \ DOMAIN remaining[r] : badge'[d] = badge[d]
  BY <1>1 DEF EpisodeCounted
<1>12. pending' = rows'[r] /\ (fetched' \cup missed') \cap Left(r)' = {} /\ fetched' \cap missed' = {}
  BY <1>1, <1>3, <1>4, <1>5, <1>6 DEF EpisodesSound
<1> QED
  BY <1>1, <1>3, <1>6, <1>7, <1>8, <1>9, <1>10, <1>11, <1>12 DEF EpisodesSound

LEMMA SummaryRaise ==
  ASSUME SyncInv, SummaryInv, NEW r \in Runs, SlugNotCounted(r) \/ StepRaises(r)
  PROVE  RunSound(r)'
  BY DEF SlugNotCounted, StepRaises, Goto, SyncInv, TypeInv, TypeOK, RunSound, PollSound,
         AtChannels, AtEpisodes

LEMMA SummaryFinish ==
  ASSUME SyncInv, SummaryInv, NEW r \in Runs, Finish(r)
  PROVE  SummaryInv'
<1> USE DEF SyncInv, TypeInv, TypeOK
<1>1. \A s \in Runs : RunSound(s)'
  <2>1. pc'[r] = "idle" /\ failedSlugs'[r] = {}
    BY DEF Finish, Leave
  <2>2. \A s \in Runs \ {r} : pc'[s] = "idle" /\ failedSlugs'[s] = failedSlugs[s] /\ pc[s] = "idle"
    BY OneSyncAlone DEF Finish, Leave, Run
  <2>3. \A s \in Runs \ {r} : failedSlugs[s] = {}
    BY <2>2 DEF SummaryInv, RunSound, PollSound
  <2> QED
    BY <2>1, <2>2, <2>3 DEF RunSound, PollSound, AtChannels, AtEpisodes
<1>2. UNCHANGED <<badge, downloaded, channelsWithNew, pending, fetched, missed, disturbed>>
  BY DEF Finish
<1>3. ASSUME Undisturbed'
      PROVE  NothingFound \/ (EpisodesSound(r) /\ pc[r] = "finish")
  BY <1>3 DEF Undisturbed, Finish, SummaryInv, RunSound
<1>4. Undisturbed' => BadgesSettle' /\ SummaryTruthful'
  <2>1. CASE NothingFound
    <3>1. {Owner[v] : v \in fetched \cup missed} = {}
      BY <2>1 DEF NothingFound
    <3> QED
      BY <1>2, <2>1, <3>1, FS_EmptySet DEF NothingFound, BadgesSettle, SummaryTruthful, Settled
  <2>2. CASE EpisodesSound(r) /\ pc[r] = "finish"
    <3>1. Left(r) = {} /\ pending = {} /\ Counted(r) = fetched \cup missed
      BY <2>2 DEF EpisodesSound, Left, Counted
    <3>2. \A c \in DOMAIN remaining[r] : {v \in Left(r) : Owner[v] = c} = {}
      BY <3>1
    <3>3. \A c \in DOMAIN remaining[r] :
              badge[c] = IF c \in failedSlugs[r] THEN "failed" ELSE "downloaded"
      BY <2>2, <3>2, FS_EmptySet DEF EpisodesSound
    <3>4. \A v \in missed : Owner[v] \in DOMAIN remaining[r] /\ Owner[v] \in failedSlugs[r]
      BY <2>2 DEF EpisodesSound, Counted
    <3> QED
      BY <1>2, <2>2, <3>1, <3>3, <3>4 DEF EpisodesSound, BadgesSettle, SummaryTruthful, Settled
  <2> QED
    BY <1>3, <2>1, <2>2
<1>5. ~Undisturbed' => BadgesSettle' /\ SummaryTruthful'
  BY DEF BadgesSettle, SummaryTruthful
<1> QED
  BY <1>1, <1>4, <1>5 DEF SummaryInv

LEMMA SummaryRun ==
  ASSUME SyncInv, SummaryInv, NEW r \in Runs, Run(r)
  PROVE  SummaryInv'
<1>1. CASE Finish(r)
  BY <1>1, SummaryFinish
<1>2. CASE ~Finish(r)
  <2>1. \A s \in Runs \ {r} : failedSlugs'[s] = failedSlugs[s]
    BY <1>2
    DEF Run, ListChannels, CheckChannel, ChannelChecked, ChannelBackedOff, ChannelFails,
        ChannelDone, NothingPending, StartProcessing, SelectPending, StartDownload,
        DownloadSucceeds, DownloadFails, EpisodeCounted, SlugNotCounted, StepRaises, RowsDone,
        SyncInv, TypeInv, TypeOK
  <2>2. RunSound(r)'
    BY <1>2, SummaryPoll, SummaryCount, SummaryRow, SummaryEpisode, SummaryRaise DEF Run
  <2> QED
    BY <1>2, <2>1, <2>2, SummaryByRun
<1> QED
  BY <1>1, <1>2

LEMMA SummaryStep == SyncInv /\ SummaryInv /\ [Next]_vars => SummaryInv'
<1> SUFFICES ASSUME SyncInv, SummaryInv, [Next]_vars
             PROVE  SummaryInv'
  OBVIOUS
<1> USE DEF SummaryInv, RunSound, PollSound, AtChannels, AtEpisodes, BadgesSettle, SummaryTruthful,
            Undisturbed
<1>1. ASSUME NEW r \in Runs, Begin(r)
      PROVE  SummaryInv'
  <2>1. \A s \in Runs : pc[s] = "idle" /\ pc'[s] \in {"idle", "list"}
    BY <1>1 DEF SyncInv, OneSyncAtATime, Active, Begin, Goto, TypeInv, TypeOK
  <2> QED
    BY <1>1, <2>1 DEF Begin, FreshState
<1>2. ASSUME NEW r \in Runs, Run(r)
      PROVE  SummaryInv'
  BY <1>2, SummaryRun
<1>3. ASSUME NEW v \in Videos, Queue(v) \/ Take(v)
      PROVE  SummaryInv'
  BY <1>3 DEF Queue, Take
<1>4. CASE Dismiss
  <2>1. \A s \in Runs : pc[s] = "idle"
    BY <1>4 DEF SyncInv, OneSyncAtATime, Active, Dismiss, Running
  <2> QED
    BY <1>4, <2>1 DEF Dismiss, FreshState
<1>5. CASE UNCHANGED <<phase, badge, downloaded, channelsWithNew, fatalError, database, pc, locals,
                       history>>
  <2>1. \A r \in Runs : Left(r)' = Left(r) /\ Counted(r)' = Counted(r)
    BY <1>5 DEF Counted, Left
  <2>2. ASSUME NEW r \in Runs, EpisodesSound(r)
        PROVE  EpisodesSound(r)'
    <3>1. \A c \in DOMAIN remaining[r] :
              remaining'[r][c] = Cardinality({v \in Left(r)' : Owner[v] = c})
      <4> SUFFICES ASSUME NEW c \in DOMAIN remaining[r]
                   PROVE  remaining'[r][c] = Cardinality({v \in Left(r)' : Owner[v] = c})
        OBVIOUS
      <4>1. {v \in Left(r)' : Owner[v] = c} = {v \in Left(r) : Owner[v] = c}
        BY <2>1
      <4>2. remaining[r][c] = Cardinality({v \in Left(r) : Owner[v] = c})
        BY <2>2 DEF EpisodesSound
      <4> QED
        BY <1>5, <4>1, <4>2
    <3>2. /\ channelsWithNew' = Cardinality({Owner[v] : v \in Counted(r)'})
          /\ DOMAIN remaining'[r] = {Owner[v] : v \in Counted(r)'}
      BY <1>5, <2>1, <2>2 DEF EpisodesSound
    <3>3. (fetched' \cup missed') \cap Left(r)' = {}
      BY <1>5, <2>1, <2>2 DEF EpisodesSound
    <3> QED
      BY <1>5, <2>2, <3>1, <3>2, <3>3 DEF EpisodesSound
  <2>3. NothingFound' <=> NothingFound
    BY <1>5 DEF NothingFound
  <2>4. BadgesSettle' /\ SummaryTruthful'
    BY <1>5
  <2> QED
    BY <1>5, <2>2, <2>3, <2>4
<1> QED
  BY <1>1, <1>2, <1>3, <1>4, <1>5 DEF Next, Expire, vars

(* A sync that nobody interferes with leaves no badge of work in progress, *)
(* and the badge of every channel with a failed download says so, for any  *)
(* number of channels and episodes (sync.py, _on_poll and _on_process).    *)
THEOREM BadgesAreSettled == Spec => []BadgesSettle
<1>1. SummaryInv => BadgesSettle
  BY DEF SummaryInv
<1> QED
  BY <1>1, SummaryInit, SummaryStep, SyncInvariance, PTL DEF Spec

(* The summary counts what was downloaded and the channels it was for, and *)
(* leaves nothing pending (sync.py, _start_processing and snapshot).       *)
THEOREM SummaryIsTruthful == Spec => []SummaryTruthful
<1>1. SummaryInv => SummaryTruthful
  BY DEF SummaryInv
<1> QED
  BY <1>1, SummaryInit, SummaryStep, SyncInvariance, PTL DEF Spec

-----------------------------------------------------------------------------
(* The counters.                                                           *)

\* The counters start from zero, and remaining[r] has a key per channel at most.
CountStart ==
    \A r \in Runs :
        /\ pc[r] = "list" => done = 0 /\ total = 0
        /\ pc[r] \in AtChannels => downloaded = 0 /\ failedDownloads = 0
        /\ DOMAIN remaining[r] \subseteq Channels

CountersSound(r) ==
    pc[r] \in {"select", "row", "download", "finish"} /\ phase = "processing" =>
        /\ done = downloaded + failedDownloads
        /\ total = done + Sum(remaining[r])

CountInv == CountStart /\ \A r \in Runs : CountersSound(r)

LEMMA CountGoal == (\A r \in Runs : CountersSound(r)) => CountsAddUp
  BY Zenon DEF CountersSound, CountsAddUp, Sum

LEMMA CountInit == Init => CountInv
  BY DEF Init, CountInv, CountStart, CountersSound, AtChannels, Empty

\* The COUNT ... GROUP BY: what remains of each channel is all that is pending.
LEMMA CountPending ==
  ASSUME TypeInv
  PROVE  Sum([c \in PendingSlugs |-> Cardinality(PendingOf(c))]) = Cardinality(pending)
<1> DEFINE o == [v \in pending |-> Owner[v]]
           f == [c \in PendingSlugs |-> Cardinality(PendingOf(c))]
<1>1. IsFiniteSet(pending) /\ IsFiniteSet(PendingSlugs)
  <2>1. pending \subseteq Videos /\ PendingSlugs \subseteq Channels
    BY OwnerAssumption DEF TypeInv, TypeOK, PendingSlugs
  <2> QED
    BY <2>1, FiniteAssumption, FS_Subset
<1>2. o \in [pending -> PendingSlugs]
  BY DEF PendingSlugs
<1>3. f \in [PendingSlugs -> Int]
  BY PendingCounts DEF TypeInv
<1>4. \A c \in PendingSlugs : f[c] = Cardinality({v \in pending : o[v] = c})
  <2>1. \A c : {v \in pending : o[v] = c} = PendingOf(c)
    BY DEF PendingOf
  <2> QED
    BY <2>1
<1> HIDE DEF o, f
<1>5. Sum(f) = Cardinality(pending)
  BY <1>1, <1>2, <1>3, <1>4, SumOfParts
<1> QED
  BY <1>5 DEF f

\* An episode done is one less that remains.
LEMMA CountEpisode ==
  ASSUME SyncInv, CountInv, NEW r \in Runs, DownloadSucceeds(r) \/ DownloadFails(r)
  PROVE  /\ done = downloaded + failedDownloads => done' = downloaded' + failedDownloads'
         /\ total = done + Sum(remaining[r]) => total' = done' + Sum(remaining'[r])
         /\ DOMAIN remaining'[r] = DOMAIN remaining[r]
<1> DEFINE c == Owner[hand[r]]
           D == DOMAIN remaining[r]
           f == remaining[r]
<1> USE DEF SyncInv, TypeInv, TypeOK
<1>1. /\ pc[r] = "download" /\ c \in D
      /\ done' = index[r] + 1 /\ total' = total
      /\ remaining'[r] = [f EXCEPT ![c] = f[c] - 1]
      /\ downloaded' + failedDownloads' = downloaded + failedDownloads + 1
  BY DEF DownloadSucceeds, DownloadFails, EpisodeDone, EpisodeCounted, Goto
<1>2. done' = done + 1
  BY <1>1 DEF Progress, AtEpisodes
<1>3. IsFiniteSet(D) /\ f \in [D -> Int] /\ f[c] \in Int /\ f[c] - 1 \in Int
  BY <1>1, FiniteAssumption, FS_Subset DEF CountInv, CountStart
<1>4. c \in D
  BY <1>1
<1>5. Sum(f) \in Int /\ Sum([f EXCEPT ![c] = f[c] - 1]) = Sum(f) - 1
  <2> HIDE DEF c, D, f, SyncInv, TypeInv, TypeOK
  <2> QED
    BY <1>3, <1>4, SumLess, Zenon
<1>6. Sum(remaining'[r]) = Sum(f) - 1
  BY <1>1, <1>5
<1>7. total = done + Sum(remaining[r]) => total' = done' + Sum(remaining'[r])
  BY <1>1, <1>2, <1>5, <1>6
<1>8. done = downloaded + failedDownloads => done' = downloaded' + failedDownloads'
  BY <1>1, <1>2
<1> QED
  BY <1>1, <1>7, <1>8

LEMMA CountRun ==
  ASSUME SyncInv, CountInv, NEW r \in Runs, Run(r)
  PROVE  CountInv'
<1> USE DEF SyncInv, TypeInv, TypeOK, Goto, AtChannels, AtEpisodes
<1>1. \A s \in Runs \ {r} : pc'[s] = "idle" /\ DOMAIN remaining'[s] \subseteq Channels
  <2>1. \A s \in Runs \ {r} : remaining'[s] = remaining[s]
    BY DEF Run, ListChannels, CheckChannel, ChannelChecked, ChannelBackedOff, ChannelFails,
           ChannelDone, NothingPending, StartProcessing, SelectPending, StartDownload,
           DownloadSucceeds, DownloadFails, EpisodeCounted, SlugNotCounted, StepRaises, RowsDone,
           Finish, Leave
  <2> QED
    BY <2>1, OneSyncAlone DEF CountInv, CountStart
<1>2. SUFFICES
        /\ pc'[r] = "list" => done' = 0 /\ total' = 0
        /\ pc'[r] \in AtChannels => downloaded' = 0 /\ failedDownloads' = 0
        /\ DOMAIN remaining'[r] \subseteq Channels
        /\ pc'[r] \in {"select", "row", "download", "finish"} /\ phase' = "processing" =>
              /\ done' = downloaded' + failedDownloads'
              /\ total' = done' + Sum(remaining'[r])
  BY <1>1 DEF CountInv, CountStart, CountersSound
<1>3. /\ pc[r] \in AtChannels => downloaded = 0 /\ failedDownloads = 0
      /\ DOMAIN remaining[r] \subseteq Channels
      /\ pc[r] \in {"select", "row", "download", "finish"} /\ phase = "processing" =>
              /\ done = downloaded + failedDownloads
              /\ total = done + Sum(remaining[r])
  BY DEF CountInv, CountStart, CountersSound
<1>4. CASE ListChannels(r) \/ CheckChannel(r)
  BY <1>3, <1>4 DEF ListChannels, CheckChannel
<1>5. CASE ChannelChecked(r) \/ ChannelBackedOff(r) \/ ChannelFails(r)
  BY <1>3, <1>5 DEF ChannelChecked, ChannelBackedOff, ChannelFails, ChannelDone
<1>6. CASE NothingPending(r)
  BY <1>3, <1>6 DEF NothingPending, Progress
<1>7. CASE StartProcessing(r)
  <2>1. /\ done' = 0 /\ downloaded' = 0 /\ failedDownloads' = 0 /\ pc'[r] = "select"
        /\ total' = Cardinality(pending)
        /\ remaining'[r] = [c \in PendingSlugs |-> Cardinality(PendingOf(c))]
    BY <1>3, <1>7 DEF StartProcessing
  <2>2. Sum(remaining'[r]) = total' /\ total' \in Nat
    BY <2>1, CountPending, PendingCounts
  <2>3. DOMAIN remaining'[r] \subseteq Channels
    BY <2>1, PendingCounts
  <2> QED
    BY <2>1, <2>2, <2>3
<1>8. CASE SelectPending(r) \/ StartDownload(r) \/ RowsDone(r)
  BY <1>3, <1>8 DEF SelectPending, StartDownload, RowsDone, Progress
<1>9. CASE DownloadSucceeds(r) \/ DownloadFails(r)
  <2>1. pc[r] = "download" /\ phase = "processing" /\ pc'[r] = "row"
    BY <1>9 DEF DownloadSucceeds, DownloadFails, Progress
  <2> QED
    BY <1>3, <1>9, <2>1, CountEpisode
<1>10. CASE SlugNotCounted(r) \/ StepRaises(r)
  BY <1>3, <1>10 DEF SlugNotCounted, StepRaises, EpisodeDone
<1>11. CASE Finish(r)
  BY <1>11 DEF Finish, Leave, Empty
<1> QED
  BY <1>4, <1>5, <1>6, <1>7, <1>8, <1>9, <1>10, <1>11 DEF Run

LEMMA CountStep == SyncInv /\ CountInv /\ [Next]_vars => CountInv'
<1> SUFFICES ASSUME SyncInv, CountInv, [Next]_vars
             PROVE  CountInv'
  OBVIOUS
<1> USE DEF CountInv, CountStart, CountersSound, AtChannels
<1>1. ASSUME NEW r \in Runs, Begin(r)
      PROVE  CountInv'
  <2>1. \A s \in Runs : pc'[s] \in {"idle", "list"}
    BY <1>1 DEF SyncInv, OneSyncAtATime, Active, Begin, Goto, TypeInv, TypeOK
  <2> QED
    BY <1>1, <2>1 DEF Begin, FreshState
<1>2. ASSUME NEW r \in Runs, Run(r)
      PROVE  CountInv'
  BY <1>2, CountRun
<1>3. ASSUME NEW v \in Videos, Queue(v) \/ Take(v)
      PROVE  CountInv'
  BY <1>3 DEF Queue, Take
<1>4. CASE Dismiss
  <2>1. \A s \in Runs : pc[s] = "idle"
    BY <1>4 DEF SyncInv, OneSyncAtATime, Active, Dismiss, Running
  <2> QED
    BY <1>4, <2>1 DEF Dismiss, FreshState
<1>5. CASE UNCHANGED <<phase, done, total, summary, pc, locals>>
  BY <1>5
<1> QED
  BY <1>1, <1>2, <1>3, <1>4, <1>5 DEF Next, Expire, vars

(* While episodes are downloaded, those finished are the downloaded and    *)
(* the failed ones, and together with what remains of every channel they   *)
(* are the episodes counted at the start, however many others are queued   *)
(* or deleted meanwhile (sync.py, _start_processing and _on_process).      *)
THEOREM CountersAgree == Spec => []CountsAddUp
<1>1. CountInv => CountsAddUp
  BY CountGoal DEF CountInv
<1> QED
  BY <1>1, CountInit, CountStep, SyncInvariance, PTL DEF Spec

-----------------------------------------------------------------------------
(* The progress bar.                                                       *)

LEMMA RoundedType ==
  ASSUME NEW n \in Nat, NEW d \in Nat \ {0}
  PROVE  Rounded(n, d) \in Nat /\ (n <= 50 * d => Rounded(n, d) <= 50)
<1> DEFINE a == 2 * n + d
           e == 2 * d
           up == a \div e
<1>1. a \in Nat /\ e \in Nat \ {0} /\ d \in Int /\ n \in Int
  OBVIOUS
<1>2. up \in Nat /\ a % e \in Nat /\ a = e * up + (a % e) /\ a % e < e
  <2> HIDE DEF a, e
  <2> QED
    BY <1>1, Division
<1>3. ASSUME n <= 50 * d
      PROVE  up <= 50
  <2>1. a < e * 50 + e
    BY <1>1, <1>3
  <2> HIDE DEF a, e, up
  <2>2. e * up \in Int /\ e * 50 \in Int
    BY <1>1, <1>2
  <2>3. 50 < up => e * 50 + e <= e * up
    BY <1>1, <1>2, ProductOrder
  <2> QED
    BY <1>1, <1>2, <2>1, <2>2, <2>3
<1>4. Rounded(n, d) = IF a % e = 0 /\ up % 2 = 1 THEN up - 1 ELSE up
  BY DEF Rounded
<1> HIDE DEF a, e, up
<1>5. up % 2 = 1 => up >= 1
  BY <1>2
<1> QED
  BY <1>2, <1>3, <1>4, <1>5

\* Rounding halves to even keeps the order.
LEMMA RoundedMonotone ==
  ASSUME NEW n \in Nat, NEW m \in Nat, NEW d \in Nat \ {0}, n <= m
  PROVE  Rounded(n, d) <= Rounded(m, d)
<1> DEFINE a == 2 * n + d
           b == 2 * m + d
           e == 2 * d
           p == a \div e
           q == b \div e
<1>1. a \in Nat /\ b \in Nat /\ e \in Nat \ {0} /\ a <= b /\ (a = b => n = m)
  OBVIOUS
<1>2. /\ Rounded(n, d) = IF a % e = 0 /\ p % 2 = 1 THEN p - 1 ELSE p
      /\ Rounded(m, d) = IF b % e = 0 /\ q % 2 = 1 THEN q - 1 ELSE q
  BY DEF Rounded
<1> HIDE DEF a, b, e
<1>3. p \in Nat /\ q \in Nat
  BY <1>1, Division
<1>4. p <= q /\ (p = q /\ b % e = 0 => a = b)
  BY <1>1, DivisionMonotone
<1> HIDE DEF p, q
<1>5. CASE p < q
  BY <1>2, <1>3, <1>5
<1>6. CASE p = q /\ b % e = 0
  BY <1>1, <1>2, <1>3, <1>4, <1>6
<1>7. CASE p = q /\ b % e # 0
  BY <1>2, <1>3, <1>7
<1> QED
  BY <1>3, <1>4, <1>5, <1>6, <1>7

\* The share of its half that a phase has done with n of t items finished.
Share(n, t) ==
    IF t = 0 THEN 0 ELSE IF 2 * n + 1 >= 2 * t THEN 50 ELSE Rounded(25 * (2 * n + 1), t)

LEMMA ShareType ==
  ASSUME NEW n \in Nat, NEW t \in Nat
  PROVE  Share(n, t) \in 0 .. 50
<1>1. CASE t # 0 /\ 2 * n + 1 < 2 * t
  <2>1. 25 * (2 * n + 1) \in Nat /\ 25 * (2 * n + 1) <= 50 * t
    BY <1>1
  <2>2. Rounded(25 * (2 * n + 1), t) \in Nat /\ Rounded(25 * (2 * n + 1), t) <= 50
    BY <1>1, <2>1, RoundedType
  <2> QED
    BY <1>1, <2>2 DEF Share
<1>2. CASE t = 0 \/ 2 * n + 1 >= 2 * t
  BY <1>2 DEF Share
<1> QED
  BY <1>1, <1>2

LEMMA ShareGrows ==
  ASSUME NEW n \in Nat, NEW t \in Nat
  PROVE  Share(n, t) <= Share(n + 1, t)
<1>1. CASE t # 0 /\ 2 * (n + 1) + 1 < 2 * t
  <2> DEFINE a == 25 * (2 * n + 1)
             b == 25 * (2 * (n + 1) + 1)
  <2>1. a \in Nat /\ b \in Nat /\ a <= b /\ 2 * n + 1 < 2 * t
    BY <1>1
  <2>2. Share(n, t) = Rounded(a, t) /\ Share(n + 1, t) = Rounded(b, t)
    BY <1>1, <2>1 DEF Share
  <2> HIDE DEF a, b
  <2>3. Rounded(a, t) <= Rounded(b, t)
    BY <1>1, <2>1, RoundedMonotone
  <2> QED
    BY <2>2, <2>3
<1>2. CASE t = 0
  BY <1>2 DEF Share
<1>3. CASE t # 0 /\ 2 * (n + 1) + 1 >= 2 * t
  BY <1>3, ShareType DEF Share
<1> QED
  BY <1>1, <1>2, <1>3

LEMMA PercentShown ==
  ASSUME ~expired
  PROVE  /\ phase = "polling" => Percent = Share(done, total)
         /\ phase = "processing" => Percent = 50 + Share(done, total)
         /\ phase = "done" => Percent = 100
  BY DEF Percent, ShownPhase, Share

LEMMA BarRun ==
  ASSUME SyncInv, CountInv, NEW r \in Runs, Run(r), TypeInv', phase' \in Running \cup {"done"}
  PROVE  Percent' >= Percent
<1> USE DEF Goto, Running
<1>1. phase \in Running /\ ~expired /\ done \in Nat /\ total \in Nat /\ done' \in Nat /\ total' \in Nat
  BY OneSyncAlone DEF SyncInv, Progress, TypeInv, TypeOK
<1>2. ~expired'
  BY <1>1
  DEF Run, ListChannels, CheckChannel, ChannelChecked, ChannelBackedOff, ChannelFails,
      ChannelDone, NothingPending, StartProcessing, SelectPending, StartDownload,
      DownloadSucceeds, DownloadFails, SlugNotCounted, StepRaises, RowsDone, Finish
<1>3. /\ phase = "polling" => Percent = Share(done, total)
      /\ phase = "processing" => Percent = 50 + Share(done, total)
      /\ Share(done, total) \in 0 .. 50
  BY <1>1, PercentShown, ShareType
<1>4. /\ phase' = "polling" => Percent' = Share(done', total')
      /\ phase' = "processing" => Percent' = 50 + Share(done', total')
      /\ phase' = "done" => Percent' = 100
      /\ Share(done', total') \in 0 .. 50
  <2>1. (~expired => /\ phase = "polling" => Percent = Share(done, total)
                     /\ phase = "processing" => Percent = 50 + Share(done, total)
                     /\ phase = "done" => Percent = 100)'
    BY <1>2 DEF Percent, ShownPhase, Share
  <2> QED
    BY <1>1, <1>2, <2>1, ShareType
<1>5. CASE phase' = phase /\ total' = total /\ (done' = done \/ done' = done + 1)
  <2>1. Share(done, total) <= Share(done', total')
    BY <1>1, <1>3, <1>5, ShareGrows
  <2> QED
    BY <1>1, <1>3, <1>4, <1>5, <2>1
<1>6. CASE ListChannels(r)
  <2>1. phase' = phase /\ total = 0
    BY <1>6 DEF ListChannels, CountInv, CountStart
  <2>2. Share(done, total) = 0
    BY <2>1 DEF Share
  <2> QED
    BY <1>1, <1>3, <1>4, <2>1, <2>2
<1>7. CASE StartProcessing(r)
  <2>1. phase = "polling" /\ phase' = "processing"
    BY <1>7 DEF StartProcessing, SyncInv, Progress, AtChannels
  <2> QED
    BY <1>3, <1>4, <2>1
<1>8. CASE Finish(r)
  <2>1. phase' = "done"
    BY <1>8 DEF Finish
  <2> QED
    BY <1>1, <1>3, <1>4, <2>1
<1>9. CASE ~(ListChannels(r) \/ StartProcessing(r) \/ Finish(r))
  BY <1>5, <1>9
  DEF Run, CheckChannel, ChannelChecked, ChannelBackedOff, ChannelFails, ChannelDone,
      NothingPending, SelectPending, StartDownload, EpisodeDone, DownloadSucceeds, DownloadFails,
      SlugNotCounted, StepRaises, RowsDone, SyncInv, Progress, AtChannels, AtEpisodes
<1> QED
  BY <1>6, <1>7, <1>8, <1>9

LEMMA BarStep ==
  ASSUME SyncInv, CountInv, TypeInv', [Next]_vars,
         {phase, phase'} \subseteq Running \cup {"done"}, phase # "done"
  PROVE  Percent' >= Percent
<1> USE DEF Running
<1>1. phase \in Running /\ ~expired /\ done \in Nat /\ total \in Nat
  BY DEF SyncInv, Progress, TypeInv, TypeOK
<1>2. ASSUME NEW r \in Runs, Run(r)
      PROVE  Percent' >= Percent
  BY <1>2, BarRun
<1>3. CASE UNCHANGED <<phase, expired, done, total>>
  <2>1. Percent' = Percent
    BY <1>3 DEF Percent, ShownPhase, Rounded
  <2>2. Percent \in Int
    <3>1. Share(done, total) \in 0 .. 50
      BY <1>1, ShareType
    <3> QED
      BY <1>1, <3>1, PercentShown
  <2> QED
    BY <2>1, <2>2
<1> QED
  BY <1>1, <1>2, <1>3 DEF Next, Begin, Queue, Take, Dismiss, Expire, vars

(* The percentage the UI shows of a running sync never falls, through the  *)
(* half for the channels, the half for the episodes and the end, however   *)
(* the shares of an item are rounded (sync.py, _percent).                  *)
THEOREM BarOnlyAdvances == Spec => BarNeverMovesBack
<1>1. SyncInv => TypeInv
  BY DEF SyncInv
<1>2. SyncInv /\ CountInv /\ TypeInv' /\ [Next]_vars =>
        [{phase, phase'} \subseteq Running \cup {"done"} /\ phase # "done"
            => Percent' >= Percent]_vars
  BY BarStep
<1> QED
  BY <1>1, <1>2, CountInit, CountStep, SyncInvariance, PTL DEF Spec, BarNeverMovesBack
=============================================================================
