----------------------------- MODULE SyncProofs -----------------------------
(***************************************************************************)
(* Theorems about Sync, for any number of channels, videos and threads.    *)
(***************************************************************************)
EXTENDS SyncProperties, FiniteSetTheorems, TLAPS

-----------------------------------------------------------------------------
(* Type correctness.                                                       *)

\* A thread that polls has a channel in hand, one that downloads an episode.
HandSound ==
    \A r \in Runs : /\ pc[r] = "checking" => hand[r] \in Channels
                    /\ pc[r] = "download" => hand[r] \in Videos

TypeInv == TypeOK /\ HandSound /\ DOMAIN remaining = Runs

LEMMA PendingCounts ==
  ASSUME TypeOK
  PROVE  /\ Cardinality(pending) \in Nat
         /\ Cardinality(PendingSlugs) \in Nat
         /\ \A c : Cardinality(PendingOf(c)) \in Nat
         /\ PendingSlugs \subseteq Channels
<1>1. pending \subseteq Videos /\ PendingSlugs \subseteq Channels
  BY OwnerAssumption DEF TypeOK, PendingSlugs
<1>2. \A c : PendingOf(c) \subseteq Videos
  BY <1>1 DEF PendingOf
<1> QED
  BY <1>1, <1>2, FiniteAssumption, FS_Subset, FS_CardinalityType

LEMMA EmptyType == Empty \in [DOMAIN Empty -> Int]
  BY DEF Empty

LEMMA InitType == Init => TypeInv
<1> SUFFICES ASSUME Init
             PROVE  TypeInv
  OBVIOUS
<1>1. \A r \in Runs : remaining[r] \in [DOMAIN remaining[r] -> Int]
  BY EmptyType DEF Init
<1>2. badge \in [Channels -> Badges] /\ pc \in [Runs -> Labels]
  BY DEF Init, Badges, Labels
<1> QED
  BY <1>1, <1>2 DEF Init, TypeInv, TypeOK, HandSound

LEMMA RunType ==
  ASSUME TypeInv, NEW r \in Runs, Run(r)
  PROVE  TypeInv'
<1> USE DEF Goto, SetBadge, TypeInv, TypeOK, HandSound, Badges, Labels, manager, summary,
            database, locals, history
<1>1. CASE ListChannels(r)
  <2>1. PICK cs \in SUBSET Channels :
            /\ queue' = [queue EXCEPT ![r] = cs]
            /\ total' = Cardinality(cs)
            /\ badge' = [c \in Channels |-> IF c \in cs THEN "waiting" ELSE "none"]
    BY <1>1 DEF ListChannels
  <2>2. total' \in Nat
    BY <2>1, FiniteAssumption, FS_Subset, FS_CardinalityType
  <2> QED
    BY <1>1, <2>1, <2>2 DEF ListChannels
<1>2. CASE CheckChannel(r)
  BY <1>2 DEF CheckChannel
<1>3. CASE ChannelChecked(r)
  BY <1>3 DEF ChannelChecked, ChannelDone
<1>4. CASE ChannelBackedOff(r)
  BY <1>4 DEF ChannelBackedOff, ChannelDone
<1>5. CASE ChannelFails(r)
  BY <1>5 DEF ChannelFails, ChannelDone
<1>6. CASE NothingPending(r)
  BY <1>6 DEF NothingPending
<1>7. CASE StartProcessing(r)
  <2>1. \A c \in PendingSlugs : Cardinality(PendingOf(c)) \in Int
    BY PendingCounts
  <2>2. [c \in PendingSlugs |-> Cardinality(PendingOf(c))] \in [PendingSlugs -> Int]
    BY <2>1
  <2>3. \A s \in Runs : remaining'[s] \in [DOMAIN remaining'[s] -> Int]
    BY <1>7, <2>2 DEF StartProcessing
  <2>4. total' \in Nat /\ channelsWithNew' \in Nat
    BY <1>7, PendingCounts DEF StartProcessing
  <2> QED
    BY <1>7, <2>3, <2>4 DEF StartProcessing
<1>8. CASE SelectPending(r)
  BY <1>8 DEF SelectPending
<1>9. CASE StartDownload(r)
  <2>1. PICK v \in rows[r] : StartDownload(r)!2!(v)
    BY <1>9 DEF StartDownload
  <2>2. v \in Videos /\ Owner[v] \in Channels
    BY OwnerAssumption
  <2>3. badge' \in [Channels -> Badges]
    BY <2>1
  <2> QED
    BY <1>9, <2>1, <2>2, <2>3 DEF StartDownload
<1>10. CASE DownloadSucceeds(r)
  <2>1. Owner[hand[r]] \in Channels
    BY <1>10, OwnerAssumption DEF DownloadSucceeds
  <2> QED
    BY <1>10, <2>1 DEF DownloadSucceeds, EpisodeDone, EpisodeCounted
<1>11. CASE DownloadFails(r)
  <2>1. Owner[hand[r]] \in Channels
    BY <1>11, OwnerAssumption DEF DownloadFails
  <2> QED
    BY <1>11, <2>1 DEF DownloadFails, EpisodeDone, EpisodeCounted
<1>12. CASE SlugNotCounted(r)
  BY <1>12 DEF SlugNotCounted, EpisodeDone
<1>13. CASE StepRaises(r)
  BY <1>13 DEF StepRaises
<1>14. CASE RowsDone(r)
  BY <1>14 DEF RowsDone
<1>15. CASE Finish(r)
  <2>1. \A s \in Runs : remaining'[s] \in [DOMAIN remaining'[s] -> Int]
    BY <1>15, EmptyType DEF Finish, Leave
  <2> QED
    BY <1>15, <2>1 DEF Finish, Leave
<1> QED
  BY <1>1, <1>2, <1>3, <1>4, <1>5, <1>6, <1>7, <1>8, <1>9, <1>10, <1>11, <1>12, <1>13,
     <1>14, <1>15 DEF Run

LEMMA StepType == TypeInv /\ [Next]_vars => TypeInv'
<1> SUFFICES ASSUME TypeInv, [Next]_vars
             PROVE  TypeInv'
  OBVIOUS
<1> USE DEF Goto, FreshState, TypeInv, TypeOK, HandSound, Badges, Labels, manager, summary,
            database, locals, history
<1>1. ASSUME NEW r \in Runs, Begin(r)
      PROVE  TypeInv'
  BY <1>1 DEF Begin
<1>2. ASSUME NEW r \in Runs, Run(r)
      PROVE  TypeInv'
  BY <1>2, RunType
<1>3. ASSUME NEW v \in Videos, Queue(v) \/ Take(v)
      PROVE  TypeInv'
  BY <1>3 DEF Queue, Take
<1>4. CASE Dismiss
  BY <1>4 DEF Dismiss
<1>5. CASE Expire
  BY <1>5 DEF Expire
<1>6. CASE UNCHANGED vars
  BY <1>6 DEF vars
<1> QED
  BY <1>1, <1>2, <1>3, <1>4, <1>5, <1>6 DEF Next

LEMMA TypeInvariance == Spec => []TypeInv
  BY InitType, StepType, PTL DEF Spec

(* The snapshot, the set of pending rows and the sync threads' locals keep *)
(* their types (sync.py).                                                  *)
THEOREM SyncTypeCorrect == Spec => []TypeOK
<1>1. TypeInv => TypeOK
  BY DEF TypeInv
<1> QED
  BY <1>1, TypeInvariance, PTL

-----------------------------------------------------------------------------
(* One sync at a time.                                                     *)

LEMMA OneSyncInit == Init => OneSyncAtATime
  BY DEF Init, OneSyncAtATime, Active, Running

\* A thread that takes a step of a sync is the only one in a sync.
LEMMA OneSyncAlone ==
  ASSUME TypeInv, OneSyncAtATime, NEW r \in Runs, Run(r)
  PROVE  /\ pc[r] # "idle"
         /\ phase \in Running
         /\ \A s \in Runs \ {r} : pc[s] = "idle" /\ pc'[s] = "idle"
<1>1. pc[r] # "idle" /\ \A s \in Runs \ {r} : pc'[s] = pc[s]
  BY DEF Run, ListChannels, CheckChannel, ChannelChecked, ChannelBackedOff, ChannelFails,
         ChannelDone, NothingPending, StartProcessing, SelectPending, StartDownload,
         DownloadSucceeds, DownloadFails, SlugNotCounted, StepRaises, RowsDone, Finish, Leave,
         Goto, TypeInv, TypeOK, Labels
<1> QED
  BY <1>1 DEF OneSyncAtATime, Active

\* Whoever is at work keeps the phase, or ends both at once.
LEMMA OneSyncRun ==
  ASSUME TypeInv, OneSyncAtATime, NEW r \in Runs, Run(r)
  PROVE  OneSyncAtATime'
<1> USE DEF TypeInv, TypeOK, Labels
<1>1. pc[r] # "idle" /\ \A s \in Runs \ {r} : pc'[s] = "idle"
  BY OneSyncAlone
<1>2. phase \in Running
  BY OneSyncAlone
<1>3. CASE Finish(r)
  <2>1. Active' = {}
    BY <1>1, <1>3 DEF Active, Finish, Leave
  <2>2. phase' \notin Running
    BY <1>3 DEF Finish, Running
  <2> QED
    BY <2>1, <2>2 DEF OneSyncAtATime
<1>4. CASE ~Finish(r)
  <2>1. pc'[r] # "idle" /\ phase' \in Running
    BY <1>2, <1>4
    DEF Run, ListChannels, CheckChannel, ChannelChecked, ChannelBackedOff, ChannelFails,
        ChannelDone, NothingPending, StartProcessing, SelectPending, StartDownload,
        DownloadSucceeds, DownloadFails, SlugNotCounted, StepRaises, RowsDone, Goto, Running,
        manager
  <2>2. Active' = {r}
    BY <1>1, <2>1 DEF Active
  <2> QED
    BY <2>1, <2>2 DEF OneSyncAtATime
<1> QED
  BY <1>3, <1>4

LEMMA OneSyncStep == TypeInv /\ OneSyncAtATime /\ [Next]_vars => OneSyncAtATime'
<1> SUFFICES ASSUME TypeInv, OneSyncAtATime, [Next]_vars
             PROVE  OneSyncAtATime'
  OBVIOUS
<1>1. ASSUME NEW r \in Runs, Begin(r)
      PROVE  OneSyncAtATime'
  <2>1. Active = {} /\ phase' \in Running
    BY <1>1 DEF OneSyncAtATime, Begin, FreshState, Running
  <2>2. Active' = {r}
    BY <1>1, <2>1 DEF Active, Begin, Goto, TypeInv, TypeOK
  <2> QED
    BY <2>1, <2>2 DEF OneSyncAtATime
<1>2. ASSUME NEW r \in Runs, Run(r)
      PROVE  OneSyncAtATime'
  BY <1>2, OneSyncRun
<1>3. ASSUME NEW v \in Videos, Queue(v) \/ Take(v)
      PROVE  OneSyncAtATime'
  BY <1>3 DEF Queue, Take, OneSyncAtATime, Active, manager
<1>4. CASE Dismiss
  BY <1>4 DEF Dismiss, FreshState, OneSyncAtATime, Active, Running
<1>5. CASE Expire
  BY <1>5 DEF Expire, OneSyncAtATime, Active
<1>6. CASE UNCHANGED vars
  BY <1>6 DEF vars, manager, OneSyncAtATime, Active
<1> QED
  BY <1>1, <1>2, <1>3, <1>4, <1>5, <1>6 DEF Next

(* However many requests ask for a sync, at most one thread runs one, and  *)
(* the phase the UI reads says so (SyncManager._begin, _run).              *)
THEOREM OneSync == Spec => []OneSyncAtATime
  BY OneSyncInit, OneSyncStep, TypeInvariance, PTL DEF Spec
-----------------------------------------------------------------------------
(* The session the UI is promised.                                         *)

AtChannels == {"list", "poll", "checking"}
AtEpisodes == {"select", "row", "download"}

\* Where the thread is and the phase agree, and so do the index of its loop and
\* the number of items shown as finished; a summary only grows old when done.
Progress ==
    /\ \A r \in Runs :
          /\ pc[r] = "idle" => index[r] = 0
          /\ pc[r] \in AtChannels => phase = "polling"
          /\ pc[r] \in AtEpisodes => phase = "processing"
          /\ pc[r] \in AtChannels \cup AtEpisodes => done = index[r]
    /\ phase # "done" => ~expired

SyncInv == TypeInv /\ OneSyncAtATime /\ Progress

LEMMA ProgressInit == Init => Progress
  BY DEF Init, Progress, AtChannels, AtEpisodes

LEMMA ProgressRun ==
  ASSUME SyncInv, NEW r \in Runs, Run(r)
  PROVE  Progress'
<1> USE DEF Goto, manager, summary, locals, AtChannels, AtEpisodes
<1>1. pc[r] # "idle" /\ phase \in Running
  BY OneSyncAlone DEF SyncInv
<1>2. \A s \in Runs \ {r} : pc[s] = "idle" /\ index[s] = 0 /\ pc'[s] = "idle"
  BY OneSyncAlone DEF SyncInv, Progress
<1>3. phase' # "done" => ~expired'
  BY <1>1
  DEF Run, ListChannels, CheckChannel, ChannelChecked, ChannelBackedOff, ChannelFails,
      ChannelDone, NothingPending, StartProcessing, SelectPending, StartDownload,
      DownloadSucceeds, DownloadFails, SlugNotCounted, StepRaises, RowsDone, Finish, SyncInv,
      Progress, Running
<1>4. \A s \in Runs \ {r} : index'[s] = 0
  BY <1>2
  DEF Run, ListChannels, CheckChannel, ChannelChecked, ChannelBackedOff, ChannelFails,
      ChannelDone, NothingPending, StartProcessing, SelectPending, StartDownload, EpisodeDone,
      DownloadSucceeds, DownloadFails, SlugNotCounted, StepRaises, RowsDone, Finish, Leave,
      SyncInv, TypeInv, TypeOK
<1>5. /\ pc'[r] = "idle" => index'[r] = 0
      /\ pc'[r] \in AtChannels => phase' = "polling"
      /\ pc'[r] \in AtEpisodes => phase' = "processing"
      /\ pc'[r] \in AtChannels \cup AtEpisodes => done' = index'[r]
  <2> USE DEF SyncInv, TypeInv, TypeOK, Progress
  <2>1. CASE ListChannels(r) \/ CheckChannel(r)
    BY <2>1 DEF ListChannels, CheckChannel
  <2>2. CASE ChannelChecked(r) \/ ChannelBackedOff(r) \/ ChannelFails(r)
    BY <2>2 DEF ChannelChecked, ChannelBackedOff, ChannelFails, ChannelDone
  <2>3. CASE NothingPending(r) \/ StartProcessing(r)
    BY <2>3 DEF NothingPending, StartProcessing
  <2>4. CASE SelectPending(r) \/ StartDownload(r)
    BY <2>4 DEF SelectPending, StartDownload
  <2>5. CASE DownloadSucceeds(r) \/ DownloadFails(r)
    BY <2>5 DEF DownloadSucceeds, DownloadFails, EpisodeDone
  <2>6. CASE SlugNotCounted(r) \/ StepRaises(r) \/ RowsDone(r)
    BY <2>6 DEF SlugNotCounted, StepRaises, RowsDone
  <2>7. CASE Finish(r)
    BY <2>7 DEF Finish, Leave
  <2> QED
    BY <2>1, <2>2, <2>3, <2>4, <2>5, <2>6, <2>7 DEF Run
<1> QED
  BY <1>2, <1>3, <1>4, <1>5 DEF Progress

LEMMA ProgressStep == SyncInv /\ [Next]_vars => Progress'
<1> SUFFICES ASSUME SyncInv, [Next]_vars
             PROVE  Progress'
  OBVIOUS
<1> USE DEF Progress, AtChannels, AtEpisodes
<1>1. ASSUME NEW r \in Runs, Begin(r)
      PROVE  Progress'
  <2>1. \A s \in Runs : pc[s] = "idle"
    BY <1>1 DEF SyncInv, OneSyncAtATime, Active, Begin
  <2> QED
    BY <1>1, <2>1 DEF SyncInv, TypeInv, TypeOK, Begin, FreshState, Goto, locals
<1>2. ASSUME NEW r \in Runs, Run(r)
      PROVE  Progress'
  BY <1>2, ProgressRun
<1>3. ASSUME NEW v \in Videos, Queue(v) \/ Take(v)
      PROVE  Progress'
  BY <1>3 DEF SyncInv, Queue, Take, manager, locals
<1>4. CASE Dismiss
  <2>1. \A s \in Runs : pc[s] = "idle"
    BY <1>4 DEF SyncInv, OneSyncAtATime, Active, Dismiss, Running
  <2> QED
    BY <1>4, <2>1 DEF SyncInv, Dismiss, FreshState, locals
<1>5. CASE Expire
  BY <1>5 DEF SyncInv, Expire, locals
<1>6. CASE UNCHANGED vars
  BY <1>6 DEF SyncInv, vars, manager, locals
<1> QED
  BY <1>1, <1>2, <1>3, <1>4, <1>5, <1>6 DEF Next

LEMMA SyncInvariance == Spec => []SyncInv
<1>1. Init => SyncInv
  BY InitType, OneSyncInit, ProgressInit DEF SyncInv
<1>2. SyncInv /\ [Next]_vars => SyncInv'
  BY StepType, OneSyncStep, ProgressStep DEF SyncInv
<1> QED
  BY <1>1, <1>2, PTL DEF Spec

\* What SyncSession's variables stand for.
shown == <<ShownPhase, ShownDone>>

LEMMA SessionStep ==
  ASSUME SyncInv, [Next]_vars
  PROVE  [Session!Next]_shown
<1> USE DEF ShownPhase, ShownDone, shown
<1>1. ASSUME NEW r \in Runs, Begin(r)
      PROVE  Session!Start
  BY <1>1 DEF Session!Start, Begin, FreshState, SyncInv, TypeInv, TypeOK, Running
<1>2. ASSUME NEW r \in Runs, Run(r)
      PROVE  Session!FinishItem \/ Session!GoOn \/ Session!End \/ UNCHANGED shown
  <2>1. phase \in Running /\ ~expired /\ done \in Nat
    BY <1>2, OneSyncAlone DEF SyncInv, Progress, Running, TypeInv, TypeOK
  <2> USE DEF Running, Goto
  <2>2. CASE ChannelChecked(r) \/ ChannelBackedOff(r) \/ ChannelFails(r)
    <3>1. done' = done + 1 /\ phase' = phase /\ expired' = expired
      BY <2>2
      DEF ChannelChecked, ChannelBackedOff, ChannelFails, ChannelDone, SyncInv, Progress,
          AtChannels
    <3> QED
      BY <2>1, <3>1 DEF Session!FinishItem
  <2>3. CASE DownloadSucceeds(r) \/ DownloadFails(r) \/ SlugNotCounted(r)
    <3>1. done' = done + 1 /\ phase' = phase /\ expired' = expired
      BY <2>3
      DEF DownloadSucceeds, DownloadFails, SlugNotCounted, EpisodeDone, SyncInv, Progress,
          AtEpisodes
    <3> QED
      BY <2>1, <3>1 DEF Session!FinishItem
  <2>4. CASE StartProcessing(r)
    BY <2>1, <2>4 DEF StartProcessing, Session!GoOn, SyncInv, Progress, AtChannels
  <2>5. CASE Finish(r)
    BY <2>1, <2>5 DEF Finish, Session!End
  <2>6. CASE \/ ListChannels(r) \/ CheckChannel(r) \/ NothingPending(r) \/ SelectPending(r)
            \/ StartDownload(r) \/ StepRaises(r) \/ RowsDone(r)
    BY <2>6
    DEF ListChannels, CheckChannel, NothingPending, SelectPending, StartDownload, StepRaises,
        RowsDone, manager
  <2> QED
    BY <1>2, <2>2, <2>3, <2>4, <2>5, <2>6 DEF Run
<1>3. ASSUME NEW v \in Videos, Queue(v) \/ Take(v)
      PROVE  UNCHANGED shown
  BY <1>3 DEF Queue, Take, manager
<1>4. CASE Dismiss
  BY <1>4 DEF Dismiss, FreshState, Session!Forget, Session!Next
<1>5. CASE Expire
  BY <1>5 DEF Expire, Session!Forget, Session!Next
<1>6. CASE UNCHANGED vars
  BY <1>6 DEF vars, manager
<1> QED
  BY <1>1, <1>2, <1>3, <1>4, <1>5, <1>6 DEF Next, Session!Next

(* Whatever is queued, deleted or raised while it runs, a sync shows the   *)
(* admin UI a session of SyncSession: phases in order, items one by one,   *)
(* neither restarted nor dismissed before its end (SyncManager).           *)
THEOREM SyncImplementsSession == Spec => ImplementsSession
<1>1. Init => Session!Init
  BY DEF Init, Session!Init, ShownPhase, ShownDone
<1> QED
  BY <1>1, SessionStep, SyncInvariance, PTL DEF Spec, ImplementsSession, Session!Spec, shown

-----------------------------------------------------------------------------
(* A sync ends: the part of it that needs no fairness.                     *)

\* The most steps a thread at `label` can still take, with q channels and n
\* rows in its lists.
Ahead(label, q, n) ==
    IF label = "idle" THEN 0
    ELSE IF label \in {"finish", "raised"} THEN 1
    ELSE IF label = "row" THEN 2 + 2 * n
    ELSE IF label = "download" THEN 3 + 2 * n
    ELSE IF label = "select" THEN 3 + 2 * Cardinality(Videos)
    ELSE IF label = "poll" THEN 4 + 2 * Cardinality(Videos) + 2 * q
    ELSE IF label = "checking" THEN 5 + 2 * Cardinality(Videos) + 2 * q
    ELSE 5 + 2 * Cardinality(Videos) + 2 * Cardinality(Channels)

StepsLeft(r) == Ahead(pc[r], Cardinality(queue[r]), Cardinality(rows[r]))

\* Every step of a sync's thread leaves it fewer to take, never more than one
\* for the thread's start and end, two for each channel and each video, and
\* three between; and nothing else that happens gives it more.
SyncRunsOut ==
    [][\A r \in Runs :
          /\ StepsLeft(r) \in 0 .. 5 + 2 * Cardinality(Videos) + 2 * Cardinality(Channels)
          /\ Run(r) => StepsLeft(r)' < StepsLeft(r)
          /\ Begin(r) \/ StepsLeft(r)' <= StepsLeft(r)]_vars

LEMMA ListsFinite ==
  /\ Cardinality(Videos) \in Nat /\ Cardinality(Channels) \in Nat
  /\ \A s \in SUBSET Videos :
        IsFiniteSet(s) /\ Cardinality(s) \in Nat /\ Cardinality(s) <= Cardinality(Videos)
  /\ \A s \in SUBSET Channels :
        IsFiniteSet(s) /\ Cardinality(s) \in Nat /\ Cardinality(s) <= Cardinality(Channels)
  BY FiniteAssumption, FS_Subset, FS_CardinalityType

LEMMA StepsLeftType ==
  ASSUME TypeInv, NEW r \in Runs
  PROVE  StepsLeft(r) \in 0 .. 5 + 2 * Cardinality(Videos) + 2 * Cardinality(Channels)
<1>1. queue[r] \in SUBSET Channels /\ rows[r] \in SUBSET Videos
  BY DEF TypeInv, TypeOK
<1> QED
  BY <1>1, ListsFinite DEF StepsLeft, Ahead

LEMMA RunTakesOne ==
  ASSUME TypeInv, NEW r \in Runs, Run(r), TypeInv'
  PROVE  StepsLeft(r)' < StepsLeft(r)
<1> DEFINE q == Cardinality(queue[r])
           n == Cardinality(rows[r])
<1>1. /\ queue[r] \in SUBSET Channels /\ rows[r] \in SUBSET Videos
      /\ queue'[r] \in SUBSET Channels /\ rows'[r] \in SUBSET Videos
      /\ pc[r] \in Labels
  BY DEF TypeInv, TypeOK
<1>2. StepsLeft(r)' = Ahead(pc'[r], Cardinality(queue'[r]), Cardinality(rows'[r]))
  BY DEF StepsLeft, Ahead
<1>3. StepsLeft(r) = Ahead(pc[r], q, n) /\ q \in Nat /\ n \in Nat
  BY <1>1, ListsFinite DEF StepsLeft
<1>4. /\ Cardinality(queue'[r]) \in Nat /\ Cardinality(rows'[r]) \in Nat
      /\ Cardinality(queue'[r]) <= Cardinality(Channels)
      /\ Cardinality(rows'[r]) <= Cardinality(Videos)
  BY <1>1, ListsFinite
<1> USE DEF Goto, TypeInv, TypeOK
<1>5. CASE CheckChannel(r)
  <2>1. PICK c \in queue[r] : queue' = [queue EXCEPT ![r] = @ \ {c}]
    BY <1>5 DEF CheckChannel
  <2>2. queue'[r] = queue[r] \ {c} /\ pc[r] = "poll" /\ pc'[r] = "checking"
    BY <1>5, <2>1 DEF CheckChannel
  <2>3. Cardinality(queue'[r]) = q - 1
    BY <1>1, <2>2, ListsFinite, FS_RemoveElement
  <2> HIDE DEF q, n
  <2> QED
    BY <1>2, <1>3, <1>4, <2>2, <2>3, ListsFinite DEF Ahead
<1>6. CASE StartDownload(r)
  <2>1. PICK v \in rows[r] : rows' = [rows EXCEPT ![r] = @ \ {v}]
    BY <1>6 DEF StartDownload
  <2>2. rows'[r] = rows[r] \ {v} /\ pc[r] = "row" /\ pc'[r] = "download"
    BY <1>6, <2>1 DEF StartDownload
  <2>3. Cardinality(rows'[r]) = n - 1
    BY <1>1, <2>2, ListsFinite, FS_RemoveElement
  <2> HIDE DEF q, n
  <2> QED
    BY <1>2, <1>3, <1>4, <2>2, <2>3, ListsFinite DEF Ahead
<1>7. CASE ~CheckChannel(r) /\ ~StartDownload(r)
  <2>1. \/ pc[r] = "list" /\ pc'[r] = "poll"
        \/ pc[r] = "checking" /\ pc'[r] = "poll" /\ queue'[r] = queue[r]
        \/ pc[r] = "poll" /\ pc'[r] \in {"finish", "select"}
        \/ pc[r] = "select" /\ pc'[r] = "row"
        \/ pc[r] = "download" /\ pc'[r] = "row" /\ rows'[r] = rows[r]
        \/ pc[r] \in {"list", "poll", "checking", "select", "download"} /\ pc'[r] = "raised"
        \/ pc[r] = "row" /\ pc'[r] = "finish"
        \/ pc[r] \in {"finish", "raised"} /\ pc'[r] = "idle"
    BY <1>7
    DEF Run, ListChannels, ChannelChecked, ChannelBackedOff, ChannelFails, ChannelDone,
        NothingPending, StartProcessing, SelectPending, DownloadSucceeds, DownloadFails,
        SlugNotCounted, StepRaises, RowsDone, Finish, Leave, locals
  <2> HIDE DEF TypeInv, TypeOK
  <2>2. /\ pc[r] = "checking" /\ pc'[r] = "poll" => Cardinality(queue'[r]) = q
        /\ pc[r] = "download" /\ pc'[r] = "row" => Cardinality(rows'[r]) = n
    BY <2>1
  <2> HIDE DEF q, n
  <2> QED
    BY <1>2, <1>3, <1>4, <2>1, <2>2, ListsFinite DEF Ahead
<1> QED
  BY <1>5, <1>6, <1>7

(* sync.py, _run: a sync cannot go on for ever, whatever the admin and     *)
(* other jobs queue and delete meanwhile: it works through one list of     *)
(* channels and one list of rows, and at most 5 + 2 * (channels + videos)  *)
(* steps end it.  SyncEnds is this and the fairness of the scheduler.      *)
THEOREM SyncIsFinite == Spec => SyncRunsOut
<1>1. ASSUME TypeInv, [Next]_vars, TypeInv', NEW r \in Runs
      PROVE  /\ StepsLeft(r) \in 0 .. 5 + 2 * Cardinality(Videos) + 2 * Cardinality(Channels)
             /\ Run(r) => StepsLeft(r)' < StepsLeft(r)
             /\ Begin(r) \/ StepsLeft(r)' <= StepsLeft(r)
  <2>1. StepsLeft(r) \in Nat /\ (Run(r) => StepsLeft(r)' < StepsLeft(r))
    BY <1>1, StepsLeftType, RunTakesOne, ListsFinite
  <2>2. StepsLeft(r)' \in Nat
    <3>1. queue'[r] \in SUBSET Channels /\ rows'[r] \in SUBSET Videos
      BY <1>1 DEF TypeInv, TypeOK
    <3> QED
      BY <3>1, ListsFinite DEF StepsLeft, Ahead
  <2>3. CASE UNCHANGED <<pc[r], queue[r], rows[r]>>
    <3>1. StepsLeft(r)' = StepsLeft(r)
      BY <2>3 DEF StepsLeft, Ahead
    <3> QED
      BY <1>1, <2>1, <3>1, StepsLeftType
  <2>4. CASE Run(r)
    BY <1>1, <2>1, <2>2, <2>4, StepsLeftType
  <2>5. CASE Begin(r)
    BY <1>1, <2>1, <2>5, StepsLeftType
  <2>6. ASSUME NEW u \in Runs, u # r, Begin(u) \/ Run(u)
        PROVE  UNCHANGED <<pc[r], queue[r], rows[r]>>
    BY <1>1, <2>6
    DEF Begin, Run, ListChannels, CheckChannel, ChannelChecked, ChannelBackedOff, ChannelFails,
        ChannelDone, NothingPending, StartProcessing, SelectPending, StartDownload,
        DownloadSucceeds, DownloadFails, EpisodeDone, SlugNotCounted, StepRaises, RowsDone, Finish,
        Leave, locals, Goto, TypeInv, TypeOK
  <2>7. ASSUME \/ Dismiss \/ Expire \/ UNCHANGED vars
               \/ \E v \in Videos : Queue(v) \/ Take(v)
        PROVE  UNCHANGED <<pc[r], queue[r], rows[r]>>
    BY <2>7 DEF Dismiss, Expire, vars, Queue, Take, locals
  <2> QED
    BY <1>1, <2>3, <2>4, <2>5, <2>6, <2>7 DEF Next
<1>2. TypeInv /\ TypeInv' /\ [Next]_vars =>
        [\A r \in Runs :
            /\ StepsLeft(r) \in 0 .. 5 + 2 * Cardinality(Videos) + 2 * Cardinality(Channels)
            /\ Run(r) => StepsLeft(r)' < StepsLeft(r)
            /\ Begin(r) \/ StepsLeft(r)' <= StepsLeft(r)]_vars
  BY <1>1
<1> QED
  BY <1>2, TypeInvariance, PTL DEF Spec, SyncRunsOut
=============================================================================
