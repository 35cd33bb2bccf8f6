---------------------- MODULE EpisodesSequentialProofs ----------------------
(***************************************************************************)
(* What Episodes promises when jobs run one after the other: theorems for  *)
(* one thread and any number of videos and channels, any policies and any  *)
(* number of retries.  Each theorem names the faults it does not survive;  *)
(* only the documented lifecycle needs Retry to be pressed where the page  *)
(* offers it.                                                              *)
(***************************************************************************)
EXTENDS EpisodesProofs, CountingLemmas

USE DEF table, locals, retentionVars, cycleLocals

OneJobAtATime == \E t \in Threads : Threads = {t}

-----------------------------------------------------------------------------
(* The rows a job holds still have the status it selected them by.         *)

\* The labels of _process_one between its two commits.
Downloading == {"download", "failed", "stat", "finish"}

\* The labels of the retention loop and of delete_episode.
Deleting == {"delete", "tombstone"}

\* The row in hand has the status its job gave it or found it in, and the file
\* that was downloaded for it stays until its row says so.
HandSound(t) ==
    /\ pc[t] \in Downloading =>
           current[t] \in Videos /\ status[current[t]] = "downloading"
    /\ pc[t] \in {"stat", "finish"} => current[t] \in media
    /\ pc[t] = "retry_write" =>
           current[t] \in Videos /\ status[current[t]] \in RetryFrom \cup Parked
    /\ pc[t] \in Deleting =>
           /\ current[t] \in Videos \ rows[t]
           /\ InTable(current[t])
           /\ job[t] = "cycle" => status[current[t]] = "done"

\* So have the rows in the list, which is empty between two jobs and before
\* retention.
ListSound(t) ==
    /\ pc[t] \in {"idle", "processed"} => rows[t] = {}
    /\ pc[t] = "requeue_write" => \A v \in rows[t] :
           status[v] = "failed" /\ retryCount[v] < MAX_LONG_RANGE_RETRIES
    /\ pc[t] \in Downloading \cup {"row"} => \A v \in rows[t] : status[v] = "pending"
    /\ pc[t] \in Deleting \cup {"retain"} => \A v \in rows[t] : status[v] = "done"

ListInv == \A t \in Threads : HandSound(t) /\ ListSound(t)

LEMMA ListInit == Init => ListInv
  BY DEF Init, EmptyTable, IdleThreads, ListInv, HandSound, ListSound, Downloading, Deleting

\* What an action does to the values of the only thread decides.
LEMMA ListByThread ==
  ASSUME OneJobAtATime, NEW t \in Threads, (HandSound(t) /\ ListSound(t))'
  PROVE  ListInv'
<1>1. \A u \in Threads : u = t
  BY DEF OneJobAtATime
<1> QED
  BY <1>1 DEF ListInv

LEMMA ListStart ==
  ASSUME OneJobAtATime, TypeInv, ListInv, NEW t \in Threads, StartJob(t)
  PROVE  ListInv'
<1> SUFFICES (HandSound(t) /\ ListSound(t))'
  BY ListByThread
<1> HandSound(t) /\ ListSound(t)
  BY DEF ListInv
<1> USE DEF Goto, SetStatus, Fetch, NextRow, Release, InTable, Downloading, Deleting,
            HandSound, ListSound, TypeInv, TypeOK, Parked
<1>1. CASE StartCycle(t)
  BY <1>1 DEF StartCycle, Start
<1>2. CASE StartProcess(t)
  BY <1>2 DEF StartProcess, Start
<1>3. CASE StartRetry(t)
  BY <1>3, RetryFromAssumption DEF StartRetry, Start, Statuses
<1>4. CASE StartQueue(t)
  BY <1>4 DEF StartQueue, Start, QUEUEABLE_STATUSES
<1>5. CASE StartDelete(t)
  BY <1>5 DEF StartDelete, Start
<1> QED
  BY <1>1, <1>2, <1>3, <1>4, <1>5 DEF StartJob

LEMMA ListProcess ==
  ASSUME OneJobAtATime, TypeInv, ListInv, NEW t \in Threads, ProcessStep(t)
  PROVE  ListInv'
<1> SUFFICES (HandSound(t) /\ ListSound(t))'
  BY ListByThread
<1> HandSound(t) /\ ListSound(t)
  BY DEF ListInv
<1> USE DEF Goto, SetStatus, Fetch, NextRow, Release, InTable, Downloading, Deleting,
            HandSound, ListSound, TypeInv, TypeOK, Parked
<1>1. CASE SelectPending(t)
  BY <1>1 DEF SelectPending
<1>2. CASE MarkDownloading(t)
  BY <1>2 DEF MarkDownloading
<1>3. CASE DownloadSucceeds(t)
  BY <1>3 DEF DownloadSucceeds
<1>4. CASE DownloadFails(t)
  BY <1>4 DEF DownloadFails
<1>5. CASE RecordFailure(t)
  BY <1>5 DEF RecordFailure
<1>6. CASE Stat(t)
  BY <1>6 DEF Stat
<1>7. CASE RecordDone(t)
  BY <1>7 DEF RecordDone
<1>8. CASE Processed(t)
  BY <1>8 DEF Processed
<1> QED
  BY <1>1, <1>2, <1>3, <1>4, <1>5, <1>6, <1>7, <1>8 DEF ProcessStep, Process

LEMMA ListRetain ==
  ASSUME OneJobAtATime, TypeInv, ListInv, NEW t \in Threads, Retain(t)
  PROVE  ListInv'
<1> SUFFICES (HandSound(t) /\ ListSound(t))'
  BY ListByThread
<1> HandSound(t) /\ ListSound(t)
  BY DEF ListInv
<1> USE DEF Goto, SetStatus, Fetch, NextRow, Release, InTable, Downloading, Deleting,
            HandSound, ListSound, TypeInv, TypeOK, Parked
<1>1. CASE ReadDefaultRetention(t)
  BY <1>1 DEF ReadDefaultRetention
<1>2. CASE SelectExcess(t)
  BY <1>2 DEF SelectExcess, Excess, DoneEpisodes
<1>3. CASE NextExcess(t)
  BY <1>3 DEF NextExcess
<1>4. CASE RetentionApplied(t)
  BY <1>4 DEF RetentionApplied
<1>5. CASE Unlink(t)
  BY <1>5 DEF Unlink
<1>6. CASE Tombstone(t)
  BY <1>6 DEF Tombstone
<1> QED
  BY <1>1, <1>2, <1>3, <1>4, <1>5, <1>6 DEF Retain

LEMMA ListWork ==
  ASSUME OneJobAtATime, TypeInv, ListInv, NEW t \in Threads, Work(t)
  PROVE  ListInv'
<1> SUFFICES (HandSound(t) /\ ListSound(t))'
  BY ListByThread
<1> HandSound(t) /\ ListSound(t)
  BY DEF ListInv
<1> USE DEF Goto, SetStatus, Fetch, NextRow, Release, InTable, Downloading, Deleting,
            HandSound, ListSound, TypeInv, TypeOK, Parked
<1>1. CASE RetryVideo(t)
  BY <1>1 DEF RetryVideo
<1>2. CASE SelectStaleFailures(t)
  BY <1>2 DEF SelectStaleFailures, Stale
<1>3. CASE RequeueStaleFailures(t)
  BY <1>3 DEF RequeueStaleFailures
<1>4. CASE EndJob(t)
  BY <1>4 DEF EndJob, JobOver, ResetThreads
<1> QED
  BY <1>1, <1>2, <1>3, <1>4, ListProcess, ListRetain DEF Work, Requeue, ListInv

\* A crash empties every list, and no other fault touches a row.
LEMMA ListFault ==
  ASSUME OneJobAtATime, TypeInv, ListInv, Fault
  PROVE  ListInv'
<1> PICK t \in Threads : Threads = {t}
  BY DEF OneJobAtATime
<1> SUFFICES (HandSound(t) /\ ListSound(t))'
  BY ListByThread
<1> HandSound(t) /\ ListSound(t)
  BY DEF ListInv
<1> USE DEF Goto, InTable, Downloading, Deleting, HandSound, ListSound, TypeInv, TypeOK
<1>1. CASE Crash
  BY <1>1 DEF Crash, ResetThreads
<1>2. CASE MkdirFails(t)
  BY <1>2 DEF MkdirFails
<1>3. CASE UnlinkFails(t)
  BY <1>3 DEF UnlinkFails
<1> QED
  BY <1>1, <1>2, <1>3 DEF Fault, JobFault

LEMMA ListNext == OneJobAtATime /\ TypeInv /\ ListInv /\ [Next]_vars => ListInv'
<1> SUFFICES ASSUME OneJobAtATime, TypeInv, ListInv, [Next]_vars PROVE ListInv'
  OBVIOUS
<1>1. ASSUME NEW vs \in SUBSET Videos, Discover(vs)
      PROVE  ListInv'
  BY <1>1, DiscoverAssumption, RetryFromAssumption
  DEF Discover, ListInv, HandSound, ListSound, Downloading, Deleting, InTable,
      TypeInv, TypeOK, Parked
<1>2. CASE UNCHANGED <<status, retryCount, media, job, pc, rows, current>>
  BY <1>2 DEF ListInv, HandSound, ListSound, Downloading, Deleting, InTable
<1>3. CASE \/ \E v \in Videos : Age(v)
           \/ UpdateChannelRetention \/ SetDefaultRetention \/ UNCHANGED vars
  BY <1>2, <1>3 DEF Age, UpdateChannelRetention, SetDefaultRetention, vars, baseVars
<1> QED
  BY <1>1, <1>3, ListFault, ListStart, ListWork DEF Next, Step

-----------------------------------------------------------------------------
(* The documented life of an episode.                                      *)

\* Nothing leaves a row 'downloading' behind, and Retry is pressed on what failed.
LifecycleFaults == RetryFrom \subseteq {"failed"} /\ Faults \subseteq {"unlink"}

\* 'downloading' is the status of the row in hand, and of no other.
OneDownload ==
    \A t \in Threads : \A v \in Videos :
        status[v] = "downloading" => pc[t] \in Downloading /\ current[t] = v

LifecycleInv == ListInv /\ OneDownload

LEMMA LifecycleInit == Init => LifecycleInv
  BY ListInit DEF LifecycleInv, OneDownload, Init, EmptyTable

LEMMA OneDownloadStep ==
  OneJobAtATime /\ LifecycleFaults /\ TypeInv /\ LifecycleInv /\ [Next]_vars => OneDownload'
<1> SUFFICES ASSUME OneJobAtATime, LifecycleFaults, TypeInv, LifecycleInv, [Next]_vars,
                    NEW t \in Threads, NEW v \in Videos, status'[v] = "downloading"
             PROVE  pc'[t] \in Downloading /\ current'[t] = v
  BY DEF OneDownload
<1> HandSound(t) /\ ListSound(t) /\ (status[v] = "downloading" => pc[t] \in Downloading /\ current[t] = v)
  BY DEF LifecycleInv, ListInv, OneDownload
<1> USE DEF Downloading, TypeInv, TypeOK
<1>1. ASSUME NEW vs \in SUBSET Videos, Discover(vs)
      PROVE  pc'[t] \in Downloading /\ current'[t] = v
  BY <1>1, DiscoverAssumption DEF Discover
<1>2. CASE \/ \E w \in Videos : Age(w)
           \/ UpdateChannelRetention \/ SetDefaultRetention \/ UNCHANGED vars
  BY <1>2 DEF Age, UpdateChannelRetention, SetDefaultRetention, vars, baseVars
<1>3. CASE StartJob(t)
  BY <1>3 DEF StartJob, StartCycle, StartProcess, StartRetry, StartQueue, StartDelete, Start, Goto
<1>4. CASE RetryVideo(t) \/ Requeue(t) \/ EndJob(t)
  BY <1>4
  DEF RetryVideo, Requeue, SelectStaleFailures, RequeueStaleFailures, EndJob, JobOver, ResetThreads,
      Goto, SetStatus, HandSound
<1>5. CASE ProcessStep(t)
  BY <1>5
  DEF ProcessStep, Process, SelectPending, MarkDownloading, DownloadSucceeds, DownloadFails,
      RecordFailure, Stat, RecordDone, Processed, Goto, SetStatus, NextRow, HandSound
<1>6. CASE Retain(t)
  BY <1>6
  DEF Retain, ReadDefaultRetention, SelectExcess, NextExcess, RetentionApplied, Unlink, Tombstone,
      Goto, SetStatus
<1>7. CASE Fault
  <2>1. UnlinkFails(t)
    BY <1>7 DEF Fault, JobFault, LifecycleFaults, OneJobAtATime
  <2> QED
    BY <2>1 DEF UnlinkFails, Goto
<1>8. \A u \in Threads : u = t
  BY DEF OneJobAtATime
<1> QED
  BY <1>1, <1>2, <1>3, <1>4, <1>5, <1>6, <1>7, <1>8 DEF Next, Step, Work

LEMMA LifecycleNext ==
  OneJobAtATime /\ LifecycleFaults /\ TypeInv /\ LifecycleInv /\ [Next]_vars => LifecycleInv'
  BY ListNext, OneDownloadStep DEF LifecycleInv

LEMMA LifecycleWrite ==
  ASSUME LifecycleFaults, TypeInv, LifecycleInv, NEW t \in Threads, WritesStatus(t)
  PROVE  Lifecycle!Next
<1> HandSound(t) /\ ListSound(t)
  BY DEF LifecycleInv, ListInv
<1> USE DEF Goto, SetStatus, NextRow, HandSound, ListSound, TypeInv, TypeOK, Downloading, Deleting,
            Parked, Statuses, InTable, Lifecycle!Asleep, Lifecycle!Move
<1>1. CASE RetryVideo(t)
  <2>1. current[t] \in Videos /\ Lifecycle!Ask(current[t])
    BY <1>1 DEF RetryVideo, LifecycleFaults, Lifecycle!Ask
  <2> QED
    BY <2>1 DEF Lifecycle!Next
<1>2. CASE RequeueStaleFailures(t)
  <2>1. Lifecycle!RetryDaily(rows[t])
    BY <1>2 DEF RequeueStaleFailures, Lifecycle!RetryDaily
  <2> QED
    BY <2>1 DEF Lifecycle!Next
<1>3. CASE MarkDownloading(t)
  <2>1. PICK v \in rows[t] : SetStatus(v, "downloading")
    BY <1>3 DEF MarkDownloading
  <2>2. v \in Videos /\ Lifecycle!Begin(v)
    BY <1>3, <2>1 DEF LifecycleInv, OneDownload, MarkDownloading, Lifecycle!Begin
  <2> QED
    BY <2>2 DEF Lifecycle!Next
<1>4. CASE RecordFailure(t)
  <2>1. current[t] \in Videos /\ Lifecycle!GiveUp(current[t])
    BY <1>4 DEF RecordFailure, Lifecycle!GiveUp
  <2> QED
    BY <2>1 DEF Lifecycle!Next
<1>5. CASE RecordDone(t)
  <2>1. current[t] \in Videos /\ Lifecycle!Succeed(current[t])
    BY <1>5 DEF RecordDone, Lifecycle!Succeed
  <2> QED
    BY <2>1 DEF Lifecycle!Next
<1>6. CASE Tombstone(t)
  <2>1. current[t] \in Videos /\ status[current[t]] \notin {"absent", "downloading"}
    BY <1>6 DEF Tombstone, LifecycleInv, OneDownload
  <2>2. Lifecycle!Delete(current[t])
    BY <1>6, <2>1 DEF Tombstone, Lifecycle!Delete
  <2> QED
    BY <2>1, <2>2 DEF Lifecycle!Next
<1> QED
  BY <1>1, <1>2, <1>3, <1>4, <1>5, <1>6 DEF WritesStatus

LEMMA LifecycleStep ==
  LifecycleFaults /\ TypeInv /\ LifecycleInv /\ [Next]_vars => [Lifecycle!Next]_<<status, retryCount>>
<1> SUFFICES ASSUME LifecycleFaults, TypeInv, LifecycleInv, [Next]_vars
             PROVE  Lifecycle!Next \/ UNCHANGED <<status, retryCount>>
  OBVIOUS
<1>1. ASSUME NEW vs \in SUBSET Videos, Discover(vs)
      PROVE  Lifecycle!Next
  <2>1. Lifecycle!Discover(vs)
    BY <1>1 DEF Discover, InTable, Lifecycle!Discover
  <2> QED
    BY <2>1 DEF Lifecycle!Next
<1> QED
  BY <1>1, TableSteps, LifecycleWrite

(* One job at a time, the pipeline implements the documented life of an    *)
(* episode, for every number of episodes: one download at a time, a done   *)
(* episode leaves the feed by deletion only, a failed one comes back as    *)
(* often as the cap allows or when somebody asks, a sleeping one only then.*)
(* A file that cannot be unlinked changes none of it.                      *)
THEOREM EpisodesImplementLifecycle ==
  ASSUME OneJobAtATime, RetryFrom \subseteq {"failed"}, Faults \subseteq {"unlink"}
  PROVE  Spec => ImplementsLifecycle
<1>1. Init => Lifecycle!Init
  BY DEF Init, EmptyTable, Lifecycle!Init
<1>2. TypeInv /\ LifecycleInv /\ [Next]_vars => [Lifecycle!Next]_<<status, retryCount>>
  BY LifecycleStep DEF LifecycleFaults
<1>3. TypeInv /\ LifecycleInv /\ [Next]_vars => LifecycleInv'
  BY LifecycleNext DEF LifecycleFaults
<1> QED
  BY <1>1, <1>2, <1>3, InitType, NextType, LifecycleInit, PTL DEF Spec, ImplementsLifecycle, Lifecycle!Spec

(* No cycle wakes what the admin deleted, or what was never meant to be    *)
(* downloaded: only Retry and Queue on that very episode do, whatever      *)
(* crashes, and wherever Retry is pressed.                                 *)
THEOREM ParkedUntilAskedFor ==
  ASSUME OneJobAtATime
  PROVE  Spec => ParkedStaysParked
<1> DEFINE Woken(v) ==
      status[v] \in Parked /\ status'[v] \notin Parked =>
          \E t \in Threads : RetryVideo(t) /\ current[t] = v
<1>1. TypeInv /\ ListInv /\ [Next]_vars => \A v \in Videos : Woken(v)
  <2> SUFFICES ASSUME TypeInv, ListInv, [Next]_vars,
                      NEW v \in Videos, status[v] \in Parked, status'[v] \notin Parked
               PROVE  \E t \in Threads : RetryVideo(t) /\ current[t] = v
    OBVIOUS
  <2>1. PICK t \in Threads : WritesStatus(t)
    <3>1. ASSUME NEW vs \in SUBSET Videos, Discover(vs)
          PROVE  FALSE
      BY <3>1 DEF Discover, InTable, Parked, TypeInv, TypeOK
    <3> QED
      BY <3>1, TableSteps
  <2>2. HandSound(t) /\ ListSound(t)
    BY DEF ListInv
  <2>3. RetryVideo(t) /\ current[t] = v
    BY <2>1, <2>2 DEF WritesStatus, RetryVideo, RequeueStaleFailures, MarkDownloading, RecordFailure,
       RecordDone, Tombstone, Goto, SetStatus, NextRow, HandSound, ListSound, Downloading, Deleting,
       Parked, TypeInv, TypeOK
  <2> QED
    BY <2>3
<1>2. TypeInv /\ ListInv /\ [Next]_vars => ListInv'
  BY ListNext
<1>3. TypeInv /\ ListInv /\ [Next]_vars
        => [\A v \in Videos : Woken(v)]_vars
  BY <1>1
<1> QED
  BY <1>2, <1>3, InitType, NextType, ListInit, PTL DEF Spec, ParkedStaysParked

-----------------------------------------------------------------------------
(* Rows and files.                                                         *)

\* delete_episode removes the file before the row says so.
PlaySound(t) ==
    \A v \in Videos :
        status[v] = "done" => v \in media \/ (pc[t] = "tombstone" /\ current[t] = v)

PlayInv == ListInv /\ \A t \in Threads : PlaySound(t)

LEMMA PlayInit == Init => PlayInv
  BY ListInit DEF PlayInv, PlaySound, Init, EmptyTable

LEMMA PlayNext ==
  OneJobAtATime /\ "crash" \notin Faults /\ TypeInv /\ PlayInv /\ [Next]_vars => PlayInv'
<1> SUFFICES ASSUME OneJobAtATime, "crash" \notin Faults, TypeInv, PlayInv, [Next]_vars,
                    NEW t \in Threads
             PROVE  PlaySound(t)'
  BY ListNext DEF PlayInv
<1> HandSound(t) /\ PlaySound(t)
  BY DEF PlayInv, ListInv
<1> USE DEF PlaySound, TypeInv, TypeOK
<1>1. ASSUME NEW vs \in SUBSET Videos, Discover(vs)
      PROVE  PlaySound(t)'
  BY <1>1, DiscoverAssumption DEF Discover
<1>2. CASE \/ \E w \in Videos : Age(w)
           \/ UpdateChannelRetention \/ SetDefaultRetention \/ UNCHANGED vars
  BY <1>2 DEF Age, UpdateChannelRetention, SetDefaultRetention, vars, baseVars
<1>3. CASE StartJob(t)
  BY <1>3 DEF StartJob, StartCycle, StartProcess, StartRetry, StartQueue, StartDelete, Start, Goto
<1>4. CASE RetryVideo(t) \/ Requeue(t) \/ EndJob(t)
  BY <1>4
  DEF RetryVideo, Requeue, SelectStaleFailures, RequeueStaleFailures, EndJob, JobOver, ResetThreads,
      Goto, SetStatus
<1>5. CASE ProcessStep(t)
  BY <1>5
  DEF ProcessStep, Process, SelectPending, MarkDownloading, DownloadSucceeds, DownloadFails,
      RecordFailure, Stat, RecordDone, Processed, Goto, SetStatus, HandSound, Downloading
<1>6. CASE Retain(t)
  BY <1>6
  DEF Retain, ReadDefaultRetention, SelectExcess, NextExcess, RetentionApplied, Unlink, Tombstone,
      Goto, SetStatus
<1>7. CASE Fault
  <2>1. MkdirFails(t) \/ UnlinkFails(t)
    BY <1>7 DEF Fault, JobFault, OneJobAtATime
  <2> QED
    BY <2>1 DEF MkdirFails, UnlinkFails, Goto
<1>8. \A u \in Threads : u = t
  BY DEF OneJobAtATime
<1> QED
  BY <1>1, <1>2, <1>3, <1>4, <1>5, <1>6, <1>7, <1>8 DEF Next, Step, Work

(* One job at a time, every episode in a feed has its file, for every      *)
(* channel, but for the moment between delete_episode's unlink and commit. *)
(* Only a crash in that moment can make it last.                           *)
THEOREM FeedIsPlayable ==
  ASSUME OneJobAtATime, "crash" \notin Faults
  PROVE  Spec => []DoneHasFile
<1>1. PlayInv => DoneHasFile
  BY DEF OneJobAtATime, PlayInv, PlaySound, DoneHasFile, Feed, Playable, BeingDeleted
<1>2. TypeInv /\ PlayInv /\ [Next]_vars => PlayInv'
  BY PlayNext
<1> QED
  BY <1>1, <1>2, InitType, NextType, PlayInit, PTL DEF Spec

\* A file comes before its row says so, and goes before: in between the thread
\* is at a label that tells.
FileSound(t) ==
    /\ \A v \in media : filePath[v] \/ (pc[t] \in {"stat", "finish"} /\ current[t] = v)
    /\ pc[t] \in Deleting \cup {"retain"} => rows[t] \subseteq paths[t]
    /\ pc[t] = "delete" => (filePath[current[t]] => current[t] \in paths[t])
    /\ pc[t] = "tombstone" => current[t] \notin media

FileInv == RowPathSound /\ ListInv /\ \A t \in Threads : FileSound(t)

LEMMA FileInit == Init => FileInv
<1> SUFFICES ASSUME Init PROVE RowPathSound /\ \A t \in Threads : FileSound(t)
  BY ListInit DEF FileInv
<1> QED
  BY DEF Init, EmptyTable, IdleThreads, RowPathSound, FileSound, Deleting

LEMMA FileStart ==
  ASSUME OneJobAtATime, TypeInv, FileInv, NEW t \in Threads, StartJob(t)
  PROVE  FileSound(t)'
<1> FileSound(t) /\ ListSound(t)
  BY DEF FileInv, ListInv
<1> USE DEF Start, Goto, FileSound, ListSound, Deleting, TypeInv, TypeOK
<1>1. CASE StartCycle(t)
  BY <1>1 DEF StartCycle
<1>2. CASE StartProcess(t)
  BY <1>2 DEF StartProcess
<1>3. CASE StartRetry(t)
  BY <1>3 DEF StartRetry
<1>4. CASE StartQueue(t)
  BY <1>4 DEF StartQueue
<1>5. CASE StartDelete(t)
  BY <1>5 DEF StartDelete
<1> QED
  BY <1>1, <1>2, <1>3, <1>4, <1>5 DEF StartJob

LEMMA FileProcess ==
  ASSUME OneJobAtATime, TypeInv, FileInv, NEW t \in Threads, ProcessStep(t)
  PROVE  FileSound(t)'
<1> FileSound(t) /\ HandSound(t)
  BY DEF FileInv, ListInv
<1> USE DEF Goto, SetStatus, Fetch, NextRow, Release, FileSound, HandSound, Downloading, Deleting,
            TypeInv, TypeOK
<1>1. CASE SelectPending(t)
  BY <1>1 DEF SelectPending
<1>2. CASE MarkDownloading(t)
  BY <1>2 DEF MarkDownloading
<1>3. CASE DownloadSucceeds(t)
  BY <1>3 DEF DownloadSucceeds
<1>4. CASE DownloadFails(t)
  BY <1>4 DEF DownloadFails
<1>5. CASE RecordFailure(t)
  BY <1>5 DEF RecordFailure
<1>6. CASE Stat(t)
  BY <1>6 DEF Stat
<1>7. CASE RecordDone(t)
  BY <1>7 DEF RecordDone
<1>8. CASE Processed(t)
  BY <1>8 DEF Processed
<1> QED
  BY <1>1, <1>2, <1>3, <1>4, <1>5, <1>6, <1>7, <1>8 DEF ProcessStep, Process

LEMMA FileRetain ==
  ASSUME OneJobAtATime, TypeInv, FileInv, NEW t \in Threads, Retain(t)
  PROVE  FileSound(t)'
<1> FileSound(t) /\ HandSound(t) /\ ListSound(t) /\ RowPathSound
  BY DEF FileInv, ListInv
<1> USE DEF Goto, SetStatus, Fetch, NextRow, Release, FileSound, HandSound, ListSound, Downloading,
            Deleting, TypeInv, TypeOK
<1>1. CASE ReadDefaultRetention(t)
  BY <1>1 DEF ReadDefaultRetention
<1>2. CASE SelectExcess(t)
  BY <1>2 DEF SelectExcess, Excess, DoneEpisodes, RowPathSound
<1>3. CASE NextExcess(t)
  BY <1>3 DEF NextExcess
<1>4. CASE RetentionApplied(t)
  BY <1>4 DEF RetentionApplied
<1>5. CASE Unlink(t)
  BY <1>5 DEF Unlink
<1>6. CASE Tombstone(t)
  BY <1>6 DEF Tombstone
<1> QED
  BY <1>1, <1>2, <1>3, <1>4, <1>5, <1>6 DEF Retain

LEMMA FileWork ==
  ASSUME OneJobAtATime, TypeInv, FileInv, NEW t \in Threads, Work(t)
  PROVE  FileSound(t)'
<1> FileSound(t) /\ ListSound(t) /\ HandSound(t)
  BY DEF FileInv, ListInv
<1>1. CASE RetryVideo(t)
  BY <1>1 DEF RetryVideo, Goto, SetStatus, Release, FileSound, Deleting, TypeInv, TypeOK
<1>2. CASE SelectStaleFailures(t)
  BY <1>2 DEF SelectStaleFailures, Goto, Fetch, FileSound, Deleting, TypeInv, TypeOK
<1>3. CASE RequeueStaleFailures(t)
  BY <1>3 DEF RequeueStaleFailures, Goto, Fetch, FileSound, Deleting, TypeInv, TypeOK
<1>4. CASE EndJob(t)
  BY <1>4 DEF EndJob, JobOver, ResetThreads, FileSound, Deleting, TypeInv, TypeOK
<1> QED
  BY <1>1, <1>2, <1>3, <1>4, FileProcess, FileRetain DEF Work, Requeue

LEMMA FileNext ==
  OneJobAtATime /\ Faults \subseteq {"mkdir"} /\ TypeInv /\ FileInv /\ [Next]_vars => FileInv'
<1> SUFFICES ASSUME OneJobAtATime, Faults \subseteq {"mkdir"}, TypeInv, FileInv, [Next]_vars,
                    NEW t \in Threads
             PROVE  FileSound(t)'
  BY RowPathNext, ListNext DEF FileInv
<1> FileSound(t)
  BY DEF FileInv
<1>1. ASSUME NEW vs \in SUBSET Videos, Discover(vs)
      PROVE  FileSound(t)'
  BY <1>1, DiscoverAssumption DEF Discover, FileSound, Deleting, TypeInv, TypeOK
<1>2. CASE \/ \E v \in Videos : Age(v)
           \/ UpdateChannelRetention \/ SetDefaultRetention \/ UNCHANGED vars
  BY <1>2 DEF Age, UpdateChannelRetention, SetDefaultRetention, vars, baseVars, FileSound
<1>3. ASSUME NEW u \in Threads, StartJob(u) \/ Work(u)
      PROVE  FileSound(t)'
  <2>1. u = t
    BY DEF OneJobAtATime
  <2> QED
    BY <1>3, <2>1, FileStart, FileWork
<1>4. CASE Fault
  <2>1. MkdirFails(t) /\ UNCHANGED paths
    BY <1>4 DEF Fault, JobFault, OneJobAtATime
  <2> QED
    BY <2>1 DEF MkdirFails, Goto, FileSound, Deleting, TypeInv, TypeOK
<1> QED
  BY <1>1, <1>2, <1>3, <1>4 DEF Next, Step

(* One job at a time, and as long as unlink works and nothing crashes, no  *)
(* file stays on disk without a row that refers to it.                     *)
THEOREM FilesAreReferred ==
  ASSUME OneJobAtATime, Faults \subseteq {"mkdir"}
  PROVE  Spec => []NoOrphanFile
<1>1. FileInv => NoOrphanFile
  BY DEF OneJobAtATime, FileInv, FileSound, NoOrphanFile, JustDownloaded
<1>2. TypeInv /\ FileInv /\ [Next]_vars => FileInv'
  BY FileNext
<1> QED
  BY <1>1, <1>2, InitType, NextType, FileInit, PTL DEF Spec

-----------------------------------------------------------------------------
(* What apply_retention's slice keeps and what it removes.                 *)

\* Published is a strict order on the episodes.
LEMMA NewerFinite ==
  ASSUME IsFiniteSet(Videos), NEW v \in Videos
  PROVE  IsFiniteSet(NewerDone(v)) /\ Cardinality(NewerDone(v)) \in Nat
  BY FS_Subset, FS_CardinalityType DEF NewerDone, DoneEpisodes

LEMMA DoneFinite ==
  ASSUME IsFiniteSet(Videos), NEW c
  PROVE  IsFiniteSet(DoneEpisodes(c))
  BY FS_Subset DEF DoneEpisodes

(* At most keep episodes are kept: the oldest of them has fewer than keep  *)
(* newer ones, and those are all the others.                               *)
LEMMA KeepsNoMore ==
  ASSUME IsFiniteSet(Videos), NEW c \in Channels, NEW keep \in Nat, keep # 0
  PROVE  Cardinality(DoneEpisodes(c) \ Excess(c, keep)) <= keep
<1> DEFINE K == DoneEpisodes(c) \ Excess(c, keep)
<1>1. K \subseteq Videos /\ \A v \in K : Cardinality(NewerDone(v)) < keep
  BY NewerFinite DEF Excess, DoneEpisodes
<1>2. IsFiniteSet(K) /\ Cardinality(K) \in Nat
  BY <1>1, FS_Subset, FS_CardinalityType
<1>3. CASE K = {}
  BY <1>3, FS_EmptySet
<1>4. CASE K # {}
  <2> DEFINE T == {Published[v] : v \in K}
  <2>1. T \in SUBSET Nat /\ T # {}
    BY <1>1, <1>4, PublishedAssumption
  <2>2. PICK m \in K : \A v \in K : Published[m] <= Published[v]
    <3> HIDE DEF T
    <3>1. PICK n \in T : \A k \in T : n <= k
      BY <2>1, LeastNat
    <3> QED
      BY <3>1 DEF T
  <2>3. K \ {m} \subseteq NewerDone(m)
    <3>1. K \subseteq DoneEpisodes(c) /\ Owner[m] = c
      BY DEF DoneEpisodes
    <3>2. \A v \in K \ {m} : Published[v] > Published[m]
      BY <1>1, <2>2, PublishedAssumption
    <3> QED
      BY <3>1, <3>2 DEF NewerDone
  <2>4. Cardinality(K) - 1 <= Cardinality(NewerDone(m))
    <3> HIDE DEF K
    <3>1. Cardinality(K \ {m}) = Cardinality(K) - 1
      BY <1>2, FS_RemoveElement
    <3>2. IsFiniteSet(NewerDone(m))
      BY <1>1, NewerFinite
    <3>3. Cardinality(K \ {m}) <= Cardinality(NewerDone(m))
      BY <2>3, <3>2, FS_Subset
    <3> QED
      BY <3>1, <3>3
  <2> QED
    BY <1>1, <1>2, <2>4, NewerFinite
<1> QED
  BY <1>3, <1>4

(* Whatever is removed leaves keep newer episodes behind: those newer than *)
(* the newest one removed are all kept.                                    *)
LEMMA KeepsNoFewer ==
  ASSUME IsFiniteSet(Videos), NEW c \in Channels, NEW keep \in Nat, NEW v \in Excess(c, keep)
  PROVE  Cardinality(NewerDone(v) \ Excess(c, keep)) >= keep
<1> DEFINE E == Excess(c, keep)
<1>1. E \subseteq DoneEpisodes(c) /\ \A w \in E : Cardinality(NewerDone(w)) >= keep
  BY DEF Excess
<1>2. \A w \in DoneEpisodes(c) \ E : Cardinality(NewerDone(w)) < keep
  BY NewerFinite DEF Excess, DoneEpisodes
<1>3. \A w \in DoneEpisodes(c) : w \in Videos /\ Owner[w] = c
  BY DEF DoneEpisodes
<1> HIDE DEF E
<1>4. PICK m \in E : \A w \in E : Cardinality(NewerDone(m)) <= Cardinality(NewerDone(w))
  <2> DEFINE T == {Cardinality(NewerDone(w)) : w \in E}
  <2>1. T \in SUBSET Nat /\ T # {}
    BY <1>1, <1>3, NewerFinite DEF E
  <2> HIDE DEF T
  <2>2. PICK n \in T : \A k \in T : n <= k
    BY <2>1, LeastNat
  <2> QED
    BY <2>2 DEF T
<1>5. \A w \in NewerDone(m) : w \notin E
  <2> SUFFICES ASSUME NEW w \in NewerDone(m), w \in E PROVE FALSE
    OBVIOUS
  <2>1. NewerDone(w) \subseteq NewerDone(m) /\ w \notin NewerDone(w) /\ w \in Videos /\ m \in Videos
    BY <1>1, <1>3, PublishedAssumption DEF NewerDone, DoneEpisodes
  <2>2. NewerDone(w) # NewerDone(m)
    BY <2>1
  <2>3. Cardinality(NewerDone(w)) < Cardinality(NewerDone(m))
    BY <2>1, <2>2, FS_Subset, NewerFinite
  <2> QED
    BY <1>4, <2>1, <2>3, NewerFinite
<1>6. NewerDone(m) \subseteq NewerDone(v) \ E
  <2>1. v \in E /\ v \in Videos /\ m \in Videos /\ Owner[v] = c /\ Owner[m] = c
    BY <1>1, <1>3 DEF E
  <2>2. ~(Published[v] > Published[m])
    BY <1>1, <1>5, <2>1 DEF NewerDone
  <2> QED
    BY <1>5, <2>1, <2>2, PublishedAssumption DEF NewerDone, DoneEpisodes
<1>7. Cardinality(NewerDone(m)) <= Cardinality(NewerDone(v) \ E)
  <2>1. v \in Videos /\ m \in Videos
    BY <1>1, <1>3 DEF E
  <2>2. IsFiniteSet(NewerDone(v) \ E)
    BY <2>1, NewerFinite, FS_Subset
  <2> QED
    BY <1>6, <2>2, FS_Subset
<1>8. /\ Cardinality(NewerDone(m)) \in Nat /\ Cardinality(NewerDone(m)) >= keep
      /\ Cardinality(NewerDone(v) \ E) \in Nat
  <2>1. v \in Videos /\ m \in Videos
    BY <1>1, <1>3 DEF E
  <2> QED
    BY <1>1, <2>1, NewerFinite, FS_Subset, FS_CardinalityType
<1> QED
  BY <1>7, <1>8 DEF E

-----------------------------------------------------------------------------
(* Retention from its SELECTs to its last tombstone.                       *)

\* The rows t's cycle has selected for removal and not tombstoned yet.
Doomed(t) == rows[t] \cup ({current[t]} \cap Videos)

\* The channels it has been through keep no more than their policy, and every
\* row it is about to remove has enough newer ones that stay.
PolicyMet(t) ==
    /\ policy[t] \in [Channels -> Policies]
    /\ \A c \in Channels \ todo[t] :
           policy[t][c] = 0 \/ Cardinality(DoneEpisodes(c) \ Doomed(t)) <= policy[t][c]
    /\ \A v \in Doomed(t) : Cardinality(NewerDone(v) \ Doomed(t)) >= policy[t][Owner[v]]

CycleSound(t) ==
    /\ pc[t] \in {"idle", "requeue", "requeue_write", "select", "row", "processed", "retain", "returned"}
           => current[t] = NoVideo
    /\ job[t] = "cycle" /\ pc[t] = "returned" => rows[t] = {} /\ todo[t] = {}
    /\ job[t] = "cycle" /\ pc[t] \in Deleting \cup {"retain", "returned"} => PolicyMet(t)

PolicyInv == ListInv /\ \A t \in Threads : CycleSound(t)

LEMMA PolicyInit == Init => PolicyInv
<1> SUFFICES ASSUME Init PROVE \A t \in Threads : CycleSound(t)
  BY ListInit DEF PolicyInv
<1> QED
  BY DEF Init, IdleThreads, CycleSound, Deleting

\* What stays is the same before and after, and nothing else is doomed.
LEMMA PolicyKept ==
  ASSUME NEW t \in Threads, TypeInv, PolicyMet(t), UNCHANGED <<policy, todo>>,
         \A c \in Channels : (DoneEpisodes(c) \ Doomed(t))' = DoneEpisodes(c) \ Doomed(t),
         Doomed(t)' \subseteq Doomed(t)
  PROVE  PolicyMet(t)'
<1>1. \A v \in Videos : (NewerDone(v) \ Doomed(t))' = NewerDone(v) \ Doomed(t)
  BY OwnerAssumption DEF NewerDone
<1>2. Doomed(t) \subseteq Videos
  BY DEF Doomed, TypeInv, TypeOK
<1> QED
  BY <1>1, <1>2 DEF PolicyMet

LEMMA PolicyStart ==
  ASSUME OneJobAtATime, TypeInv, PolicyInv, NEW t \in Threads, StartJob(t)
  PROVE  CycleSound(t)'
<1> CycleSound(t)
  BY DEF PolicyInv
<1> QED
  BY DEF StartJob, StartCycle, StartProcess, StartRetry, StartQueue, StartDelete, Start, Goto,
         CycleSound, Deleting, TypeInv, TypeOK

LEMMA PolicyProcess ==
  ASSUME OneJobAtATime, TypeInv, PolicyInv, NEW t \in Threads, ProcessStep(t)
  PROVE  CycleSound(t)'
<1> CycleSound(t)
  BY DEF PolicyInv
<1>1. pc'[t] \notin Deleting \cup {"retain", "returned"}
  BY DEF ProcessStep, Process, SelectPending, MarkDownloading, DownloadSucceeds, DownloadFails,
         RecordFailure, Stat, RecordDone, Processed, Goto, Deleting, TypeInv, TypeOK
<1>2. pc'[t] \in {"row", "processed"} => current'[t] = NoVideo
  BY DEF ProcessStep, Process, SelectPending, MarkDownloading, DownloadSucceeds, DownloadFails,
         RecordFailure, Stat, RecordDone, Processed, Goto, Release, CycleSound, TypeInv, TypeOK
<1>3. pc'[t] \notin {"idle", "requeue", "requeue_write", "select"}
  BY DEF ProcessStep, Process, SelectPending, MarkDownloading, DownloadSucceeds, DownloadFails,
         RecordFailure, Stat, RecordDone, Processed, Goto, TypeInv, TypeOK
<1> QED
  BY <1>1, <1>2, <1>3 DEF CycleSound

LEMMA PolicySelect ==
  ASSUME IsFiniteSet(Videos), TypeInv, PolicyInv, NEW t \in Threads, SelectExcess(t), UNCHANGED faults
  PROVE  CycleSound(t)'
<1> USE DEF Goto, Fetch, TypeInv, TypeOK
<1>1. PICK c \in todo[t] : /\ todo' = [todo EXCEPT ![t] = @ \ {c}]
                           /\ Fetch(t, Excess(c, policy[t][c]))
  BY DEF SelectExcess
<1>2. /\ pc[t] = "retain" /\ pc'[t] = "retain" /\ rows[t] = {}
      /\ UNCHANGED <<status, job, current, policy>>
  BY DEF SelectExcess
<1>3. current[t] = NoVideo /\ current'[t] = NoVideo
  BY <1>2 DEF PolicyInv, CycleSound
<1>4. ASSUME job[t] = "cycle" PROVE PolicyMet(t)'
  <2> DEFINE keep == policy[t][c]
  <2>1. PolicyMet(t) /\ c \in Channels /\ keep \in Nat /\ Policies \subseteq Nat
    BY <1>2, <1>4, PoliciesAssumption DEF PolicyInv, CycleSound, PolicyMet
  <2>2. Doomed(t) = {} /\ Doomed(t)' = Excess(c, keep)
    BY <1>1, <1>2, <1>3, NoVideoAssumption DEF Doomed
  <2>3. \A d \in Channels : DoneEpisodes(d)' = DoneEpisodes(d)
    BY <1>2 DEF DoneEpisodes
  <2>4. \A v \in Videos : NewerDone(v)' = NewerDone(v)
    BY <2>3, OwnerAssumption DEF NewerDone
  <2>5. ASSUME NEW d \in Channels \ todo'[t]
        PROVE  policy[t][d] = 0 \/ Cardinality(DoneEpisodes(d) \ Excess(c, keep)) <= policy[t][d]
    <3>1. CASE d = c
      BY <2>1, <3>1, KeepsNoMore
    <3>2. CASE d # c
      <4>1. d \in Channels \ todo[t]
        BY <1>1, <2>5, <3>2
      <4>2. DoneEpisodes(d) \ Excess(c, keep) = DoneEpisodes(d) \ Doomed(t)
        BY <2>2, <3>2 DEF Excess, DoneEpisodes
      <4> QED
        BY <2>1, <4>1, <4>2 DEF PolicyMet
    <3> QED
      BY <3>1, <3>2
  <2>6. ASSUME NEW v \in Excess(c, keep)
        PROVE  v \in Videos /\ Owner[v] = c /\ Cardinality(NewerDone(v) \ Excess(c, keep)) >= keep
    BY <2>1, <2>6, KeepsNoFewer DEF Excess, DoneEpisodes
  <2> QED
    BY <1>2, <2>1, <2>2, <2>3, <2>4, <2>5, <2>6 DEF PolicyMet
<1> QED
  BY <1>2, <1>3, <1>4 DEF CycleSound, Deleting

LEMMA PolicyRetain ==
  ASSUME OneJobAtATime, IsFiniteSet(Videos), TypeInv, PolicyInv, NEW t \in Threads, Retain(t),
         UNCHANGED faults
  PROVE  CycleSound(t)'
<1> CycleSound(t) /\ HandSound(t) /\ ListSound(t)
  BY DEF PolicyInv, ListInv
<1> USE DEF Goto, NextRow, Release, TypeInv, TypeOK
<1>1. CASE ReadDefaultRetention(t)
  <2>1. /\ pc'[t] = "retain" /\ job'[t] = "cycle"
        /\ rows[t] = {} /\ current[t] = NoVideo /\ UNCHANGED <<rows, current>>
    BY <1>1 DEF ReadDefaultRetention, CycleSound, ListSound
  <2>2. todo'[t] = Channels /\ policy'[t] \in [Channels -> Policies]
    BY <1>1 DEF ReadDefaultRetention
  <2>3. Doomed(t)' = {}
    BY <2>1, NoVideoAssumption DEF Doomed
  <2> QED
    BY <2>1, <2>2, <2>3 DEF CycleSound, PolicyMet, Deleting
<1>2. CASE SelectExcess(t)
  BY <1>2, PolicySelect
<1>3. CASE NextExcess(t)
  <2>1. PICK v \in rows[t] : NextRow(t, v)
    BY <1>3 DEF NextExcess
  <2>2. pc[t] = "retain" /\ pc'[t] = "delete" /\ UNCHANGED <<status, job, policy, todo>>
    BY <1>3 DEF NextExcess
  <2>3. Doomed(t)' = Doomed(t)
    BY <2>1, <2>2, NoVideoAssumption DEF CycleSound, Doomed
  <2>4. job[t] = "cycle" => PolicyMet(t)'
    BY <2>2, <2>3, PolicyKept DEF CycleSound, DoneEpisodes
  <2> QED
    BY <2>2, <2>4 DEF CycleSound, Deleting
<1>4. CASE RetentionApplied(t)
  <2>1. /\ pc[t] = "retain" /\ pc'[t] = "returned" /\ rows[t] = {} /\ todo[t] = {}
        /\ UNCHANGED <<status, job, policy, todo, rows, current>>
    BY <1>4 DEF RetentionApplied
  <2>2. job[t] = "cycle" => PolicyMet(t)'
    BY <2>1, PolicyKept DEF CycleSound, Doomed, DoneEpisodes
  <2> QED
    BY <2>1, <2>2 DEF CycleSound, Deleting
<1>5. CASE Unlink(t)
  <2>1. /\ pc[t] = "delete" /\ pc'[t] = "tombstone"
        /\ UNCHANGED <<status, job, policy, todo, rows, current>>
    BY <1>5 DEF Unlink
  <2>2. job[t] = "cycle" => PolicyMet(t)'
    BY <2>1, PolicyKept DEF CycleSound, Deleting, Doomed, DoneEpisodes
  <2> QED
    BY <2>1, <2>2 DEF CycleSound, Deleting
<1>6. CASE Tombstone(t)
  <2>1. /\ pc[t] = "tombstone" /\ pc'[t] = (IF job[t] = "cycle" THEN "retain" ELSE "returned")
        /\ current'[t] = NoVideo
        /\ UNCHANGED <<job, policy, todo, rows>>
    BY <1>6 DEF Tombstone
  <2>2. /\ current[t] \in Videos \ rows[t]
        /\ status' = [status EXCEPT ![current[t]] = "deleted"]
    BY <1>6, <2>1 DEF Tombstone, SetStatus, HandSound, Deleting
  <2>3. Doomed(t) = rows[t] \cup {current[t]} /\ Doomed(t)' = rows[t]
    BY <2>1, <2>2, NoVideoAssumption DEF Doomed
  <2>4. \A c \in Channels : DoneEpisodes(c)' = DoneEpisodes(c) \ {current[t]}
    BY <2>2 DEF DoneEpisodes
  <2>5. job[t] = "cycle" => PolicyMet(t)'
    BY <2>1, <2>3, <2>4, PolicyKept DEF CycleSound, Deleting
  <2> QED
    BY <2>1, <2>5 DEF CycleSound, Deleting
<1> QED
  BY <1>1, <1>2, <1>3, <1>4, <1>5, <1>6 DEF Retain

LEMMA PolicyWork ==
  ASSUME OneJobAtATime, IsFiniteSet(Videos), TypeInv, PolicyInv, NEW t \in Threads, Work(t),
         UNCHANGED faults
  PROVE  CycleSound(t)'
<1> CycleSound(t)
  BY DEF PolicyInv
<1>1. CASE RetryVideo(t)
  BY <1>1 DEF RetryVideo, Goto, Release, CycleSound, Deleting, TypeInv, TypeOK
<1>2. CASE SelectStaleFailures(t)
  BY <1>2 DEF SelectStaleFailures, Goto, CycleSound, Deleting, TypeInv, TypeOK
<1>3. CASE RequeueStaleFailures(t)
  BY <1>3 DEF RequeueStaleFailures, Goto, CycleSound, Deleting, TypeInv, TypeOK
<1>4. CASE EndJob(t)
  BY <1>4 DEF EndJob, ResetThreads, CycleSound, Deleting
<1> QED
  BY <1>1, <1>2, <1>3, <1>4, PolicyProcess, PolicyRetain DEF Work, Requeue

LEMMA PolicyFault ==
  ASSUME OneJobAtATime, TypeInv, PolicyInv, Fault, NEW t \in Threads
  PROVE  CycleSound(t)'
<1> CycleSound(t)
  BY DEF PolicyInv
<1>1. CASE Crash
  BY <1>1 DEF Crash, ResetThreads, CycleSound, Deleting
<1>2. CASE MkdirFails(t)
  BY <1>2 DEF MkdirFails, Goto, CycleSound, Deleting, TypeInv, TypeOK
<1>3. CASE UnlinkFails(t)
  <2>1. /\ pc[t] = "delete" /\ pc'[t] = "tombstone"
        /\ UNCHANGED <<status, job, policy, todo, rows, current>>
    BY <1>3 DEF UnlinkFails, Goto, TypeInv, TypeOK
  <2>2. job[t] = "cycle" => PolicyMet(t)'
    BY <2>1, PolicyKept DEF CycleSound, Deleting, Doomed, DoneEpisodes
  <2> QED
    BY <2>1, <2>2 DEF CycleSound, Deleting
<1> QED
  BY <1>1, <1>2, <1>3 DEF Fault, JobFault, OneJobAtATime

LEMMA PolicyNext ==
  OneJobAtATime /\ IsFiniteSet(Videos) /\ TypeInv /\ PolicyInv /\ [Next]_vars => PolicyInv'
<1> SUFFICES ASSUME OneJobAtATime, IsFiniteSet(Videos), TypeInv, PolicyInv, [Next]_vars,
                    NEW t \in Threads
             PROVE  CycleSound(t)'
  BY ListNext DEF PolicyInv
<1> CycleSound(t)
  BY DEF PolicyInv
<1>1. ASSUME \A c \in Channels : DoneEpisodes(c)' = DoneEpisodes(c),
             UNCHANGED <<job, pc, rows, current, policy, todo>>
      PROVE  CycleSound(t)'
  <2>1. Doomed(t)' = Doomed(t)
    BY <1>1 DEF Doomed
  <2>2. PolicyMet(t) => PolicyMet(t)'
    BY <1>1, <2>1, PolicyKept
  <2> QED
    BY <1>1, <2>2 DEF CycleSound
<1>2. ASSUME NEW vs \in SUBSET Videos, Discover(vs)
      PROVE  CycleSound(t)'
  <2>1. \A v \in Videos : status'[v] = "done" <=> status[v] = "done"
    BY <1>2, DiscoverAssumption DEF Discover, InTable, TypeInv, TypeOK
  <2> QED
    BY <1>1, <1>2, <2>1 DEF Discover, DoneEpisodes
<1>3. CASE \/ \E v \in Videos : Age(v)
           \/ UpdateChannelRetention \/ SetDefaultRetention \/ UNCHANGED vars
  BY <1>1, <1>3 DEF Age, UpdateChannelRetention, SetDefaultRetention, vars, baseVars, DoneEpisodes
<1>4. ASSUME NEW u \in Threads, StartJob(u) \/ Work(u), UNCHANGED faults
      PROVE  CycleSound(t)'
  <2>1. u = t
    BY DEF OneJobAtATime
  <2> QED
    BY <1>4, <2>1, PolicyStart, PolicyWork
<1> QED
  BY <1>2, <1>3, <1>4, PolicyFault DEF Next, Step

(* keep_latest is a ceiling: whatever the number of channels and episodes, *)
(* a cycle that nothing overlaps leaves no channel with more done episodes *)
(* than the policy it applied, files that cannot be unlinked included.     *)
THEOREM RetentionIsCeiling ==
  ASSUME OneJobAtATime, IsFiniteSet(Videos)
  PROVE  Spec => []RetentionMeetsPolicy
<1>1. TypeInv /\ PolicyInv => RetentionMeetsPolicy
  <2> SUFFICES ASSUME TypeInv, PolicyInv, NEW t \in Threads, job[t] = "cycle", pc[t] = "returned",
                      NEW c \in Channels
               PROVE  policy[t][c] = 0 \/ Cardinality(DoneEpisodes(c)) <= policy[t][c]
    BY DEF RetentionMeetsPolicy
  <2>1. Doomed(t) = {} /\ todo[t] = {} /\ PolicyMet(t)
    BY NoVideoAssumption DEF PolicyInv, CycleSound, Doomed
  <2> QED
    BY <2>1 DEF PolicyMet
<1>2. TypeInv /\ PolicyInv /\ [Next]_vars => PolicyInv'
  BY PolicyNext
<1> QED
  BY <1>1, <1>2, InitType, NextType, PolicyInit, PTL DEF Spec

(* keep_latest is a floor: an episode that retention removes leaves at     *)
(* least keep_latest newer ones behind, also after a crash in mid-cycle.   *)
THEOREM RetentionIsFloor ==
  ASSUME OneJobAtATime, IsFiniteSet(Videos)
  PROVE  Spec => RetentionKeepsNewest
<1> DEFINE Floor(t) ==
      job[t] = "cycle" /\ Tombstone(t) =>
          Cardinality(NewerDone(current[t])) >= policy[t][Owner[current[t]]]
<1>1. TypeInv /\ PolicyInv => \A t \in Threads : Floor(t)
  <2> SUFFICES ASSUME TypeInv, PolicyInv, NEW t \in Threads, job[t] = "cycle", Tombstone(t)
               PROVE  Cardinality(NewerDone(current[t])) >= policy[t][Owner[current[t]]]
    OBVIOUS
  <2> DEFINE v == current[t]
  <2>1. pc[t] = "tombstone" /\ v \in Videos /\ PolicyMet(t)
    BY DEF Tombstone, Goto, PolicyInv, ListInv, HandSound, CycleSound, Deleting
  <2>2. /\ Cardinality(NewerDone(v) \ Doomed(t)) >= policy[t][Owner[v]]
        /\ policy[t][Owner[v]] \in Nat
    BY <2>1, OwnerAssumption, PoliciesAssumption DEF PolicyMet, Doomed
  <2>3. /\ Cardinality(NewerDone(v) \ Doomed(t)) <= Cardinality(NewerDone(v))
        /\ Cardinality(NewerDone(v)) \in Nat /\ Cardinality(NewerDone(v) \ Doomed(t)) \in Nat
    BY <2>1, NewerFinite, FS_Subset, FS_CardinalityType
  <2> QED
    BY <2>2, <2>3
<1>2. TypeInv /\ PolicyInv /\ [Next]_vars => [\A t \in Threads : Floor(t)]_vars
  BY <1>1
<1>3. TypeInv /\ PolicyInv /\ [Next]_vars => PolicyInv'
  BY PolicyNext
<1> QED
  BY <1>2, <1>3, InitType, NextType, PolicyInit, PTL DEF Spec, RetentionKeepsNewest
=============================================================================
