--------------------------- MODULE EpisodesProofs ---------------------------
(***************************************************************************)
(* Theorems about Episodes, for any number of videos, channels and threads *)
(* and any interleaving of their jobs.                                     *)
(***************************************************************************)
EXTENDS EpisodeProperties, FiniteSetTheorems, TLAPS

USE DEF Jobs, table, locals, retentionVars, cycleLocals

-----------------------------------------------------------------------------
(* Type correctness.                                                       *)

\* A download is of some row and has an attempt left.
DownloadSound ==
    \A t \in Threads :
        pc[t] = "download" => current[t] \in Videos /\ attempt[t] < MAX_DOWNLOAD_ATTEMPTS

TypeInv == TypeOK /\ DownloadSound

LEMMA InitType == Init => TypeInv
  BY PoliciesAssumption, AttemptsAssumption, FaultsAssumption
  DEF Init, TypeInv, TypeOK, DownloadSound, EmptyTable, IdleThreads, Statuses, Labels

LEMMA StartType ==
  ASSUME TypeInv, NEW t \in Threads, StartJob(t), UNCHANGED faults
  PROVE  TypeInv'
<1>1. CASE StartCycle(t)
  BY <1>1 DEF StartCycle, Start, Goto, TypeInv, TypeOK, DownloadSound, Labels
<1>2. CASE StartProcess(t)
  BY <1>2 DEF StartProcess, Start, Goto, TypeInv, TypeOK, DownloadSound, Labels
<1>3. CASE StartRetry(t)
  BY <1>3 DEF StartRetry, Start, Goto, TypeInv, TypeOK, DownloadSound, Labels
<1>4. CASE StartQueue(t)
  BY <1>4 DEF StartQueue, Start, Goto, TypeInv, TypeOK, DownloadSound, Labels
<1>5. CASE StartDelete(t)
  BY <1>5 DEF StartDelete, Start, Goto, TypeInv, TypeOK, DownloadSound, Labels
<1> QED
  BY <1>1, <1>2, <1>3, <1>4, <1>5 DEF StartJob

LEMMA ProcessType ==
  ASSUME TypeInv, NEW t \in Threads, ProcessStep(t), UNCHANGED faults
  PROVE  TypeInv'
<1> USE AttemptsAssumption
    DEF Goto, SetStatus, Fetch, NextRow, Release, TypeInv, TypeOK, DownloadSound, Labels, Statuses
<1>1. CASE SelectPending(t)
  BY <1>1 DEF ProcessStep, SelectPending
<1>2. CASE MarkDownloading(t)
  BY <1>2 DEF ProcessStep, MarkDownloading
<1>3. CASE DownloadSucceeds(t)
  BY <1>3 DEF ProcessStep, DownloadSucceeds
<1>4. CASE DownloadFails(t)
  BY <1>4 DEF ProcessStep, DownloadFails
<1>5. CASE RecordFailure(t)
  BY <1>5 DEF ProcessStep, RecordFailure
<1>6. CASE Stat(t)
  BY <1>6 DEF ProcessStep, Stat
<1>7. CASE RecordDone(t)
  BY <1>7 DEF ProcessStep, RecordDone
<1>8. CASE Processed(t)
  BY <1>8 DEF ProcessStep, Processed
<1> QED
  BY <1>1, <1>2, <1>3, <1>4, <1>5, <1>6, <1>7, <1>8 DEF ProcessStep, Process

LEMMA RetainType ==
  ASSUME TypeInv, NEW t \in Threads, Retain(t), UNCHANGED faults
  PROVE  TypeInv'
<1> USE DEF Goto, SetStatus, Fetch, NextRow, Release, TypeInv, TypeOK, DownloadSound, Labels,
            Statuses, Parked
<1>1. CASE ReadDefaultRetention(t)
  BY <1>1 DEF ReadDefaultRetention
<1>2. CASE SelectExcess(t)
  BY <1>2 DEF SelectExcess, Excess, DoneEpisodes
<1>3. CASE NextExcess(t)
  BY <1>3 DEF NextExcess
<1>4. CASE RetentionApplied(t)
  BY <1>4 DEF RetentionApplied
<1>5. CASE Unlink(t)
  BY <1>5 DEF Unlink
<1>6. CASE Tombstone(t)
  BY <1>6 DEF Tombstone
<1> QED
  BY <1>1, <1>2, <1>3, <1>4, <1>5, <1>6 DEF Retain

LEMMA ResetType ==
  ASSUME TypeInv, NEW ts \in SUBSET Threads, ResetThreads(ts),
         UNCHANGED <<table, media, retentionVars>>, faults' \in 0..MaxFaults
  PROVE  TypeInv'
  BY AttemptsAssumption DEF ResetThreads, TypeInv, TypeOK, DownloadSound, Labels

LEMMA WorkType ==
  ASSUME TypeInv, NEW t \in Threads, Work(t), UNCHANGED faults
  PROVE  TypeInv'
<1>1. CASE RetryVideo(t)
  BY <1>1 DEF RetryVideo, Goto, SetStatus, Release, TypeInv, TypeOK, DownloadSound, Labels, Statuses
<1>2. CASE SelectStaleFailures(t) /\ UNCHANGED <<attempt, retentionVars, cycleLocals, paths>>
  BY <1>2 DEF SelectStaleFailures, Goto, Fetch, TypeInv, TypeOK, DownloadSound, Labels
<1>3. CASE RequeueStaleFailures(t) /\ UNCHANGED <<attempt, retentionVars, cycleLocals, paths>>
  BY <1>3 DEF RequeueStaleFailures, Goto, Fetch, TypeInv, TypeOK, DownloadSound, Labels, Statuses
<1>4. CASE EndJob(t)
  BY <1>4, ResetType DEF EndJob, TypeInv, TypeOK
<1> QED
  BY <1>1, <1>2, <1>3, <1>4, ProcessType, RetainType DEF Work, Requeue

LEMMA FaultType ==
  ASSUME TypeInv, Fault
  PROVE  TypeInv'
<1>0. faults' \in 0..MaxFaults
  BY FaultsAssumption DEF Fault, CountFault, TypeInv, TypeOK
<1>1. CASE Crash
  BY <1>0, <1>1, ResetType DEF Crash
<1>2. ASSUME NEW t \in Threads, MkdirFails(t), UNCHANGED <<retentionVars, cycleLocals, paths>>
      PROVE  TypeInv'
  BY <1>0, <1>2 DEF MkdirFails, Goto, TypeInv, TypeOK, DownloadSound, Labels
<1>3. ASSUME NEW t \in Threads, UnlinkFails(t)
      PROVE  TypeInv'
  BY <1>0, <1>3 DEF UnlinkFails, Goto, TypeInv, TypeOK, DownloadSound, Labels
<1> QED
  BY <1>1, <1>2, <1>3 DEF Fault, JobFault

LEMMA NextType == TypeInv /\ [Next]_vars => TypeInv'
<1> SUFFICES ASSUME TypeInv, [Next]_vars PROVE TypeInv'
  OBVIOUS
<1>1. ASSUME NEW t \in Threads, StartJob(t) \/ Work(t), UNCHANGED faults
      PROVE  TypeInv'
  BY <1>1, StartType, WorkType
<1>2. ASSUME NEW vs \in SUBSET Videos, Discover(vs), UNCHANGED faults
      PROVE  TypeInv'
  BY <1>2, DiscoverAssumption DEF Discover, TypeInv, TypeOK, DownloadSound, Statuses, Parked
<1>5. ASSUME NEW v \in Videos, Age(v), UNCHANGED faults
      PROVE  TypeInv'
  BY <1>5 DEF Age, TypeInv, TypeOK, DownloadSound
<1>3. CASE (UpdateChannelRetention \/ SetDefaultRetention) /\ UNCHANGED faults
  BY <1>3 DEF UpdateChannelRetention, SetDefaultRetention, baseVars, TypeInv, TypeOK, DownloadSound
<1>4. CASE UNCHANGED vars
  BY <1>4 DEF vars, baseVars, TypeInv, TypeOK, DownloadSound
<1> QED
  BY <1>1, <1>2, <1>3, <1>4, <1>5, FaultType DEF Next, Step

(* The table, the files and every thread's locals keep their types, and no *)
(* row is tried more than MAX_DOWNLOAD_ATTEMPTS times by one run.          *)
THEOREM TypeCorrect == Spec => []TypeOK
<1>1. TypeInv => TypeOK
  BY DEF TypeInv
<1> QED
  BY InitType, NextType, <1>1, PTL DEF Spec

-----------------------------------------------------------------------------
(* A thread's steps by what they do to the `videos` table.                 *)

\* The steps that write a row's status.
WritesStatus(t) ==
    \/ RetryVideo(t)
    \/ RequeueStaleFailures(t)
    \/ MarkDownloading(t)
    \/ RecordFailure(t)
    \/ RecordDone(t)
    \/ Tombstone(t)

LEMMA TableSteps ==
  ASSUME [Next]_vars
  PROVE  \/ UNCHANGED <<status, filePath, retryCount>>
         \/ \E t \in Threads : WritesStatus(t)
         \/ \E vs \in SUBSET Videos : Discover(vs)
<1>1. ASSUME NEW t \in Threads, StartJob(t)
      PROVE  UNCHANGED <<status, filePath, retryCount>>
  BY <1>1 DEF StartJob, StartCycle, StartProcess, StartRetry, StartQueue, StartDelete
<1>2. ASSUME NEW t \in Threads, ProcessStep(t)
      PROVE  UNCHANGED <<status, filePath, retryCount>> \/ WritesStatus(t)
  BY <1>2 DEF ProcessStep, Process, WritesStatus, SelectPending, DownloadSucceeds,
              DownloadFails, Stat, Processed
<1>3. ASSUME NEW t \in Threads, Retain(t)
      PROVE  UNCHANGED <<status, filePath, retryCount>> \/ WritesStatus(t)
  BY <1>3 DEF Retain, WritesStatus, ReadDefaultRetention, SelectExcess, NextExcess,
              RetentionApplied, Unlink
<1>4. ASSUME NEW t \in Threads, Work(t)
      PROVE  UNCHANGED <<status, filePath, retryCount>> \/ WritesStatus(t)
  BY <1>2, <1>3, <1>4 DEF Work, Requeue, EndJob, SelectStaleFailures, WritesStatus
<1>5. CASE Fault
  BY <1>5 DEF Fault, JobFault, Crash, MkdirFails, UnlinkFails
<1>6. CASE UpdateChannelRetention \/ SetDefaultRetention \/ UNCHANGED vars
  BY <1>6 DEF UpdateChannelRetention, SetDefaultRetention, vars, baseVars
<1>7. ASSUME NEW v \in Videos, Age(v)
      PROVE  UNCHANGED <<status, filePath, retryCount>>
  BY <1>7 DEF Age
<1> QED
  BY <1>1, <1>4, <1>5, <1>6, <1>7 DEF Next, Step

-----------------------------------------------------------------------------
(* The table knows the file of every episode.                              *)

LEMMA RowPathNext == TypeInv /\ RowPathSound /\ [Next]_vars => RowPathSound'
<1> SUFFICES ASSUME TypeInv, RowPathSound, [Next]_vars PROVE RowPathSound'
  OBVIOUS
<1> USE DEF TypeInv, TypeOK, RowPathSound, SetStatus
<1>1. CASE UNCHANGED <<status, filePath, retryCount>>
  BY <1>1
<1>2. ASSUME NEW t \in Threads, WritesStatus(t)
      PROVE  RowPathSound'
  <2>1. CASE RetryVideo(t)
    BY <2>1 DEF RetryVideo
  <2>2. CASE RequeueStaleFailures(t)
    BY <2>2 DEF RequeueStaleFailures
  <2>3. CASE MarkDownloading(t)
    BY <2>3 DEF MarkDownloading
  <2>4. CASE RecordFailure(t)
    BY <2>4 DEF RecordFailure
  <2>5. CASE RecordDone(t)
    BY <2>5 DEF RecordDone
  <2>6. CASE Tombstone(t)
    BY <2>6 DEF Tombstone
  <2> QED
    BY <1>2, <2>1, <2>2, <2>3, <2>4, <2>5, <2>6 DEF WritesStatus
<1>3. ASSUME NEW vs \in SUBSET Videos, Discover(vs)
      PROVE  RowPathSound'
  BY <1>3, DiscoverAssumption DEF Discover, InTable
<1> QED
  BY <1>1, <1>2, <1>3, TableSteps

(* Whatever runs at the same time, and whatever fails: a row in the feed   *)
(* has a file_path, and a row that was never downloaded, or was deleted,   *)
(* has none.                                                               *)
THEOREM RowPathCorrect == Spec => []RowPathSound
<1>1. Init => RowPathSound
  BY DEF Init, EmptyTable, RowPathSound
<1> QED
  BY <1>1, InitType, NextType, RowPathNext, PTL DEF Spec

-----------------------------------------------------------------------------
(* Without faults no row is left 'downloading' behind.                     *)

\* A thread other than the row's owner may do what it likes to the files, as
\* long as it becomes the owner of what it removes.
LEMMA OwnedByOther ==
  ASSUME TypeInv, DownloadingIsOwned, NEW t \in Threads,
         UNCHANGED status,
         \A u \in Threads \ {t} : pc'[u] = pc[u] /\ current'[u] = current[u],
         \A v \in Videos : WillSettle(t, v) => WillSettle(t, v)',
         \A v \in media \ media' : WillSettle(t, v)'
  PROVE  DownloadingIsOwned'
<1> SUFFICES ASSUME NEW v \in Videos, status[v] = "downloading"
             PROVE  \E u \in Threads : WillSettle(u, v)'
  BY DEF DownloadingIsOwned
<1>1. PICK u \in Threads : WillSettle(u, v)
  BY DEF DownloadingIsOwned
<1>2. CASE u = t
  BY <1>1, <1>2
<1>3. CASE u # t /\ v \in media \ media'
  BY <1>3
<1>4. CASE u # t /\ ~(v \in media \ media')
  BY <1>1, <1>4 DEF WillSettle
<1> QED
  BY <1>2, <1>3, <1>4

\* A thread that writes the status of row v alone, and had no other in hand.
LEMMA OwnedAfterWrite ==
  ASSUME TypeInv, DownloadingIsOwned, NEW t \in Threads, NEW v, NEW s,
         SetStatus(v, s), UNCHANGED media,
         \A u \in Threads \ {t} : pc'[u] = pc[u] /\ current'[u] = current[u],
         \A w \in Videos : WillSettle(t, w) => w = v,
         s = "downloading" => WillSettle(t, v)'
  PROVE  DownloadingIsOwned'
<1> SUFFICES ASSUME NEW w \in Videos, status'[w] = "downloading"
             PROVE  \E u \in Threads : WillSettle(u, w)'
  BY DEF DownloadingIsOwned
<1>1. CASE w = v
  BY <1>1 DEF SetStatus, TypeInv, TypeOK
<1>2. CASE w # v
  <2>1. PICK u \in Threads : WillSettle(u, w)
    BY <1>2 DEF DownloadingIsOwned, SetStatus, TypeInv, TypeOK
  <2>2. u # t
    BY <1>2, <2>1
  <2> QED
    BY <2>1, <2>2 DEF WillSettle
<1> QED
  BY <1>1, <1>2

LEMMA OwnedStart ==
  ASSUME TypeInv, DownloadingIsOwned, NEW t \in Threads, StartJob(t)
  PROVE  DownloadingIsOwned'
<1>1. /\ UNCHANGED <<status, media>>
      /\ pc[t] = "idle"
      /\ \A u \in Threads \ {t} : pc'[u] = pc[u] /\ current'[u] = current[u]
  BY DEF StartJob, StartCycle, StartProcess, StartRetry, StartQueue, StartDelete, Start, Goto,
         TypeInv, TypeOK
<1> QED
  BY <1>1, OwnedByOther DEF WillSettle

LEMMA OwnedWrite ==
  ASSUME TypeInv, DownloadingIsOwned, NEW t \in Threads, WritesStatus(t)
  PROVE  DownloadingIsOwned'
<1> USE DEF Goto, Release, NextRow, WillSettle
<1>1. CASE RetryVideo(t)
  <2>1. \A u \in Threads \ {t} : pc'[u] = pc[u] /\ current'[u] = current[u]
    BY <1>1 DEF RetryVideo, TypeInv, TypeOK
  <2> QED
    BY <1>1, <2>1, OwnedAfterWrite DEF RetryVideo
<1>2. CASE RequeueStaleFailures(t)
  <2> SUFFICES ASSUME NEW v \in Videos, status'[v] = "downloading"
               PROVE  \E u \in Threads : WillSettle(u, v)'
    BY DEF DownloadingIsOwned
  <2>1. PICK u \in Threads : WillSettle(u, v)
    BY <1>2 DEF RequeueStaleFailures, DownloadingIsOwned
  <2> QED
    BY <1>2, <2>1 DEF RequeueStaleFailures, TypeInv, TypeOK
<1>3. CASE MarkDownloading(t)
  <2>1. PICK v \in rows[t] : NextRow(t, v) /\ SetStatus(v, "downloading")
    BY <1>3 DEF MarkDownloading
  <2>2. \A u \in Threads \ {t} : pc'[u] = pc[u] /\ current'[u] = current[u]
    BY <1>3, <2>1 DEF MarkDownloading, TypeInv, TypeOK
  <2>3. WillSettle(t, v)'
    BY <1>3, <2>1 DEF MarkDownloading, TypeInv, TypeOK
  <2>4. pc[t] = "row" /\ UNCHANGED media
    BY <1>3 DEF MarkDownloading
  <2> QED
    BY <2>1, <2>2, <2>3, <2>4, OwnedAfterWrite
<1>4. CASE RecordFailure(t)
  <2>1. \A u \in Threads \ {t} : pc'[u] = pc[u] /\ current'[u] = current[u]
    BY <1>4 DEF RecordFailure, TypeInv, TypeOK
  <2> QED
    BY <1>4, <2>1, OwnedAfterWrite DEF RecordFailure
<1>5. CASE RecordDone(t)
  <2>1. \A u \in Threads \ {t} : pc'[u] = pc[u] /\ current'[u] = current[u]
    BY <1>5 DEF RecordDone, TypeInv, TypeOK
  <2> QED
    BY <1>5, <2>1, OwnedAfterWrite DEF RecordDone
<1>6. CASE Tombstone(t)
  <2>1. \A u \in Threads \ {t} : pc'[u] = pc[u] /\ current'[u] = current[u]
    BY <1>6 DEF Tombstone, TypeInv, TypeOK
  <2> QED
    BY <1>6, <2>1, OwnedAfterWrite DEF Tombstone
<1> QED
  BY <1>1, <1>2, <1>3, <1>4, <1>5, <1>6 DEF WritesStatus

LEMMA OwnedWork ==
  ASSUME TypeInv, DownloadingIsOwned, NEW t \in Threads, Work(t)
  PROVE  DownloadingIsOwned'
<1> USE DEF Goto, Fetch, WillSettle
<1>1. CASE WritesStatus(t)
  BY <1>1, OwnedWrite
<1>2. CASE ProcessStep(t) /\ ~WritesStatus(t)
  <2>1. \A u \in Threads \ {t} : pc'[u] = pc[u] /\ current'[u] = current[u]
    BY <1>2 DEF ProcessStep, Process, WritesStatus, SelectPending, DownloadSucceeds,
                DownloadFails, Stat, Processed, TypeInv, TypeOK
  <2>2. UNCHANGED status /\ media \subseteq media'
    BY <1>2 DEF ProcessStep, Process, WritesStatus, SelectPending, DownloadSucceeds,
                DownloadFails, Stat, Processed
  <2>3. \A v \in Videos : WillSettle(t, v) => WillSettle(t, v)'
    BY <1>2 DEF ProcessStep, Process, WritesStatus, SelectPending, DownloadSucceeds,
                DownloadFails, Stat, Processed, TypeInv, TypeOK
  <2> QED
    BY <2>1, <2>2, <2>3, OwnedByOther
<1>3. CASE Retain(t) /\ ~WritesStatus(t)
  <2>1. \A u \in Threads \ {t} : pc'[u] = pc[u] /\ current'[u] = current[u]
    BY <1>3 DEF Retain, WritesStatus, ReadDefaultRetention, SelectExcess, NextExcess, NextRow,
                RetentionApplied, Unlink, TypeInv, TypeOK
  <2>2. UNCHANGED status
    BY <1>3 DEF Retain, WritesStatus, ReadDefaultRetention, SelectExcess, NextExcess,
                RetentionApplied, Unlink
  <2>3. \A v \in Videos : ~WillSettle(t, v)
    BY <1>3 DEF Retain, WritesStatus, ReadDefaultRetention, SelectExcess, NextExcess,
                RetentionApplied, Unlink
  <2>4. \A v \in media \ media' : WillSettle(t, v)'
    BY <1>3 DEF Retain, WritesStatus, ReadDefaultRetention, SelectExcess, NextExcess,
                RetentionApplied, Unlink, TypeInv, TypeOK
  <2> QED
    BY <2>1, <2>2, <2>3, <2>4, OwnedByOther
<1>4. CASE SelectStaleFailures(t)
  <2>1. \A u \in Threads \ {t} : pc'[u] = pc[u] /\ current'[u] = current[u]
    BY <1>4 DEF SelectStaleFailures, TypeInv, TypeOK
  <2> QED
    BY <1>4, <2>1, OwnedByOther DEF SelectStaleFailures
<1>5. CASE EndJob(t)
  <2>1. \A u \in Threads \ {t} : pc'[u] = pc[u] /\ current'[u] = current[u]
    BY <1>5 DEF EndJob, ResetThreads
  <2>2. \A v \in Videos : ~WillSettle(t, v)
    BY <1>5 DEF EndJob, JobOver
  <2> QED
    BY <1>5, <2>1, <2>2, OwnedByOther DEF EndJob
<1> QED
  BY <1>1, <1>2, <1>3, <1>4, <1>5 DEF Work, Requeue, WritesStatus

LEMMA OwnedNext ==
  ASSUME Faults \subseteq {"unlink"}, TypeInv, DownloadingIsOwned, [Next]_vars
  PROVE  DownloadingIsOwned'
<1>1. ASSUME (\E vs \in SUBSET Videos : Discover(vs)) \/ (\E v \in Videos : Age(v))
      PROVE  DownloadingIsOwned'
  BY <1>1, DiscoverAssumption
  DEF Discover, Age, DownloadingIsOwned, WillSettle, TypeInv, TypeOK
<1>2. CASE UpdateChannelRetention \/ SetDefaultRetention \/ UNCHANGED vars
  BY <1>2 DEF UpdateChannelRetention, SetDefaultRetention, vars, baseVars,
              DownloadingIsOwned, WillSettle
<1>3. ASSUME NEW t \in Threads, UnlinkFails(t)
      PROVE  DownloadingIsOwned'
  <2>1. UNCHANGED <<status, media>>
    BY <1>3 DEF UnlinkFails, table
  <2>2. \A u \in Threads, v \in Videos : WillSettle(u, v) => WillSettle(u, v)'
    BY <1>3 DEF UnlinkFails, Goto, WillSettle, locals, TypeInv, TypeOK
  <2> QED
    BY <2>1, <2>2 DEF DownloadingIsOwned
<1>4. CASE Fault
  BY <1>3, <1>4 DEF Fault, JobFault
<1> QED
  BY <1>1, <1>2, <1>4, OwnedStart, OwnedWork DEF Next, Step

(* As long as nothing crashes and media_dir can be written: whatever is    *)
(* deleted, retried or processed twice at the same time, files that cannot *)
(* be removed included, a row is 'downloading' only while some thread is   *)
(* about to write its status again.                                        *)
THEOREM DownloadsAreOwned ==
  ASSUME Faults \subseteq {"unlink"}
  PROVE  Spec => []DownloadingIsOwned
<1>1. Init => DownloadingIsOwned
  BY DEF Init, EmptyTable, DownloadingIsOwned
<1>2. TypeInv /\ DownloadingIsOwned /\ [Next]_vars => DownloadingIsOwned'
  BY OwnedNext
<1> QED
  BY <1>1, <1>2, InitType, NextType, PTL DEF Spec

-----------------------------------------------------------------------------
(* The cap on the long-range retries.                                      *)

\* Only threads that may run cycles requeue.
RequeueByCycles ==
    \A t \in Threads : pc[t] \in {"requeue", "requeue_write"} => t \in CycleThreads

RetryInv == TypeInv /\ RequeueByCycles /\ RetryOvershootBounded

LEMMA CycleThreadsFinite == IsFiniteSet(CycleThreads) /\ Cardinality(CycleThreads) \in Nat
  BY ThreadsAssumption, FS_Subset, FS_CardinalityType DEF CycleThreads

LEMMA RequeuingFinite ==
  ASSUME NEW v PROVE IsFiniteSet(Requeuing(v)) /\ Cardinality(Requeuing(v)) \in Nat
  BY ThreadsAssumption, FS_Subset, FS_CardinalityType DEF Requeuing

\* Every step but the two of requeue.py leaves the counts alone and has no
\* more cycles about to requeue a row than there were.
LEMMA RetryQuiet ==
  ASSUME RetryInv, UNCHANGED retryCount,
         \A t \in Threads :
            /\ pc'[t] = "requeue" => pc[t] = "requeue" \/ "cycle" \in JobsOf[t]
            /\ pc'[t] = "requeue_write" =>
                  pc[t] = "requeue_write" /\ rows'[t] \subseteq rows[t]
  PROVE  RequeueByCycles' /\ RetryOvershootBounded'
<1>1. RequeueByCycles'
  BY DEF RetryInv, RequeueByCycles, CycleThreads
<1>2. ASSUME NEW v \in Videos
      PROVE  (retryCount[v] + Cardinality(Requeuing(v))
                 < MAX_LONG_RANGE_RETRIES + Cardinality(CycleThreads))'
  <2>1. Requeuing(v)' \subseteq Requeuing(v)
    BY DEF Requeuing
  <2>2. Cardinality(Requeuing(v)') <= Cardinality(Requeuing(v))
    BY <2>1, RequeuingFinite, FS_Subset
  <2>3. Cardinality(Requeuing(v)') \in Nat /\ Cardinality(Requeuing(v)) \in Nat
    BY <2>1, RequeuingFinite, FS_Subset, FS_CardinalityType
  <2>4. retryCount[v] + Cardinality(Requeuing(v))
           < MAX_LONG_RANGE_RETRIES + Cardinality(CycleThreads)
    BY DEF RetryInv, RetryOvershootBounded
  <2>5. Cardinality(Requeuing(v))' = Cardinality(Requeuing(v)')
    OBVIOUS
  <2>6. retryCount[v] \in Nat
    BY DEF RetryInv, TypeInv, TypeOK
  <2>7. CycleThreads' = CycleThreads
    BY DEF CycleThreads
  <2> QED
    BY <2>2, <2>3, <2>4, <2>5, <2>6, <2>7, RetriesAssumption, CycleThreadsFinite
<1> QED
  BY <1>1, <1>2 DEF RetryOvershootBounded

LEMMA RetrySelect ==
  ASSUME RetryInv, NEW t \in Threads, SelectStaleFailures(t)
  PROVE  RequeueByCycles' /\ RetryOvershootBounded'
<1> USE DEF Goto, Fetch, TypeInv, TypeOK
<1>1. RequeueByCycles'
  BY DEF RetryInv, RequeueByCycles, SelectStaleFailures
<1>2. ASSUME NEW v \in Videos
      PROVE  (retryCount[v] + Cardinality(Requeuing(v))
                 < MAX_LONG_RANGE_RETRIES + Cardinality(CycleThreads))'
  <2>0. /\ retryCount[v] \in Nat
        /\ retryCount' = retryCount
        /\ retryCount[v] + Cardinality(Requeuing(v))
               < MAX_LONG_RANGE_RETRIES + Cardinality(CycleThreads)
    BY DEF RetryInv, RetryOvershootBounded, SelectStaleFailures
  <2>1. CASE Stale(v)
    <3>1. Requeuing(v)' \subseteq CycleThreads
      BY <1>1 DEF Requeuing, RequeueByCycles
    <3>2. Cardinality(Requeuing(v)') <= Cardinality(CycleThreads)
      BY <3>1, CycleThreadsFinite, FS_Subset
    <3>3. Cardinality(Requeuing(v)') \in Nat
      BY <3>1, CycleThreadsFinite, FS_Subset, FS_CardinalityType
    <3> QED
      BY <2>0, <2>1, <3>2, <3>3, RetriesAssumption, CycleThreadsFinite DEF Stale, CycleThreads
  <2>2. CASE ~Stale(v)
    <3>1. Requeuing(v)' = Requeuing(v)
      BY <2>2 DEF RetryInv, Requeuing, SelectStaleFailures
    <3> QED
      BY <2>0, <3>1 DEF CycleThreads
  <2> QED
    BY <2>1, <2>2
<1> QED
  BY <1>1, <1>2 DEF RetryOvershootBounded

LEMMA RetryWrite ==
  ASSUME RetryInv, NEW t \in Threads, RequeueStaleFailures(t)
  PROVE  RequeueByCycles' /\ RetryOvershootBounded'
<1> USE DEF Goto, Fetch, TypeInv, TypeOK
<1>1. RequeueByCycles'
  BY DEF RetryInv, RequeueByCycles, RequeueStaleFailures
<1>2. ASSUME NEW v \in Videos
      PROVE  (retryCount[v] + Cardinality(Requeuing(v))
                 < MAX_LONG_RANGE_RETRIES + Cardinality(CycleThreads))'
  <2>0. /\ retryCount[v] \in Nat
        /\ retryCount[v] + Cardinality(Requeuing(v))
               < MAX_LONG_RANGE_RETRIES + Cardinality(CycleThreads)
    BY DEF RetryInv, RetryOvershootBounded
  <2>1. CASE v \in rows[t]
    <3>1. t \in Requeuing(v) /\ Requeuing(v)' = Requeuing(v) \ {t}
      BY <2>1 DEF RetryInv, Requeuing, RequeueStaleFailures
    <3>2. Cardinality(Requeuing(v)') = Cardinality(Requeuing(v)) - 1
      BY <3>1, RequeuingFinite, FS_RemoveElement
    <3>3. retryCount'[v] = retryCount[v] + 1
      BY <2>1 DEF RequeueStaleFailures
    <3> QED
      BY <2>0, <3>2, <3>3, RequeuingFinite DEF CycleThreads
  <2>2. CASE v \notin rows[t]
    <3>1. Requeuing(v)' = Requeuing(v) /\ retryCount'[v] = retryCount[v]
      BY <2>2 DEF RetryInv, Requeuing, RequeueStaleFailures
    <3> QED
      BY <2>0, <3>1 DEF CycleThreads
  <2> QED
    BY <2>1, <2>2
<1> QED
  BY <1>1, <1>2 DEF RetryOvershootBounded

LEMMA RetryThread ==
  ASSUME RetryInv, NEW t \in Threads, StartJob(t) \/ Work(t)
  PROVE  RequeueByCycles' /\ RetryOvershootBounded'
<1> USE DEF Goto, Fetch, NextRow, RetryInv, TypeInv, TypeOK
<1>1. CASE StartCycle(t)
  <2>1. /\ UNCHANGED <<retryCount, rows>>
        /\ "cycle" \in JobsOf[t]
        /\ \A u \in Threads : pc'[u] = IF u = t THEN "requeue" ELSE pc[u]
    BY <1>1 DEF StartCycle, Start
  <2> QED
    BY <2>1, RetryQuiet
<1>2. CASE StartProcess(t) \/ StartRetry(t) \/ StartQueue(t) \/ StartDelete(t)
  <2>1. /\ UNCHANGED <<retryCount, rows>>
        /\ \A u \in Threads : pc'[u] = pc[u] \/ pc'[u] \in {"select", "retry_write", "delete"}
    BY <1>2 DEF StartProcess, StartRetry, StartQueue, StartDelete, Start
  <2> QED
    BY <2>1, RetryQuiet
<1>3. CASE SelectStaleFailures(t)
  BY <1>3, RetrySelect
<1>4. CASE RequeueStaleFailures(t)
  BY <1>4, RetryWrite
<1>5. CASE RetryVideo(t)
  <2>1. /\ UNCHANGED <<retryCount, rows>>
        /\ \A u \in Threads : pc'[u] = pc[u] \/ pc'[u] = "select"
    BY <1>5 DEF RetryVideo
  <2> QED
    BY <2>1, RetryQuiet
<1>6. CASE ProcessStep(t) \/ Retain(t)
  <2>1. /\ UNCHANGED retryCount
        /\ pc'[t] \notin {"requeue", "requeue_write"}
        /\ \A u \in Threads \ {t} : pc'[u] = pc[u] /\ rows'[u] = rows[u]
    <3>1. CASE ProcessStep(t)
      BY <3>1 DEF ProcessStep, Process, SelectPending, MarkDownloading, DownloadSucceeds,
                  DownloadFails, RecordFailure, Stat, RecordDone, Processed
    <3>2. CASE Retain(t)
      BY <3>2 DEF Retain, ReadDefaultRetention, SelectExcess, NextExcess, RetentionApplied,
                  Unlink, Tombstone
    <3> QED
      BY <1>6, <3>1, <3>2
  <2> QED
    BY <2>1, RetryQuiet
<1>7. CASE EndJob(t)
  <2>1. /\ UNCHANGED retryCount
        /\ \A u \in Threads : pc'[u] = "idle" \/ (pc'[u] = pc[u] /\ rows'[u] = rows[u])
    BY <1>7 DEF EndJob, ResetThreads
  <2> QED
    BY <2>1, RetryQuiet
<1> QED
  BY <1>1, <1>2, <1>3, <1>4, <1>5, <1>6, <1>7 DEF StartJob, Work, Requeue

LEMMA RetryNext == RetryInv /\ [Next]_vars => RetryInv'
<1> SUFFICES ASSUME RetryInv, [Next]_vars PROVE RequeueByCycles' /\ RetryOvershootBounded'
  BY NextType DEF RetryInv
<1>1. ASSUME UNCHANGED <<retryCount, pc, rows>>
      PROVE  RequeueByCycles' /\ RetryOvershootBounded'
  BY <1>1, RetryQuiet
<1>2. CASE Fault
  <2>1. /\ UNCHANGED retryCount
        /\ \A u \in Threads :
              \/ pc'[u] \in {"idle", "raised", "tombstone"}
              \/ pc'[u] = pc[u] /\ rows'[u] = rows[u]
    BY <1>2 DEF Fault, JobFault, Crash, ResetThreads, MkdirFails, UnlinkFails, Goto,
                RetryInv, TypeInv, TypeOK
  <2> QED
    BY <2>1, RetryQuiet
<1>3. ASSUME (\E vs \in SUBSET Videos : Discover(vs)) \/ (\E v \in Videos : Age(v))
      PROVE  RequeueByCycles' /\ RetryOvershootBounded'
  BY <1>1, <1>3 DEF Discover, Age
<1>4. CASE UpdateChannelRetention \/ SetDefaultRetention \/ UNCHANGED vars
  BY <1>1, <1>4 DEF UpdateChannelRetention, SetDefaultRetention, vars, baseVars
<1> QED
  BY <1>2, <1>3, <1>4, RetryThread DEF Next, Step

LEMMA RetryInit == Init => RetryInv
<1> SUFFICES ASSUME Init PROVE RequeueByCycles /\ RetryOvershootBounded
  BY InitType DEF RetryInv
<1>1. RequeueByCycles
  BY DEF Init, IdleThreads, RequeueByCycles
<1>2. \A v \in Videos : Requeuing(v) = {} /\ retryCount[v] = 0
  BY DEF Init, IdleThreads, EmptyTable, Requeuing
<1> QED
  BY <1>1, <1>2, FS_EmptySet, RetriesAssumption, CycleThreadsFinite DEF RetryOvershootBounded

(* Two cycles that overlap can both count the same failure, but the count  *)
(* passes the cap at most once for every cycle beyond the first, crashes   *)
(* and manual retries included.                                            *)
THEOREM RetryOvershoot == Spec => []RetryOvershootBounded
<1>1. RetryInv => RetryOvershootBounded
  BY DEF RetryInv
<1> QED
  BY RetryInit, RetryNext, <1>1, PTL DEF Spec

(* README.md's "capped at 5 attempts" holds as long as only one thread     *)
(* runs cycles: POST /run is what breaks it.                               *)
THEOREM RetriesCappedWithOneCycle ==
  ASSUME Cardinality(CycleThreads) <= 1
  PROVE  Spec => []RetriesCapped
<1>1. RetryInv => RetriesCapped
  <2> SUFFICES ASSUME RetryInv, NEW v \in Videos PROVE retryCount[v] <= MAX_LONG_RANGE_RETRIES
    BY DEF RetriesCapped
  <2> QED
    BY RequeuingFinite, CycleThreadsFinite, RetriesAssumption
    DEF RetryInv, RetryOvershootBounded, TypeInv, TypeOK
<1> QED
  BY RetryInit, RetryNext, <1>1, PTL DEF Spec

-----------------------------------------------------------------------------
(* A job ends: the part of it that needs no fairness.                      *)

\* The tables hold finitely many videos and channels.
FiniteTable == IsFiniteSet(Videos) /\ IsFiniteSet(Channels)

\* Retention of one channel: its SELECT, and three steps for each row.
PerChannel == 3 * Cardinality(Videos) + 1

\* A row of process_pending_videos: its attempts and three steps more.
PerRow == MAX_DOWNLOAD_ATTEMPTS + 3

\* From the end of process_pending_videos on.
AfterProcessing == 3 + 3 * Cardinality(Videos) + Cardinality(Channels) * PerChannel

\* The most steps a job at `label` can still take, with n rows in its list, k
\* channels left for retention and a attempts made at the row in hand.
Ahead(label, n, k, a) ==
    IF label = "idle" THEN 0
    ELSE IF label \in {"returned", "raised"} THEN 1
    ELSE IF label = "retain" THEN 2 + 3 * n + k * PerChannel
    ELSE IF label = "tombstone" THEN 3 + 3 * n + k * PerChannel
    ELSE IF label = "delete" THEN 4 + 3 * n + k * PerChannel
    ELSE IF label = "processed" THEN AfterProcessing
    ELSE IF label = "row" THEN AfterProcessing + 1 + n * PerRow
    ELSE IF label \in {"failed", "finish"} THEN AfterProcessing + 2 + n * PerRow
    ELSE IF label = "stat" THEN AfterProcessing + 3 + n * PerRow
    ELSE IF label = "download"
         THEN AfterProcessing + 3 + n * PerRow + (MAX_DOWNLOAD_ATTEMPTS - a)
    ELSE IF label = "select" THEN AfterProcessing + 2 + Cardinality(Videos) * PerRow
    ELSE IF label \in {"requeue_write", "retry_write"}
         THEN AfterProcessing + 3 + Cardinality(Videos) * PerRow
    ELSE AfterProcessing + 4 + Cardinality(Videos) * PerRow

StepsLeft(t) == Ahead(pc[t], Cardinality(rows[t]), Cardinality(todo[t]), attempt[t])

JobLength == AfterProcessing + 3 + Cardinality(Videos) * PerRow + MAX_DOWNLOAD_ATTEMPTS

\* Every step of a job, a fault that hits it included, leaves it fewer to take,
\* and nothing but the start of a job gives a thread more.
JobsRunOut ==
    [][\A t \in Threads :
          /\ StepsLeft(t) \in 0 .. JobLength
          /\ Work(t) \/ JobFault(t) => StepsLeft(t)' < StepsLeft(t)
          /\ StartJob(t) \/ StepsLeft(t)' <= StepsLeft(t)]_vars

LEMMA ProductMonotone ==
  ASSUME NEW a \in Nat, NEW b \in Nat, NEW d \in Nat, a <= b
  PROVE  a * d \in Nat /\ b * d \in Nat /\ a * d <= b * d
  OBVIOUS

LEMMA ProductOneLess ==
  ASSUME NEW a \in Nat \ {0}, NEW d \in Nat
  PROVE  (a - 1) * d = a * d - d
  OBVIOUS

\* A SELECT's list after its next row is taken off it.
LEMMA OneFewer ==
  ASSUME NEW S, IsFiniteSet(S), NEW x \in S
  PROVE  /\ Cardinality(S) \in Nat \ {0} /\ Cardinality(S \ {x}) \in Nat
         /\ Cardinality(S \ {x}) = Cardinality(S) - 1
<1>1. Cardinality(S) \in Nat /\ Cardinality(S \ {x}) = Cardinality(S) - 1 /\ IsFiniteSet(S \ {x})
  BY FS_RemoveElement, FS_CardinalityType
<1>2. Cardinality(S \ {x}) \in Nat
  BY <1>1, FS_CardinalityType
<1> QED
  BY <1>1, <1>2

LEMMA SizesFinite ==
  ASSUME FiniteTable
  PROVE  /\ Cardinality(Videos) \in Nat /\ Cardinality(Channels) \in Nat
         /\ \A s \in SUBSET Videos :
               IsFiniteSet(s) /\ Cardinality(s) \in Nat /\ Cardinality(s) <= Cardinality(Videos)
         /\ \A s \in SUBSET Channels :
               IsFiniteSet(s) /\ Cardinality(s) \in Nat /\ Cardinality(s) <= Cardinality(Channels)
         /\ PerChannel \in Nat /\ PerRow \in Nat /\ AfterProcessing \in Nat
         /\ AfterProcessing =
               3 + 3 * Cardinality(Videos) + Cardinality(Channels) * PerChannel
<1>1. Cardinality(Videos) \in Nat /\ Cardinality(Channels) \in Nat
  BY FS_CardinalityType DEF FiniteTable
<1>2. PerChannel \in Nat /\ PerRow \in Nat
  BY <1>1, AttemptsAssumption DEF PerChannel, PerRow
<1>3. Cardinality(Channels) * PerChannel \in Nat
  BY <1>1, <1>2, ProductMonotone
<1> QED
  BY <1>1, <1>2, <1>3, FS_Subset, FS_CardinalityType DEF FiniteTable, AfterProcessing

LEMMA AfterProcessingType ==
  ASSUME FiniteTable
  PROVE  AfterProcessing \in Nat \ {0, 1}
<1> DEFINE w == Cardinality(Channels) * PerChannel
<1>1. /\ w \in Nat /\ Cardinality(Videos) \in Nat
      /\ AfterProcessing = 3 + 3 * Cardinality(Videos) + w
  BY SizesFinite, ProductMonotone
<1> HIDE DEF w
<1> QED
  BY <1>1

\* Counts no larger than the sets they are counts of.
LEMMA AheadBounded ==
  ASSUME FiniteTable, NEW label \in Labels, NEW n \in 0 .. Cardinality(Videos),
         NEW k \in 0 .. Cardinality(Channels), NEW a \in 0 .. MAX_DOWNLOAD_ATTEMPTS
  PROVE  Ahead(label, n, k, a) \in 0 .. JobLength
<1>1. /\ n \in Nat /\ k \in Nat /\ Cardinality(Videos) \in Nat /\ Cardinality(Channels) \in Nat
      /\ PerChannel \in Nat /\ PerRow \in Nat
  BY SizesFinite
<1>2. /\ n * PerRow \in Nat /\ Cardinality(Videos) * PerRow \in Nat
      /\ n * PerRow <= Cardinality(Videos) * PerRow
  BY <1>1, ProductMonotone
<1>3. /\ k * PerChannel \in Nat /\ Cardinality(Channels) * PerChannel \in Nat
      /\ k * PerChannel <= Cardinality(Channels) * PerChannel
  BY <1>1, ProductMonotone
<1> DEFINE x == n * PerRow
           y == Cardinality(Videos) * PerRow
           u == k * PerChannel
           w == Cardinality(Channels) * PerChannel
           V == Cardinality(Videos)
<1>4. /\ x \in Nat /\ y \in Nat /\ x <= y /\ u \in Nat /\ w \in Nat /\ u <= w
      /\ V \in Nat /\ n <= V /\ AfterProcessing = 3 + 3 * V + w
      /\ JobLength = AfterProcessing + 3 + y + MAX_DOWNLOAD_ATTEMPTS
      /\ MAX_DOWNLOAD_ATTEMPTS \in Nat \ {0}
  BY <1>1, <1>2, <1>3, SizesFinite, AttemptsAssumption DEF JobLength
<1>5. \/ Ahead(label, n, k, a) \in {0, 1, AfterProcessing}
      \/ \E i \in 2 .. 4 : Ahead(label, n, k, a) = i + 3 * n + u
      \/ \E i \in 1 .. 3 : Ahead(label, n, k, a) = AfterProcessing + i + x
      \/ Ahead(label, n, k, a) = AfterProcessing + 3 + x + (MAX_DOWNLOAD_ATTEMPTS - a)
      \/ \E i \in 2 .. 4 : Ahead(label, n, k, a) = AfterProcessing + i + y
  BY DEF Ahead
<1> HIDE DEF x, y, u, w, V
<1> QED
  BY <1>1, <1>4, <1>5

LEMMA StepsLeftType ==
  ASSUME FiniteTable, TypeInv, NEW t \in Threads
  PROVE  StepsLeft(t) \in 0 .. JobLength
<1>1. /\ pc[t] \in Labels /\ rows[t] \in SUBSET Videos /\ todo[t] \in SUBSET Channels
      /\ attempt[t] \in 0 .. MAX_DOWNLOAD_ATTEMPTS
  BY DEF TypeInv, TypeOK
<1>2. Cardinality(rows[t]) \in 0 .. Cardinality(Videos)
  BY <1>1, SizesFinite
<1>3. Cardinality(todo[t]) \in 0 .. Cardinality(Channels)
  BY <1>1, SizesFinite
<1> QED
  BY <1>1, <1>2, <1>3, AheadBounded DEF StepsLeft

\* What a step of process_pending_videos does to the lengths of its lists.
LEMMA ProcessTakesOne ==
  ASSUME FiniteTable, TypeInv, NEW t \in Threads, ProcessStep(t), TypeInv'
  PROVE  StepsLeft(t)' < StepsLeft(t)
<1> DEFINE n == Cardinality(rows[t])
           m == Cardinality(rows'[t])
           a == attempt[t]
<1>1. /\ rows[t] \in SUBSET Videos /\ rows'[t] \in SUBSET Videos
      /\ a \in 0 .. MAX_DOWNLOAD_ATTEMPTS /\ (pc[t] = "download" => a < MAX_DOWNLOAD_ATTEMPTS)
  BY DEF TypeInv, TypeOK, DownloadSound
<1>2. n \in Nat /\ m \in Nat /\ m <= Cardinality(Videos) /\ IsFiniteSet(rows[t])
  BY <1>1, SizesFinite
<1>3. /\ StepsLeft(t) = Ahead(pc[t], n, Cardinality(todo[t]), a)
      /\ StepsLeft(t)' = Ahead(pc'[t], m, Cardinality(todo'[t]), attempt'[t])
  BY DEF StepsLeft, Ahead, PerChannel, PerRow, AfterProcessing
<1>4. /\ n * PerRow \in Nat /\ m * PerRow \in Nat /\ Cardinality(Videos) * PerRow \in Nat
      /\ m * PerRow <= Cardinality(Videos) * PerRow
  BY <1>2, SizesFinite, ProductMonotone
<1> USE DEF Goto, Fetch, NextRow, TypeInv, TypeOK
<1>5. CASE MarkDownloading(t)
  <2>1. PICK v \in rows[t] : rows'[t] = rows[t] \ {v}
    BY <1>5 DEF MarkDownloading
  <2>2. n \in Nat \ {0} /\ m = n - 1
    BY <1>2, <2>1, OneFewer
  <2>3. m * PerRow = n * PerRow - PerRow
    BY <1>2, <2>2, SizesFinite, ProductOneLess
  <2>4. pc[t] = "row" /\ pc'[t] = "download" /\ attempt'[t] = 0
    BY <1>5 DEF MarkDownloading
  <2> HIDE DEF n, m, a, TypeInv, TypeOK
  <2>5. PerRow = MAX_DOWNLOAD_ATTEMPTS + 3
    BY DEF PerRow
  <2> QED
    BY <1>3, <1>4, <2>3, <2>4, <2>5, SizesFinite, AttemptsAssumption DEF Ahead
<1>6. CASE ~MarkDownloading(t)
  <2>1. \/ pc[t] = "select" /\ pc'[t] = "row"
        \/ pc[t] = "download" /\ pc'[t] \in {"stat", "failed"} /\ rows'[t] = rows[t]
        \/ /\ pc[t] = "download" /\ pc'[t] = "download" /\ rows'[t] = rows[t]
           /\ attempt'[t] = a + 1
        \/ pc[t] = "stat" /\ pc'[t] = "finish" /\ rows'[t] = rows[t]
        \/ pc[t] = "stat" /\ pc'[t] = "raised"
        \/ pc[t] \in {"failed", "finish"} /\ pc'[t] = "row" /\ rows'[t] = rows[t]
        \/ pc[t] = "row" /\ pc'[t] = "processed"
    BY <1>6
    DEF ProcessStep, Process, SelectPending, DownloadSucceeds, DownloadFails, RecordFailure, Stat,
        RecordDone, Processed
  <2> HIDE DEF TypeInv, TypeOK
  <2>2. rows'[t] = rows[t] => m = n
    OBVIOUS
  <2> DEFINE x == n * PerRow
             z == m * PerRow
             y == Cardinality(Videos) * PerRow
  <2>3. /\ x \in Nat /\ y \in Nat /\ z \in Nat /\ z <= y /\ (rows'[t] = rows[t] => z = x)
        /\ AfterProcessing \in Nat \ {0, 1} /\ MAX_DOWNLOAD_ATTEMPTS \in Nat
        /\ a \in 0 .. MAX_DOWNLOAD_ATTEMPTS /\ (pc[t] = "download" => a < MAX_DOWNLOAD_ATTEMPTS)
    BY <1>1, <1>4, <2>2, AfterProcessingType, AttemptsAssumption
  <2> HIDE DEF n, m, a
  <2>4. \/ /\ StepsLeft(t) = AfterProcessing + 2 + y
           /\ StepsLeft(t)' = AfterProcessing + 1 + z
        \/ /\ pc[t] = "download" /\ z = x
           /\ StepsLeft(t) = AfterProcessing + 3 + x + (MAX_DOWNLOAD_ATTEMPTS - a)
           /\ StepsLeft(t)' \in {AfterProcessing + 3 + z, AfterProcessing + 2 + z,
                                 AfterProcessing + 3 + z + (MAX_DOWNLOAD_ATTEMPTS - (a + 1))}
        \/ z = x /\ StepsLeft(t) = AfterProcessing + 3 + x /\ StepsLeft(t)' = AfterProcessing + 2 + z
        \/ StepsLeft(t) = AfterProcessing + 3 + x /\ StepsLeft(t)' = 1
        \/ z = x /\ StepsLeft(t) = AfterProcessing + 2 + x /\ StepsLeft(t)' = AfterProcessing + 1 + z
        \/ StepsLeft(t) = AfterProcessing + 1 + x /\ StepsLeft(t)' = AfterProcessing
    BY <1>3, <2>1, <2>3 DEF Ahead
  <2> HIDE DEF x, y, z
  <2> QED
    BY <2>3, <2>4
<1> QED
  BY <1>5, <1>6

LEMMA RetainTakesOne ==
  ASSUME FiniteTable, TypeInv, NEW t \in Threads, Retain(t) \/ UnlinkFails(t), TypeInv'
  PROVE  StepsLeft(t)' < StepsLeft(t)
<1> DEFINE n == Cardinality(rows[t])
           m == Cardinality(rows'[t])
           k == Cardinality(todo[t])
           l == Cardinality(todo'[t])
<1>1. /\ rows[t] \in SUBSET Videos /\ rows'[t] \in SUBSET Videos
      /\ todo[t] \in SUBSET Channels /\ todo'[t] \in SUBSET Channels
  BY DEF TypeInv, TypeOK
<1>2. /\ n \in Nat /\ m \in Nat /\ m <= Cardinality(Videos) /\ k \in Nat /\ l \in Nat
      /\ IsFiniteSet(rows[t]) /\ IsFiniteSet(todo[t])
  BY <1>1, SizesFinite
<1>3. /\ StepsLeft(t) = Ahead(pc[t], n, k, attempt[t])
      /\ StepsLeft(t)' = Ahead(pc'[t], m, l, attempt'[t])
  BY DEF StepsLeft, Ahead, PerChannel, PerRow, AfterProcessing
<1>4. k * PerChannel \in Nat /\ l * PerChannel \in Nat
  BY <1>2, SizesFinite, ProductMonotone
<1> USE DEF Goto, Fetch, NextRow, TypeInv, TypeOK
<1>5. CASE SelectExcess(t)
  <2>1. PICK c \in todo[t] : todo'[t] = todo[t] \ {c}
    BY <1>5 DEF SelectExcess
  <2>2. k \in Nat \ {0} /\ l = k - 1
    BY <1>2, <2>1, OneFewer
  <2>3. l * PerChannel = k * PerChannel - PerChannel
    BY <1>2, <2>2, SizesFinite, ProductOneLess
  <2>4. pc[t] = "retain" /\ pc'[t] = "retain" /\ rows[t] = {}
    BY <1>5 DEF SelectExcess
  <2>5. n = 0
    BY <2>4, FS_EmptySet
  <2> HIDE DEF n, m, k, l, TypeInv, TypeOK
  <2>6. PerChannel = 3 * Cardinality(Videos) + 1
    BY DEF PerChannel
  <2> QED
    BY <1>2, <1>3, <1>4, <2>3, <2>4, <2>5, <2>6, SizesFinite DEF Ahead
<1>6. CASE NextExcess(t)
  <2>1. PICK v \in rows[t] : rows'[t] = rows[t] \ {v}
    BY <1>6 DEF NextExcess
  <2>2. n \in Nat \ {0} /\ m = n - 1
    BY <1>2, <2>1, OneFewer
  <2>3. pc[t] = "retain" /\ pc'[t] = "delete" /\ todo'[t] = todo[t]
    BY <1>6 DEF NextExcess
  <2>4. l = k
    BY <2>3
  <2> HIDE DEF n, m, k, l, TypeInv, TypeOK
  <2> QED
    BY <1>2, <1>3, <1>4, <2>2, <2>3, <2>4 DEF Ahead
<1>7. CASE ReadDefaultRetention(t)
  <2>1. pc[t] = "processed" /\ pc'[t] = "retain" /\ todo'[t] = Channels
    BY <1>7 DEF ReadDefaultRetention
  <2>2. l = Cardinality(Channels)
    BY <2>1
  <2> HIDE DEF n, m, k, l, TypeInv, TypeOK
  <2> QED
    BY <1>2, <1>3, <1>4, <2>1, <2>2, SizesFinite DEF Ahead
<1>8. CASE RetentionApplied(t) \/ Unlink(t) \/ Tombstone(t) \/ UnlinkFails(t)
  <2>1. /\ todo'[t] = todo[t] /\ rows'[t] = rows[t]
        /\ \/ pc[t] = "retain" /\ pc'[t] = "returned"
           \/ pc[t] = "delete" /\ pc'[t] = "tombstone"
           \/ pc[t] = "tombstone" /\ pc'[t] \in {"retain", "returned"}
    BY <1>8 DEF RetentionApplied, Unlink, Tombstone, UnlinkFails
  <2>2. l = k /\ m = n
    BY <2>1
  <2> HIDE DEF n, m, k, l, TypeInv, TypeOK
  <2> QED
    BY <1>2, <1>3, <1>4, <2>1, <2>2 DEF Ahead
<1> QED
  BY <1>5, <1>6, <1>7, <1>8 DEF Retain

LEMMA JobTakesOne ==
  ASSUME FiniteTable, TypeInv, NEW t \in Threads, Work(t) \/ JobFault(t), TypeInv'
  PROVE  StepsLeft(t)' < StepsLeft(t)
<1>1. CASE ProcessStep(t)
  BY <1>1, ProcessTakesOne
<1>2. CASE Retain(t) \/ UnlinkFails(t)
  BY <1>2, RetainTakesOne
<1>3. CASE RetryVideo(t) \/ Requeue(t) \/ EndJob(t) \/ MkdirFails(t)
  <2>1. \/ pc[t] \in {"retry_write", "requeue_write"} /\ pc'[t] = "select"
        \/ pc[t] = "requeue" /\ pc'[t] = "requeue_write"
        \/ pc[t] \in {"returned", "raised", "processed"} /\ pc'[t] = "idle"
        \/ pc[t] = "download" /\ pc'[t] = "raised"
    BY <1>3
    DEF RetryVideo, Requeue, SelectStaleFailures, RequeueStaleFailures, EndJob, JobOver,
        ResetThreads, MkdirFails, Goto, TypeInv, TypeOK
  <2>2. StepsLeft(t)' = Ahead(pc'[t], Cardinality(rows'[t]), Cardinality(todo'[t]), attempt'[t])
    BY DEF StepsLeft, Ahead, PerChannel, PerRow, AfterProcessing
  <2>3. /\ Cardinality(rows[t]) \in Nat /\ attempt[t] \in 0 .. MAX_DOWNLOAD_ATTEMPTS
        /\ Cardinality(Videos) * PerRow \in Nat /\ Cardinality(rows[t]) * PerRow \in Nat
    BY SizesFinite, ProductMonotone DEF TypeInv, TypeOK
  <2> QED
    BY <2>1, <2>2, <2>3, SizesFinite, AttemptsAssumption DEF StepsLeft, Ahead
<1> QED
  BY <1>1, <1>2, <1>3 DEF Work, JobFault

\* A thread's measure is its own: what others do leaves it, a crash ends it.
LEMMA OthersTakeNone ==
  ASSUME FiniteTable, TypeInv, [Next]_vars, NEW t \in Threads,
         ~StartJob(t), ~Work(t), ~JobFault(t)
  PROVE  StepsLeft(t)' <= StepsLeft(t)
<1>1. ASSUME UNCHANGED <<pc[t], rows[t], todo[t], attempt[t]>>
      PROVE  StepsLeft(t)' <= StepsLeft(t)
  <2>1. StepsLeft(t)' = StepsLeft(t)
    BY <1>1 DEF StepsLeft, Ahead, PerChannel, PerRow, AfterProcessing
  <2>2. StepsLeft(t) \in Int
    BY StepsLeftType, SizesFinite, AttemptsAssumption DEF JobLength
  <2> QED
    BY <2>1, <2>2
<1>2. CASE Crash
  <2>1. StepsLeft(t)' = 0
    BY <1>2 DEF Crash, ResetThreads, StepsLeft, Ahead
  <2> QED
    BY <2>1, StepsLeftType
<1>3. ASSUME NEW u \in Threads, u # t, StartJob(u) \/ Work(u) \/ JobFault(u)
      PROVE  UNCHANGED <<pc[t], rows[t], todo[t], attempt[t]>>
  <2> USE DEF Goto, Start, Fetch, NextRow, Release, TypeInv, TypeOK
  <2>1. CASE StartJob(u)
    BY <1>3, <2>1 DEF StartJob, StartCycle, StartProcess, StartRetry, StartQueue, StartDelete
  <2>2. CASE ProcessStep(u)
    BY <1>3, <2>2
    DEF ProcessStep, Process, SelectPending, MarkDownloading, DownloadSucceeds, DownloadFails,
        RecordFailure, Stat, RecordDone, Processed
  <2>3. CASE Retain(u)
    BY <1>3, <2>3
    DEF Retain, ReadDefaultRetention, SelectExcess, NextExcess, RetentionApplied, Unlink, Tombstone
  <2>4. CASE RetryVideo(u) \/ Requeue(u) \/ EndJob(u)
    BY <1>3, <2>4
    DEF RetryVideo, Requeue, SelectStaleFailures, RequeueStaleFailures, EndJob, ResetThreads
  <2>5. CASE JobFault(u)
    BY <1>3, <2>5 DEF JobFault, MkdirFails, UnlinkFails
  <2> QED
    BY <1>3, <2>1, <2>2, <2>3, <2>4, <2>5 DEF Work
<1>4. ASSUME \/ \E vs \in SUBSET Videos : Discover(vs)
             \/ \E v \in Videos : Age(v)
             \/ UpdateChannelRetention \/ SetDefaultRetention \/ UNCHANGED vars
      PROVE  UNCHANGED <<pc[t], rows[t], todo[t], attempt[t]>>
  BY <1>4 DEF Discover, Age, UpdateChannelRetention, SetDefaultRetention, vars, baseVars
<1> QED
  BY <1>1, <1>2, <1>3, <1>4 DEF Next, Step, Fault

(* run_cycle and every request come to an end, whatever else runs: a job   *)
(* works through lists it has read, so each of its steps, and each fault   *)
(* that hits it, leaves it fewer to take, and no other thread, no poll and *)
(* no setting gives it more.  That no job is left waiting is this and a    *)
(* scheduler that lets every thread run.                                   *)
THEOREM JobsAreFinite ==
  ASSUME FiniteTable
  PROVE  Spec => JobsRunOut
<1>1. ASSUME TypeInv, [Next]_vars, TypeInv', NEW t \in Threads
      PROVE  /\ StepsLeft(t) \in 0 .. JobLength
             /\ Work(t) \/ JobFault(t) => StepsLeft(t)' < StepsLeft(t)
             /\ StartJob(t) \/ StepsLeft(t)' <= StepsLeft(t)
  <2>1. StepsLeft(t) \in 0 .. JobLength
    BY <1>1, StepsLeftType
  <2>2. Work(t) \/ JobFault(t) => StepsLeft(t)' < StepsLeft(t)
    BY <1>1, JobTakesOne
  <2>3. StepsLeft(t)' < StepsLeft(t) => StepsLeft(t)' <= StepsLeft(t)
    <3>1. /\ pc'[t] \in Labels /\ rows'[t] \in SUBSET Videos /\ todo'[t] \in SUBSET Channels
          /\ attempt'[t] \in 0 .. MAX_DOWNLOAD_ATTEMPTS
      BY <1>1 DEF TypeInv, TypeOK
    <3>2. /\ Cardinality(rows'[t]) \in 0 .. Cardinality(Videos)
          /\ Cardinality(todo'[t]) \in 0 .. Cardinality(Channels)
      BY <3>1, SizesFinite
    <3>3. StepsLeft(t)' = Ahead(pc'[t], Cardinality(rows'[t]), Cardinality(todo'[t]), attempt'[t])
      BY DEF StepsLeft, Ahead, PerChannel, PerRow, AfterProcessing
    <3>4. StepsLeft(t)' \in 0 .. JobLength
      BY <3>1, <3>2, <3>3, AheadBounded
    <3> QED
      BY <2>1, <3>4
  <2> QED
    BY <1>1, <2>1, <2>2, <2>3, OthersTakeNone
<1>2. TypeInv /\ TypeInv' /\ [Next]_vars =>
        [\A t \in Threads :
            /\ StepsLeft(t) \in 0 .. JobLength
            /\ Work(t) \/ JobFault(t) => StepsLeft(t)' < StepsLeft(t)
            /\ StartJob(t) \/ StepsLeft(t)' <= StepsLeft(t)]_vars
  BY <1>1
<1> QED
  BY <1>2, InitType, NextType, PTL DEF Spec, JobsRunOut
=============================================================================
