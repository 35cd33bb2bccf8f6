-------------------------- MODULE PodmachineProofs --------------------------
(***************************************************************************)
(* The composition of Poller and Episodes implements Episodes, for any     *)
(* number of videos, channels, sources and threads; so what EpisodesProofs *)
(* and EpisodesSequentialProofs show of Episodes holds in it, polls, the   *)
(* circuit breaker and what YouTube does included.                         *)
(***************************************************************************)
EXTENDS Podmachine, EpisodesSequentialProofs

USE DEF table, locals, retentionVars, cycleLocals, pipelineVars, vars, baseVars

\* One commit of a poll: Discover, of the rows that were not there.
LEMMA InsertDiscovers ==
  ASSUME TypeInv, NEW c, NEW vs, NEW how \in [Videos -> {"baseline", "skipped_short", "pending"}],
         P!InsertVideos(c, vs, how), UNCHANGED pipelineVars
  PROVE  [Next]_vars
<1> DEFINE new == {v \in Videos : v \in P!NewRows(vs)}
           found == [v \in new |-> how[v]]
<1>1. /\ status \in [Videos -> Statuses]
      /\ status' = [v \in Videos |-> IF v \in new THEN how[v] ELSE status[v]]
  BY DEF P!InsertVideos, TypeInv, TypeOK
<1>2. CASE new = {}
  <2>1. status' = status
    BY <1>1, <1>2
  <2> QED
    BY <2>1
<1>3. CASE new # {}
  <2>1. found \in [new -> DiscoverAs] /\ \A v \in new : ~InTable(v)
    BY DiscoverAllAssumption DEF P!NewRows, InTable
  <2>2. status' = [v \in Videos |-> IF v \in new THEN found[v] ELSE status[v]]
    BY <1>1
  <2>3. Discover(new) /\ UNCHANGED faults
    BY <2>1, <2>2 DEF Discover
  <2>4. new \in (SUBSET Videos) \ {{}}
    BY <1>3
  <2> HIDE DEF new
  <2> QED
    BY <2>3, <2>4 DEF Next, Step
<1> QED
  BY <1>2, <1>3

LEMMA PollDiscovers ==
  ASSUME TypeInv, NEW t \in Threads, PollStep(t)
  PROVE  [Next]_vars
<1>1. CASE P!InsertBaseline(t)
  <2>1. [v \in Videos |-> "baseline"] \in [Videos -> {"baseline", "skipped_short", "pending"}]
    OBVIOUS
  <2> QED
    BY <1>1, <2>1, InsertDiscovers DEF PollStep, P!InsertBaseline
<1>2. CASE P!InsertNew(t)
  <2>1. P!FoundAs(chan[t][2]) \in [Videos -> {"baseline", "skipped_short", "pending"}]
    BY DEF P!FoundAs
  <2> QED
    BY <1>2, <2>1, InsertDiscovers DEF PollStep, P!InsertNew
<1>3. CASE ~(P!InsertBaseline(t) \/ P!InsertNew(t))
  <2>1. status' = status
    BY <1>3
    DEF PollStep, P!Poll, P!CheckBackoff, P!ExpiredBackoff, P!FetchSucceeds, P!FetchFails,
        P!RecordFailure, P!RecordSuccess, P!ReadKnown, P!PollDone, P!videosTable
  <2> QED
    BY <2>1 DEF PollStep
<1> QED
  BY <1>1, <1>2, <1>3

LEMMA FaultImplements ==
  ASSUME SystemFault
  PROVE  Next
  BY DEF SystemFault, Next, Fault

LEMMA StepImplements == TypeInv /\ [SystemNext]_systemVars => [Next]_vars
<1> SUFFICES ASSUME TypeInv, [SystemNext]_systemVars
             PROVE  [Next]_vars
  OBVIOUS
<1>1. ASSUME NEW t \in Threads, BeginCycle(t) \/ BeginRequest(t)
      PROVE  Next
  BY <1>1 DEF BeginCycle, BeginRequest, StartJob, Step, Next
<1>2. ASSUME NEW t \in Threads, WorkStep(t)
      PROVE  Next
  BY <1>2 DEF WorkStep, Step, Next
<1>3. CASE Outside
  <2>1. ASSUME NEW v \in Videos, Age(v), UNCHANGED faults
        PROVE  Next
    BY <2>1 DEF Step, Next
  <2>2. ASSUME \/ \E c \in Channels : P!BackoffExpires(c)
               \/ \E v \in Videos : P!Upload(v) \/ P!Withdraw(v),
               UNCHANGED pipelineVars
        PROVE  UNCHANGED vars
    BY <2>2 DEF P!BackoffExpires, P!Upload, P!Withdraw, P!videosTable
  <2> QED
    BY <1>3, <2>1, <2>2 DEF Outside
<1> QED
  BY <1>1, <1>2, <1>3, PollDiscovers, FaultImplements DEF SystemNext, systemVars

(* Whatever the channels list and however polls, requests and crashes      *)
(* interleave, the `videos` table and the files change only as Episodes    *)
(* allows: no poll touches a row that exists (poller.py:69-83).            *)
THEOREM SystemImplementsEpisodes == SystemSpec => ImplementsEpisodes
<1>1. SystemInit => Init
  BY DEF SystemInit
<1>2. TypeInv /\ [SystemNext]_systemVars => TypeInv'
  BY StepImplements, NextType
<1>3. SystemInit => TypeInv
  BY <1>1, InitType
<1> QED
  BY <1>1, <1>2, <1>3, StepImplements, PTL DEF SystemSpec, ImplementsEpisodes, Spec

(* With polls in the same process the rows that are served still have      *)
(* their file_path, and overlapping cycles still overshoot the cap on      *)
(* retries by no more than one each (requeue.py, retention.py).            *)
THEOREM SystemKeepsRows == SystemSpec => [](RowPathSound /\ RetryOvershootBounded)
  BY SystemImplementsEpisodes, RowPathCorrect, RetryOvershoot, PTL DEF ImplementsEpisodes

(* README.md's cap on retries, where polls are part of the cycle: it holds *)
(* as long as the scheduler's is the only thread that runs cycles.         *)
THEOREM SystemCapsRetries ==
  ASSUME Cardinality(CycleThreads) <= 1
  PROVE  SystemSpec => []RetriesCapped
  BY SystemImplementsEpisodes, RetriesCappedWithOneCycle, PTL DEF ImplementsEpisodes

(* processor.py, _process_one: whichever of the rows polls add a cycle or  *)
(* a request takes, and whatever is deleted meanwhile, the thread that     *)
(* made a row 'downloading' will write its status again.                   *)
THEOREM SystemOwnsDownloads ==
  ASSUME Faults \subseteq {"unlink"}
  PROVE  SystemSpec => []DownloadingIsOwned
  BY SystemImplementsEpisodes, DownloadsAreOwned, PTL DEF ImplementsEpisodes

(* docs/retention.md, from the feed to the disk: in a process that does    *)
(* one thing at a time keep_latest is a ceiling and a floor, and no later  *)
(* poll or cycle brings back what retention or the admin removed, whatever *)
(* YouTube lists and whatever fails or crashes.                            *)
THEOREM SystemRetains ==
  ASSUME OneJobAtATime, IsFiniteSet(Videos)
  PROVE  SystemSpec => []RetentionMeetsPolicy /\ RetentionKeepsNewest /\ ParkedStaysParked
  BY SystemImplementsEpisodes, RetentionIsCeiling, RetentionIsFloor, ParkedUntilAskedFor, PTL
  DEF ImplementsEpisodes
=============================================================================
