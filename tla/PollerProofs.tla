---------------------------- MODULE PollerProofs ----------------------------
(***************************************************************************)
(* Theorems about Poller, for any number of videos, slugs and pollers.     *)
(***************************************************************************)
EXTENDS PollerProperties, FiniteSetTheorems, TLAPS

Channels == Slugs \X Sources
AtWork(t) == pc[t] \notin {"idle", "next"}

-----------------------------------------------------------------------------
(* Type correctness.                                                       *)

\* A poller past the backoff check has a channel in hand.
HandSound == \A t \in Pollers : AtWork(t) => chan[t] \in Channels

TypeInv == TypeOK /\ HandSound

LEMMA ListingType ==
  ASSUME TypeOK, NEW src
  PROVE  Listing(src) \subseteq Videos
  BY DEF TypeOK, Listing, On

LEMMA SlugType ==
  ASSUME HandSound, NEW t \in Pollers, AtWork(t)
  PROVE  Slug(t) \in Slugs
  BY DEF HandSound, Slug, Channels

LEMMA InitType == Init => TypeInv
  BY SourcesAssumption
  DEF Init, TypeInv, TypeOK, HandSound, AtWork, Channels, Labels, On

LEMMA PollType ==
  ASSUME TypeInv, NEW t \in Pollers, Poll(t)
  PROVE  TypeInv'
<1> USE DEF Goto, Drop, TypeInv, TypeOK, HandSound, AtWork, Channels, Labels,
            channelState, videosTable, youtube, read
<1>1. CASE CheckBackoff(t)
  <2>1. PICK c \in queue[t] : CheckBackoff(t)!(c)
    BY <1>1 DEF CheckBackoff
  <2> QED
    BY <2>1, NoChannelAssumption DEF AfterCheck
<1>2. CASE ExpiredBackoff(t)
  BY <1>2 DEF ExpiredBackoff, ResetFailures
<1>3. CASE FetchSucceeds(t)
  BY <1>3, ListingType DEF FetchSucceeds
<1>4. CASE FetchFails(t)
  BY <1>4, SlugType DEF FetchFails
<1>5. CASE RecordFailure(t)
  BY <1>5, SlugType DEF RecordFailure
<1>6. CASE RecordSuccess(t)
  BY <1>6 DEF RecordSuccess, ResetFailures
<1>7. CASE InsertBaseline(t)
  BY <1>7, SlugType DEF InsertBaseline, InsertVideos, NewRows
<1>8. CASE ReadKnown(t)
  BY <1>8 DEF ReadKnown
<1>9. CASE InsertNew(t)
  BY <1>9, SlugType DEF InsertNew, InsertVideos, NewRows, FoundAs
<1>10. CASE PollDone(t)
  BY <1>10 DEF PollDone
<1> QED
  BY <1>1, <1>2, <1>3, <1>4, <1>5, <1>6, <1>7, <1>8, <1>9, <1>10 DEF Poll

LEMMA StepType == TypeInv /\ [Next]_vars => TypeInv'
<1> SUFFICES ASSUME TypeInv, [Next]_vars
             PROVE  TypeInv'
  OBVIOUS
<1> USE DEF Goto, TypeInv, TypeOK, HandSound, AtWork, Channels, Labels, On,
            channelState, videosTable, youtube, read
<1>1. ASSUME NEW t \in Pollers, StartPoll(t)
      PROVE  TypeInv'
  BY <1>1 DEF StartPoll, Tracked
<1>2. ASSUME NEW t \in Pollers, Poll(t)
      PROVE  TypeInv'
  BY <1>2, PollType
<1>3. ASSUME NEW s \in Slugs, DeleteChannel(s)
      PROVE  TypeInv'
  BY <1>3 DEF DeleteChannel
<1>4. ASSUME NEW s \in Slugs, BackoffExpires(s)
      PROVE  TypeInv'
  BY <1>4 DEF BackoffExpires
<1>5. ASSUME NEW s \in Slugs, NEW src \in Sources, AddChannel(s, src)
      PROVE  TypeInv'
  BY <1>5 DEF AddChannel
<1>6. ASSUME NEW v \in Videos, Upload(v) \/ Withdraw(v)
      PROVE  TypeInv'
  BY <1>6 DEF Upload, Withdraw
<1>7. CASE Restart
  BY <1>7, SourcesAssumption DEF Restart, Tracked
<1>8. CASE UNCHANGED vars
  BY <1>8 DEF vars
<1> QED
  BY <1>1, <1>2, <1>3, <1>4, <1>5, <1>6, <1>7, <1>8 DEF Next

LEMMA TypeInvariance == Spec => []TypeInv
  BY InitType, StepType, PTL DEF Spec

(* The tables and the pollers' locals keep their types (poller.py,         *)
(* channels.py, db.py).                                                    *)
THEOREM PollerTypeCorrect == Spec => []TypeOK
<1>1. TypeInv => TypeOK
  BY DEF TypeInv
<1> QED
  BY <1>1, TypeInvariance, PTL

-----------------------------------------------------------------------------
(* The breaker.                                                            *)

LEMMA BreakerInit == Init => BreakerMatchesCount
  BY ThresholdAssumption DEF Init, BreakerMatchesCount

LEMMA BreakerStep == TypeInv /\ BreakerMatchesCount /\ [Next]_vars => BreakerMatchesCount'
<1> SUFFICES ASSUME TypeInv, BreakerMatchesCount, [Next]_vars
             PROVE  BreakerMatchesCount'
  OBVIOUS
<1> USE DEF BreakerMatchesCount, TypeInv, TypeOK, channelState
<1>1. ASSUME NEW t \in Pollers, ExpiredBackoff(t) \/ RecordSuccess(t)
      PROVE  BreakerMatchesCount'
  BY <1>1, ThresholdAssumption DEF ExpiredBackoff, RecordSuccess, ResetFailures
<1>2. ASSUME NEW t \in Pollers, RecordFailure(t)
      PROVE  BreakerMatchesCount'
  BY <1>2, ThresholdAssumption DEF RecordFailure
<1>3. ASSUME NEW t \in Pollers, InsertBaseline(t)
      PROVE  BreakerMatchesCount'
  BY <1>3 DEF InsertBaseline
<1>4. ASSUME NEW s \in Slugs, BackoffExpires(s)
      PROVE  BreakerMatchesCount'
  BY <1>4 DEF BackoffExpires
<1>5. CASE UNCHANGED <<failures, backoff>>
  BY <1>5
<1>6. ASSUME NEW t \in Pollers,
             \/ StartPoll(t) \/ CheckBackoff(t) \/ FetchSucceeds(t) \/ FetchFails(t)
             \/ ReadKnown(t) \/ InsertNew(t) \/ PollDone(t)
      PROVE  UNCHANGED <<failures, backoff>>
  BY <1>6 DEF StartPoll, CheckBackoff, FetchSucceeds, FetchFails, ReadKnown, InsertNew, PollDone
<1>7. CASE \/ \E s \in Slugs : DeleteChannel(s)
           \/ \E s \in Slugs, src \in Sources : AddChannel(s, src)
           \/ \E v \in Videos : Upload(v) \/ Withdraw(v)
           \/ Restart
           \/ UNCHANGED vars
  <2>1. UNCHANGED <<failures, backoff>>
    BY <1>7 DEF DeleteChannel, AddChannel, Upload, Withdraw, Restart, vars
  <2> QED
    BY <2>1
<1> QED
  BY <1>1, <1>2, <1>3, <1>4, <1>5, <1>6, <1>7 DEF Next, Poll

(* poller.py, _record_poll_failure and _reset_poll_failure_state: however  *)
(* polls overlap, the breaker is on exactly when the count has reached the *)
(* threshold.                                                              *)
THEOREM BreakerConsistent == Spec => []BreakerMatchesCount
  BY BreakerInit, BreakerStep, TypeInvariance, PTL DEF Spec

-----------------------------------------------------------------------------
(* The rows.                                                               *)

\* A step changes the rows only through InsertVideos, for the slug in hand.
LEMMA RowSteps ==
  ASSUME [Next]_vars
  PROVE  \/ UNCHANGED <<videosTable, baseline>>
         \/ \E t \in Pollers : InsertBaseline(t) \/ InsertNew(t)
<1> USE DEF channelState, videosTable, youtube, read
<1>1. ASSUME NEW t \in Pollers, StartPoll(t)
      PROVE  UNCHANGED <<videosTable, baseline>>
  BY <1>1 DEF StartPoll
<1>2. ASSUME NEW t \in Pollers, Poll(t), ~InsertBaseline(t), ~InsertNew(t)
      PROVE  UNCHANGED <<videosTable, baseline>>
  BY <1>2 DEF Poll, CheckBackoff, ExpiredBackoff, FetchSucceeds, FetchFails, RecordFailure,
              RecordSuccess, ResetFailures, ReadKnown, PollDone
<1>3. ASSUME NEW s \in Slugs, DeleteChannel(s) \/ BackoffExpires(s)
      PROVE  UNCHANGED <<videosTable, baseline>>
  BY <1>3 DEF DeleteChannel, BackoffExpires
<1>4. ASSUME NEW s \in Slugs, NEW src \in Sources, AddChannel(s, src)
      PROVE  UNCHANGED <<videosTable, baseline>>
  BY <1>4 DEF AddChannel
<1>5. ASSUME NEW v \in Videos, Upload(v) \/ Withdraw(v)
      PROVE  UNCHANGED <<videosTable, baseline>>
  BY <1>5 DEF Upload, Withdraw
<1>6. CASE Restart \/ UNCHANGED vars
  BY <1>6 DEF Restart, vars
<1> QED
  BY <1>1, <1>2, <1>3, <1>4, <1>5, <1>6 DEF Next

(* poller.py, _insert_video's INSERT OR IGNORE: a video_id that has a row  *)
(* is never inserted again, whoever polls, and for whichever slug.         *)
THEOREM RowsAreKept == Spec => RecordedOnce
<1>1. ASSUME TypeInv, [Next]_vars, NEW v \in Videos, inserted[v] # "absent"
      PROVE  inserted'[v] = inserted[v] /\ rowSlug'[v] = rowSlug[v]
  <2>1. ASSUME NEW t \in Pollers, InsertBaseline(t) \/ InsertNew(t)
        PROVE  inserted'[v] = inserted[v] /\ rowSlug'[v] = rowSlug[v]
    BY <1>1, <2>1 DEF InsertBaseline, InsertNew, InsertVideos, NewRows
  <2> QED
    BY <1>1, <2>1, RowSteps DEF videosTable
<1>2. TypeInv /\ [Next]_vars =>
        [\A v \in Videos :
            inserted[v] # "absent" => inserted'[v] = inserted[v] /\ rowSlug'[v] = rowSlug[v]]_vars
  BY <1>1
<1> QED
  BY <1>2, TypeInvariance, PTL DEF Spec, RecordedOnce

\* A poller that will insert rows as new has seen the baseline established.
SawSound ==
    \A t \in Pollers :
        /\ AtWork(t) /\ sawBaseline[t] => baseline[Slug(t)]
        /\ pc[t] \in {"known", "insert"} => sawBaseline[t]

RowsSound == \A v \in Videos : inserted[v] # "absent" => rowSlug[v] \in Slugs

QueueInv == TypeInv /\ SawSound /\ RowsSound /\ QueuedAfterBaseline

LEMMA QueueInit == Init => QueueInv
  BY InitType DEF Init, QueueInv, SawSound, RowsSound, QueuedAfterBaseline, AtWork

\* Only starting on a channel, the two inserts and the end of a poll disturb
\* what a poller knows about its slug's baseline.
LEMMA QueuePoll ==
  ASSUME QueueInv, NEW t \in Pollers, Poll(t)
  PROVE  SawSound'
<1> USE DEF Goto, Drop, QueueInv, TypeInv, TypeOK, SawSound, HandSound, AtWork, Channels, Labels,
            Slug, channelState, videosTable, youtube, read
<1>1. CASE CheckBackoff(t)
  BY <1>1 DEF CheckBackoff, AfterCheck
<1>2. CASE ExpiredBackoff(t)
  BY <1>2 DEF ExpiredBackoff, ResetFailures
<1>3. CASE FetchSucceeds(t)
  BY <1>3 DEF FetchSucceeds
<1>4. CASE FetchFails(t)
  BY <1>4 DEF FetchFails
<1>5. CASE RecordFailure(t)
  BY <1>5 DEF RecordFailure
<1>6. CASE RecordSuccess(t)
  BY <1>6 DEF RecordSuccess, ResetFailures
<1>7. CASE InsertBaseline(t)
  BY <1>7 DEF InsertBaseline
<1>8. CASE ReadKnown(t)
  BY <1>8 DEF ReadKnown
<1>9. CASE InsertNew(t)
  BY <1>9 DEF InsertNew
<1>10. CASE PollDone(t)
  BY <1>10 DEF PollDone
<1> QED
  BY <1>1, <1>2, <1>3, <1>4, <1>5, <1>6, <1>7, <1>8, <1>9, <1>10 DEF Poll

LEMMA SawStep ==
  ASSUME QueueInv, [Next]_vars
  PROVE  SawSound'
<1> USE DEF QueueInv, TypeInv, TypeOK, SawSound, AtWork, Slug, channelState, youtube, read
<1>1. ASSUME NEW t \in Pollers, StartPoll(t)
      PROVE  SawSound'
  BY <1>1 DEF StartPoll, Goto
<1>2. ASSUME NEW t \in Pollers, Poll(t)
      PROVE  SawSound'
  BY <1>2, QueuePoll
<1>3. ASSUME NEW s \in Slugs, DeleteChannel(s) \/ BackoffExpires(s)
      PROVE  SawSound'
  BY <1>3 DEF DeleteChannel, BackoffExpires
<1>4. ASSUME NEW s \in Slugs, NEW src \in Sources, AddChannel(s, src)
      PROVE  SawSound'
  BY <1>4 DEF AddChannel
<1>5. ASSUME NEW v \in Videos, Upload(v) \/ Withdraw(v)
      PROVE  SawSound'
  BY <1>5 DEF Upload, Withdraw
<1>6. CASE Restart
  BY <1>6 DEF Restart
<1>7. CASE UNCHANGED vars
  BY <1>7 DEF vars
<1> QED
  BY <1>1, <1>2, <1>3, <1>4, <1>5, <1>6, <1>7 DEF Next

LEMMA RowsStep ==
  ASSUME QueueInv, [Next]_vars
  PROVE  RowsSound' /\ QueuedAfterBaseline'
<1> USE DEF QueueInv, TypeInv, TypeOK, RowsSound, QueuedAfterBaseline
<1>1. CASE UNCHANGED <<videosTable, baseline>>
  BY <1>1 DEF videosTable
<1>2. ASSUME NEW t \in Pollers, InsertBaseline(t)
      PROVE  RowsSound' /\ QueuedAfterBaseline'
  <2>1. Slug(t) \in Slugs
    BY <1>2, SlugType DEF InsertBaseline, Goto, AtWork
  <2> QED
    BY <1>2, <2>1 DEF InsertBaseline, InsertVideos
<1>3. ASSUME NEW t \in Pollers, InsertNew(t)
      PROVE  RowsSound' /\ QueuedAfterBaseline'
  <2>1. Slug(t) \in Slugs /\ baseline[Slug(t)]
    BY <1>3, SlugType DEF InsertNew, Goto, AtWork, SawSound
  <2> QED
    BY <1>3, <2>1 DEF InsertNew, InsertVideos, channelState
<1> QED
  BY <1>1, <1>2, <1>3, RowSteps

(* poller.py, poll_channel: however polls overlap, nothing is queued for a *)
(* slug whose baseline is not established.                                 *)
THEOREM NothingQueuedEarly == Spec => []QueuedAfterBaseline
<1>1. QueueInv /\ [Next]_vars => QueueInv'
  BY StepType, SawStep, RowsStep DEF QueueInv
<1>2. QueueInv => QueuedAfterBaseline
  BY DEF QueueInv
<1> QED
  BY <1>1, <1>2, QueueInit, PTL DEF Spec

-----------------------------------------------------------------------------
(* A single poller.                                                        *)

OnePoller == \A t, u \in Pollers : t = u

\* A poller inserts a baseline when it has seen that there is none.
ExactAtBaseline == \A t \in Pollers : pc[t] = "baseline" => ~sawBaseline[t]

\* Nobody establishes a baseline behind the poller's back.
SawExact == \A t \in Pollers : AtWork(t) => (sawBaseline[t] <=> baseline[Slug(t)])

SoleInv == QueueInv /\ SawExact /\ ExactAtBaseline

LEMMA ExactInit == Init => SawExact /\ ExactAtBaseline
  BY DEF Init, SawExact, ExactAtBaseline, AtWork

LEMMA ExactStep ==
  ASSUME OnePoller, SoleInv, [Next]_vars
  PROVE  SawExact' /\ ExactAtBaseline'
<1> USE DEF OnePoller, SoleInv, QueueInv, TypeInv, TypeOK, SawExact, ExactAtBaseline, AtWork, Slug, Goto, Drop,
            channelState, videosTable, youtube, read
<1>1. ASSUME NEW t \in Pollers, StartPoll(t) \/ PollDone(t)
      PROVE  SawExact' /\ ExactAtBaseline'
  BY <1>1 DEF StartPoll, PollDone
<1>2. ASSUME NEW t \in Pollers, CheckBackoff(t)
      PROVE  SawExact' /\ ExactAtBaseline'
  BY <1>2 DEF CheckBackoff, AfterCheck
<1>3. ASSUME NEW t \in Pollers, ExpiredBackoff(t) \/ RecordSuccess(t)
      PROVE  SawExact' /\ ExactAtBaseline'
  BY <1>3 DEF ExpiredBackoff, RecordSuccess, ResetFailures
<1>4. ASSUME NEW t \in Pollers, FetchSucceeds(t) \/ FetchFails(t) \/ ReadKnown(t)
      PROVE  SawExact' /\ ExactAtBaseline'
  BY <1>4 DEF FetchSucceeds, FetchFails, ReadKnown
<1>5. ASSUME NEW t \in Pollers, RecordFailure(t) \/ InsertBaseline(t) \/ InsertNew(t)
      PROVE  SawExact' /\ ExactAtBaseline'
  <2>1. pc'[t] = "next"
    BY <1>5 DEF RecordFailure, InsertBaseline, InsertNew
  <2>2. \A u \in Pollers : pc'[u] = "next"
    BY <2>1
  <2> QED
    BY <2>2
<1>6. ASSUME NEW s \in Slugs, DeleteChannel(s) \/ BackoffExpires(s)
      PROVE  SawExact' /\ ExactAtBaseline'
  BY <1>6 DEF DeleteChannel, BackoffExpires
<1>7. ASSUME NEW s \in Slugs, NEW src \in Sources, AddChannel(s, src)
      PROVE  SawExact' /\ ExactAtBaseline'
  BY <1>7 DEF AddChannel
<1>8. ASSUME NEW v \in Videos, Upload(v) \/ Withdraw(v)
      PROVE  SawExact' /\ ExactAtBaseline'
  BY <1>8 DEF Upload, Withdraw
<1>9. CASE Restart \/ UNCHANGED vars
  BY <1>9 DEF Restart, vars
<1> QED
  BY <1>1, <1>2, <1>3, <1>4, <1>5, <1>6, <1>7, <1>8, <1>9 DEF Next, Poll

LEMMA SoleInvariance ==
  ASSUME OnePoller
  PROVE  Spec => []SoleInv
<1>1. Init => SoleInv
  BY QueueInit, ExactInit DEF SoleInv
<1>2. SoleInv /\ [Next]_vars => SoleInv'
  BY StepType, SawStep, RowsStep, ExactStep DEF SoleInv, QueueInv
<1> QED
  BY <1>1, <1>2, PTL DEF Spec

LEMMA InsertRecords ==
  ASSUME TypeInv, NEW s \in Slugs, NEW vs, NEW how, NEW hows,
         \A v \in Videos : how[v] \in hows,
         vs \subseteq Videos, InsertVideos(s, vs, how)
  PROVE  Promise!Record(s, NewRows(vs), hows)
  BY DEF TypeInv, TypeOK, InsertVideos, NewRows, Promise!Record

(* poller.py, poll_channel: one poller, whatever fails, crashes, is        *)
(* removed, added again or withdrawn meanwhile, gives each slug one moment *)
(* of baseline and takes everything it finds after it as new.              *)
THEOREM SolePollerKeepsPromise ==
  ASSUME OnePoller
  PROVE  Spec => ImplementsDiscovery
<1>1. Init => Promise!Init
  BY DEF Init, Promise!Init
<1>2. ASSUME SoleInv, [Next]_vars
      PROVE  [Promise!Next]_<<baseline, inserted, rowSlug>>
  <2>1. CASE UNCHANGED <<videosTable, baseline>>
    BY <2>1 DEF videosTable
  <2>2. ASSUME NEW t \in Pollers, InsertBaseline(t)
        PROVE  Promise!Next
    <3> DEFINE vs == NewRows(entries[t])
    <3>1. Slug(t) \in Slugs /\ ~baseline[Slug(t)]
      BY <1>2, <2>2, SlugType
      DEF InsertBaseline, Goto, AtWork, SoleInv, QueueInv, TypeInv, SawExact, ExactAtBaseline
    <3>2. entries[t] \subseteq Videos /\ vs \in SUBSET Videos
      BY <1>2 DEF SoleInv, QueueInv, TypeInv, TypeOK, NewRows
    <3>3. Promise!Record(Slug(t), vs, {"baseline"})
      <4> DEFINE how == [v \in Videos |-> "baseline"]
      <4>1. InsertVideos(Slug(t), entries[t], how)
        BY <2>2 DEF InsertBaseline
      <4>2. \A v \in Videos : how[v] \in {"baseline"}
        OBVIOUS
      <4> HIDE DEF how
      <4> QED
        BY <1>2, <3>1, <3>2, <4>1, <4>2, InsertRecords DEF SoleInv, QueueInv
    <3>4. baseline' = [baseline EXCEPT ![Slug(t)] = TRUE]
      BY <2>2 DEF InsertBaseline
    <3>5. Promise!Establish(Slug(t), vs)
      BY <3>1, <3>3, <3>4 DEF Promise!Establish
    <3> QED
      BY <3>1, <3>2, <3>5 DEF Promise!Next
  <2>3. ASSUME NEW t \in Pollers, InsertNew(t)
        PROVE  Promise!Next
    <3> DEFINE vs == NewRows(entries[t] \ known[t])
    <3>1. Slug(t) \in Slugs /\ baseline[Slug(t)]
      BY <1>2, <2>3, SlugType
      DEF InsertNew, Goto, AtWork, SoleInv, QueueInv, TypeInv, SawSound
    <3>2. entries[t] \ known[t] \subseteq Videos /\ vs \in SUBSET Videos
      BY <1>2 DEF SoleInv, QueueInv, TypeInv, TypeOK, NewRows
    <3>3. Promise!Record(Slug(t), vs, {"pending", "skipped_short"})
      <4> DEFINE how == FoundAs(chan[t][2])
      <4>1. InsertVideos(Slug(t), entries[t] \ known[t], how)
        BY <2>3 DEF InsertNew
      <4>2. \A v \in Videos : how[v] \in {"pending", "skipped_short"}
        BY DEF FoundAs
      <4> HIDE DEF how
      <4> QED
        BY <1>2, <3>1, <3>2, <4>1, <4>2, InsertRecords DEF SoleInv, QueueInv
    <3>4. Promise!Find(Slug(t), vs)
      BY <2>3, <3>1, <3>3 DEF Promise!Find, InsertNew, channelState
    <3> QED
      BY <3>1, <3>2, <3>4 DEF Promise!Next
  <2> QED
    BY <1>2, <2>1, <2>2, <2>3, RowSteps
<1> QED
  BY <1>1, <1>2, SoleInvariance, PTL DEF Spec, ImplementsDiscovery, Promise!Spec

\* A fetch is made with the count below the threshold.
CountSound ==
    \A t \in Pollers :
        /\ pc[t] = "fetch" => failures[Slug(t)] < CIRCUIT_BREAKER_THRESHOLD
        /\ pc[t] = "failure" => sawFailures[t] < CIRCUIT_BREAKER_THRESHOLD

CountInv == TypeInv /\ BreakerMatchesCount /\ CountSound /\ CountStopsAtThreshold

LEMMA CountStep ==
  ASSUME OnePoller, CountInv, [Next]_vars
  PROVE  CountSound' /\ CountStopsAtThreshold'
<1> USE ThresholdAssumption
    DEF OnePoller, CountInv, CountSound, CountStopsAtThreshold, TypeInv, TypeOK, Slug, Goto, Drop,
        channelState, videosTable, youtube, read
<1>1. ASSUME NEW t \in Pollers, StartPoll(t) \/ PollDone(t)
      PROVE  CountSound' /\ CountStopsAtThreshold'
  BY <1>1 DEF StartPoll, PollDone
<1>2. ASSUME NEW t \in Pollers, CheckBackoff(t)
      PROVE  CountSound' /\ CountStopsAtThreshold'
  BY <1>2 DEF CheckBackoff, AfterCheck, BreakerMatchesCount
<1>3. ASSUME NEW t \in Pollers, ExpiredBackoff(t) \/ RecordSuccess(t)
      PROVE  CountSound' /\ CountStopsAtThreshold'
  <2>1. Slug(t) \in Slugs
    BY <1>3, SlugType DEF ExpiredBackoff, RecordSuccess, AtWork
  <2> QED
    BY <1>3, <2>1 DEF ExpiredBackoff, RecordSuccess, ResetFailures
<1>4. ASSUME NEW t \in Pollers, FetchSucceeds(t) \/ FetchFails(t) \/ ReadKnown(t)
      PROVE  CountSound' /\ CountStopsAtThreshold'
  BY <1>4 DEF FetchSucceeds, FetchFails, ReadKnown
<1>5. ASSUME NEW t \in Pollers, RecordFailure(t)
      PROVE  CountSound' /\ CountStopsAtThreshold'
  BY <1>5 DEF RecordFailure
<1>6. ASSUME NEW t \in Pollers, InsertBaseline(t) \/ InsertNew(t)
      PROVE  CountSound' /\ CountStopsAtThreshold'
  BY <1>6 DEF InsertBaseline, InsertNew
<1>7. ASSUME NEW s \in Slugs, DeleteChannel(s) \/ BackoffExpires(s)
      PROVE  CountSound' /\ CountStopsAtThreshold'
  BY <1>7 DEF DeleteChannel, BackoffExpires
<1>8. ASSUME NEW s \in Slugs, NEW src \in Sources, AddChannel(s, src)
      PROVE  CountSound' /\ CountStopsAtThreshold'
  BY <1>8 DEF AddChannel
<1>9. ASSUME NEW v \in Videos, Upload(v) \/ Withdraw(v)
      PROVE  CountSound' /\ CountStopsAtThreshold'
  BY <1>9 DEF Upload, Withdraw
<1>10. CASE Restart \/ UNCHANGED vars
  BY <1>10 DEF Restart, vars
<1> QED
  BY <1>1, <1>2, <1>3, <1>4, <1>5, <1>6, <1>7, <1>8, <1>9, <1>10 DEF Next, Poll

(* poller.py, poll_channel and _record_poll_failure: with one poller the   *)
(* count of failures never passes the threshold, so an expired backoff     *)
(* really did start from a clean slate.                                    *)
THEOREM SolePollerCount ==
  ASSUME OnePoller
  PROVE  Spec => []CountStopsAtThreshold
<1>1. Init => CountInv
  BY InitType, BreakerInit, ThresholdAssumption
  DEF Init, CountInv, CountSound, CountStopsAtThreshold
<1>2. CountInv /\ [Next]_vars => CountInv'
  BY StepType, BreakerStep, CountStep DEF CountInv
<1>3. CountInv => CountStopsAtThreshold
  BY DEF CountInv
<1> QED
  BY <1>1, <1>2, <1>3, PTL DEF Spec

-----------------------------------------------------------------------------
(* No backfill.                                                            *)

\* A channel that is removed and added again, or whose newest uploads are
\* withdrawn, lists its history anew; a playlist, listed in full, does not.
NothingComesBack ==
    /\ IsFiniteSet(Videos)
    /\ {"remove", "remove_at_rest"} \cap Events = {}
    /\ "withdraw" \in Events => Sources \subseteq Playlists

There == uploaded \ withdrawn

\* What src lists when the videos there are `there`.
Window(src, there) ==
    IF src \in Playlists THEN On(src, there)
    ELSE {v \in On(src, there) :
             Cardinality({w \in On(src, there) : Rank[w] > Rank[v]}) < WINDOW}

\* The window only moves forward: a video that an upload has pushed out of it,
\* or that was out of it before, stays out.
LEMMA WindowMoves ==
  ASSUME IsFiniteSet(Videos), NEW src, NEW old \in SUBSET Videos, NEW new \in SUBSET Videos,
         old \subseteq new, NEW v \in old, v \in Window(src, new)
  PROVE  v \in Window(src, old)
<1> DEFINE Above(there) == {w \in On(src, there) : Rank[w] > Rank[v]}
<1>1. v \in On(src, old)
  BY DEF Window, On
<1>2. CASE src \in Playlists
  BY <1>1, <1>2 DEF Window
<1>3. CASE src \notin Playlists
  <2>1. Cardinality(Above(new)) < WINDOW
    BY <1>3 DEF Window
  <2>2. IsFiniteSet(Above(new)) /\ Above(old) \in SUBSET Above(new)
    <3>1. Above(new) \in SUBSET Videos /\ Above(old) \in SUBSET Above(new)
      BY DEF On
    <3> QED
      BY <3>1, FS_Subset
  <2>3. /\ Cardinality(Above(old)) <= Cardinality(Above(new))
        /\ Cardinality(Above(old)) \in Nat /\ Cardinality(Above(new)) \in Nat
    BY <2>2, FS_Subset, FS_CardinalityType
  <2>4. Cardinality(Above(old)) < WINDOW
    BY <2>1, <2>3, ThresholdAssumption
  <2> QED
    BY <1>1, <1>3, <2>4 DEF Window
<1> QED
  BY <1>2, <1>3

\* Nothing joins what a playlist lists when a video is withdrawn.
LEMMA WindowShrinks ==
  ASSUME NEW src \in Playlists \cup {NoSource},
         NEW old \in SUBSET Videos, NEW new \in SUBSET old, NEW v \in Window(src, new)
  PROVE  v \in Window(src, old)
  BY SourcesAssumption DEF Window, On

\* Every channel in a poller's hands is still tracked under that slug.
ChannelSound ==
    /\ \A t \in Pollers : \A c \in queue[t] : c[2] = source[c[1]]
    /\ \A t \in Pollers : AtWork(t) => chan[t][2] = source[Slug(t)]
    /\ \A s \in Slugs : baseline[s] => s \in Tracked
    /\ \A s \in Slugs : preexisting[s] \subseteq uploaded

\* What a source had before its baseline is recorded or out of its window.
PastSound(s) ==
    \A v \in preexisting[s] :
        inserted[v] = "absent" => v \notin Window(source[s], There)

\* What a poller fetched had everything of that then in the window; what it
\* fetched after the baseline has nothing of it that is not recorded.
FetchSound(t) ==
    /\ pc[t] \in {"success", "baseline"} =>
          \A v \in preexisting[Slug(t)] \ entries[t] :
              v \notin Window(source[Slug(t)], There)
    /\ pc[t] \in {"success", "known", "insert"} /\ sawBaseline[t] =>
          \A v \in preexisting[Slug(t)] \cap entries[t] : inserted[v] # "absent"

BackfillInv ==
    /\ QueueInv
    /\ ChannelSound
    /\ \A s \in Slugs : baseline[s] => PastSound(s)
    /\ \A t \in Pollers : FetchSound(t)

LEMMA BackfillInit == Init => BackfillInv
<1> SUFFICES ASSUME Init
             PROVE  BackfillInv
  OBVIOUS
<1>1. ChannelSound
  BY DEF Init, ChannelSound, AtWork, On
<1>2. \A s \in Slugs : ~baseline[s]
  BY DEF Init
<1>3. \A t \in Pollers : FetchSound(t)
  BY DEF Init, FetchSound
<1> QED
  BY QueueInit, <1>1, <1>2, <1>3 DEF BackfillInv

\* A poll's steps change nothing of channels and YouTube.
LEMMA PollLeaves ==
  ASSUME NEW t \in Pollers, Poll(t)
  PROVE  UNCHANGED <<source, uploaded, withdrawn, preexisting>>
  BY DEF Poll, CheckBackoff, ExpiredBackoff, FetchSucceeds, FetchFails, RecordFailure,
         RecordSuccess, InsertBaseline, ReadKnown, InsertNew, PollDone, youtube

LEMMA BackfillChannels ==
  ASSUME BackfillInv, NEW t \in Pollers, Poll(t)
  PROVE  ChannelSound'
<1> USE DEF Goto, Drop, BackfillInv, QueueInv, TypeInv, TypeOK, ChannelSound, HandSound, AtWork,
            Channels, Slug, Tracked, channelState, videosTable, youtube, read
<1>1. CASE CheckBackoff(t)
  BY <1>1 DEF CheckBackoff, AfterCheck
<1>2. CASE ExpiredBackoff(t) \/ RecordSuccess(t)
  BY <1>2 DEF ExpiredBackoff, RecordSuccess, ResetFailures
<1>3. CASE FetchSucceeds(t) \/ FetchFails(t) \/ ReadKnown(t) \/ PollDone(t)
  BY <1>3 DEF FetchSucceeds, FetchFails, ReadKnown, PollDone
<1>4. CASE RecordFailure(t)
  BY <1>4 DEF RecordFailure
<1>5. CASE InsertBaseline(t)
  <2>1. Slug(t) \in Tracked
    BY <1>5, SourcesAssumption DEF InsertBaseline
  <2> QED
    BY <1>5, <2>1 DEF InsertBaseline
<1>6. CASE InsertNew(t)
  BY <1>6 DEF InsertNew
<1> QED
  BY <1>1, <1>2, <1>3, <1>4, <1>5, <1>6 DEF Poll

\* The other pollers' knowledge: rows are never taken back.
LEMMA OthersKnow ==
  ASSUME BackfillInv, NEW t \in Pollers, Poll(t), NEW u \in Pollers, u # t,
         \A v \in Videos : inserted[v] # "absent" => inserted'[v] # "absent"
  PROVE  FetchSound(u)'
<1>1. UNCHANGED <<pc[u], chan[u], entries[u], sawBaseline[u]>>
  BY DEF BackfillInv, QueueInv, TypeInv, TypeOK, Poll, Goto, Drop, read, CheckBackoff,
         ExpiredBackoff, FetchSucceeds, FetchFails, RecordFailure, RecordSuccess,
         InsertBaseline, ReadKnown, InsertNew, PollDone
<1>2. Slug(u)' = Slug(u)
  BY <1>1 DEF Slug
<1>3. AtWork(u) => Slug(u) \in Slugs
  BY SlugType DEF BackfillInv, QueueInv, TypeInv
<1>4. FetchSound(u) /\ UNCHANGED <<source, There, preexisting>>
  BY PollLeaves DEF BackfillInv, There
<1>5. AtWork(u) => preexisting[Slug(u)] \subseteq Videos
  BY <1>3 DEF BackfillInv, QueueInv, TypeInv, TypeOK
<1> QED
  BY <1>1, <1>2, <1>4, <1>5 DEF FetchSound, AtWork

LEMMA BackfillPoll ==
  ASSUME NothingComesBack, BackfillInv, NEW t \in Pollers, Poll(t)
  PROVE  /\ \A s \in Slugs : baseline'[s] => PastSound(s)'
         /\ \A u \in Pollers : FetchSound(u)'
<1>1. QueueInv /\ TypeInv /\ TypeOK
  BY DEF BackfillInv, QueueInv, TypeInv
<1>2. UNCHANGED <<source, uploaded, withdrawn, preexisting>>
  BY PollLeaves
<1>3. AtWork(t) => Slug(t) \in Slugs
  BY <1>1, SlugType DEF QueueInv, TypeInv
<1>4. \A v \in Videos : inserted[v] # "absent" => inserted'[v] # "absent"
  <2>1. [Next]_vars
    BY DEF Next
  <2>2. CASE UNCHANGED <<videosTable, baseline>>
    BY <2>2 DEF videosTable
  <2>3. ASSUME NEW u \in Pollers, InsertBaseline(u) \/ InsertNew(u)
        PROVE  \A v \in Videos : inserted[v] # "absent" => inserted'[v] # "absent"
    BY <1>1, <2>3 DEF InsertBaseline, InsertNew, InsertVideos, NewRows, TypeOK
  <2> QED
    BY <2>1, <2>2, <2>3, RowSteps
<1>5. \A s \in Slugs : preexisting[s] \subseteq Videos
  BY <1>1 DEF TypeOK
<1>6. ASSUME NEW s \in Slugs, PastSound(s)
      PROVE  PastSound(s)'
  BY <1>2, <1>4, <1>5, <1>6 DEF PastSound, There
<1>7. \A s \in Slugs : baseline'[s] => PastSound(s)'
  <2>1. CASE UNCHANGED baseline
    BY <1>6, <2>1 DEF BackfillInv
  <2>2. CASE InsertBaseline(t)
    <3>1. pc[t] = "baseline" /\ Slug(t) \in Slugs /\ entries[t] \subseteq Videos
      BY <1>1, <1>3, <2>2 DEF InsertBaseline, Goto, AtWork, TypeOK
    <3>2. \A v \in entries[t] : inserted'[v] # "absent"
      BY <1>1, <2>2, <3>1 DEF InsertBaseline, InsertVideos, NewRows, TypeOK
    <3>3. \A v \in preexisting[Slug(t)] \ entries[t] :
              v \notin Window(source[Slug(t)], There)
      BY <3>1 DEF BackfillInv, FetchSound
    <3>4. ASSUME NEW r \in Slugs, r = Slug(t)
          PROVE  PastSound(r)'
      <4>1. \A v \in preexisting[r] :
                inserted'[v] = "absent" => v \notin Window(source[r], There)
        BY <3>2, <3>3, <3>4
      <4> QED
        BY <1>2, <4>1 DEF PastSound, There
    <3>5. ASSUME NEW r \in Slugs, r # Slug(t)
          PROVE  baseline'[r] = baseline[r]
      BY <1>1, <2>2, <3>5 DEF InsertBaseline, TypeOK
    <3> QED
      BY <1>6, <3>4, <3>5 DEF BackfillInv
  <2> QED
    BY <2>1, <2>2 DEF Poll, CheckBackoff, ExpiredBackoff, FetchSucceeds, FetchFails,
       RecordFailure, RecordSuccess, ResetFailures, ReadKnown, InsertNew, PollDone, channelState
<1>8. FetchSound(t)'
  <2> USE <1>1 DEF Goto, Drop, TypeOK, BackfillInv, read
  <2>1. CASE CheckBackoff(t)
    BY <2>1 DEF CheckBackoff, AfterCheck, FetchSound
  <2>2. CASE ExpiredBackoff(t)
    BY <2>2 DEF ExpiredBackoff, FetchSound
  <2>3. CASE FetchSucceeds(t)
    <3>1. Slug(t) \in Slugs /\ chan[t][2] = source[Slug(t)]
      BY <1>3, <2>3 DEF FetchSucceeds, AtWork, ChannelSound
    <3>2. Listing(chan[t][2]) = Window(source[Slug(t)], There)
      BY <3>1 DEF Listing, Window, There
    <3>3. entries'[t] = Window(source[Slug(t)], There)
      BY <2>3, <3>2 DEF FetchSucceeds
    <3>4. UNCHANGED <<Slug(t), inserted, sawBaseline>>
      BY <2>3 DEF FetchSucceeds, Slug, videosTable
    <3>5. sawBaseline[t] => PastSound(Slug(t))
      BY <2>3, <3>1 DEF FetchSucceeds, AtWork, QueueInv, SawSound
    <3> QED
      BY <1>2, <3>3, <3>4, <3>5 DEF FetchSound, PastSound, There
  <2>4. CASE FetchFails(t)
    BY <2>4 DEF FetchFails, FetchSound
  <2>5. CASE RecordSuccess(t)
    <3>1. /\ UNCHANGED <<Slug(t), inserted, entries, sawBaseline>>
          /\ pc[t] = "success" /\ pc'[t] \in {"known", "baseline"}
      BY <2>5 DEF RecordSuccess, Slug, videosTable
    <3> QED
      BY <1>2, <3>1 DEF FetchSound, There
  <2>6. CASE ReadKnown(t)
    <3>1. /\ UNCHANGED <<Slug(t), inserted, entries, sawBaseline>>
          /\ pc[t] = "known" /\ pc'[t] = "insert"
      BY <2>6 DEF ReadKnown, Slug, videosTable
    <3> QED
      BY <1>2, <3>1 DEF FetchSound
  <2>7. CASE RecordFailure(t) \/ InsertBaseline(t) \/ InsertNew(t) \/ PollDone(t)
    <3>1. pc'[t] \in {"next", "idle"}
      BY <2>7 DEF RecordFailure, InsertBaseline, InsertNew, PollDone
    <3> QED
      BY <3>1 DEF FetchSound
  <2> QED
    BY <2>1, <2>2, <2>3, <2>4, <2>5, <2>6, <2>7 DEF Poll
<1> QED
  BY <1>4, <1>7, <1>8, OthersKnow

\* Uploads push videos out of the window and bring none back.
LEMMA BackfillUpload ==
  ASSUME NothingComesBack, BackfillInv, NEW u \in Videos, Upload(u)
  PROVE  /\ ChannelSound'
         /\ \A s \in Slugs : baseline'[s] => PastSound(s)'
         /\ \A t \in Pollers : FetchSound(t)'
<1>1. TypeOK /\ HandSound /\ ChannelSound
  BY DEF BackfillInv, QueueInv, TypeInv
<1>2. /\ uploaded' = uploaded \cup {u} /\ uploaded' \in SUBSET Videos
      /\ UNCHANGED <<source, baseline, inserted, withdrawn, pc, queue, chan, entries,
                     sawBaseline, preexisting>>
  BY <1>1 DEF Upload, TypeOK, channelState, videosTable, read
<1>3. ChannelSound'
  BY <1>1, <1>2 DEF ChannelSound, AtWork, Slug, Tracked
<1>4. ASSUME NEW s \in Slugs, NEW v \in preexisting[s],
             v \notin Window(source[s], There)
      PROVE  v \notin Window(source[s], There')
  <2>1. /\ There \in SUBSET Videos /\ There' \in SUBSET Videos /\ There \subseteq There'
        /\ v \in There \/ v \notin There'
    BY <1>1, <1>2 DEF TypeOK, ChannelSound, There
  <2>2. CASE v \in There
    BY <1>2, <1>4, <2>1, <2>2, WindowMoves DEF NothingComesBack
  <2>3. CASE v \notin There'
    BY <2>3 DEF Window, On
  <2> QED
    BY <2>1, <2>2, <2>3
<1>5. \A s \in Slugs : baseline'[s] => PastSound(s)'
  BY <1>2, <1>4 DEF BackfillInv, PastSound
<1>6. ASSUME NEW t \in Pollers
      PROVE  FetchSound(t)'
  <2>1. UNCHANGED Slug(t) /\ FetchSound(t)
    BY <1>2 DEF Slug, BackfillInv
  <2>2. AtWork(t) => Slug(t) \in Slugs
    BY <1>1, SlugType
  <2> QED
    BY <1>2, <1>4, <2>1, <2>2 DEF FetchSound, AtWork
<1> QED
  BY <1>3, <1>5, <1>6

\* A withdrawal takes a video from the listings of playlists.
LEMMA BackfillWithdraw ==
  ASSUME NothingComesBack, BackfillInv, NEW u \in Videos, Withdraw(u)
  PROVE  /\ ChannelSound'
         /\ \A s \in Slugs : baseline'[s] => PastSound(s)'
         /\ \A t \in Pollers : FetchSound(t)'
<1>1. TypeOK /\ HandSound /\ ChannelSound
  BY DEF BackfillInv, QueueInv, TypeInv
<1>2. /\ There \in SUBSET Videos /\ There' \in SUBSET There
      /\ UNCHANGED <<source, baseline, inserted, uploaded, pc, queue, chan, entries,
                     sawBaseline, preexisting>>
  BY <1>1 DEF Withdraw, There, TypeOK, channelState, videosTable, read
<1>3. ChannelSound'
  BY <1>1, <1>2 DEF ChannelSound, AtWork, Slug, Tracked
<1>4. ASSUME NEW s \in Slugs, NEW v \in preexisting[s],
             v \notin Window(source[s], There)
      PROVE  v \notin Window(source[s], There')
  <2>1. source[s] \in Playlists \cup {NoSource}
    BY <1>1 DEF Withdraw, NothingComesBack, TypeOK
  <2> QED
    BY <1>2, <1>4, <2>1, WindowShrinks
<1>5. \A s \in Slugs : baseline'[s] => PastSound(s)'
  BY <1>2, <1>4 DEF BackfillInv, PastSound
<1>6. ASSUME NEW t \in Pollers
      PROVE  FetchSound(t)'
  <2>1. UNCHANGED Slug(t) /\ FetchSound(t)
    BY <1>2 DEF Slug, BackfillInv
  <2>2. AtWork(t) => Slug(t) \in Slugs
    BY <1>1, SlugType
  <2> QED
    BY <1>2, <1>4, <2>1, <2>2 DEF FetchSound, AtWork
<1> QED
  BY <1>3, <1>5, <1>6

LEMMA BackfillChannel ==
  ASSUME NothingComesBack, BackfillInv, NEW s \in Slugs, NEW src \in Sources, AddChannel(s, src)
  PROVE  /\ ChannelSound'
         /\ \A r \in Slugs : baseline'[r] => PastSound(r)'
         /\ \A t \in Pollers : FetchSound(t)'
<1>1. TypeOK /\ HandSound /\ ChannelSound
  BY DEF BackfillInv, QueueInv, TypeInv
<1>2. /\ source' = [source EXCEPT ![s] = src]
      /\ preexisting' = [preexisting EXCEPT ![s] = On(src, uploaded)]
      /\ source[s] = NoSource
      /\ UNCHANGED <<baseline, inserted, uploaded, withdrawn, pc, queue, chan, entries, sawBaseline>>
  BY DEF AddChannel, Tracked, channelState, videosTable, youtube, read
<1>3. \A t \in Pollers : UNCHANGED Slug(t) /\ (AtWork(t) => Slug(t) \in Slugs /\ Slug(t) # s)
  BY <1>1, <1>2, SourcesAssumption DEF HandSound, Channels, ChannelSound, AtWork, Slug
<1>4. \A r \in Slugs : r # s => source'[r] = source[r] /\ preexisting'[r] = preexisting[r]
  BY <1>1, <1>2 DEF TypeOK
<1>5. ~baseline[s]
  BY <1>1, <1>2 DEF ChannelSound, Tracked
<1>6. ChannelSound'
  <2>1. \A t \in Pollers : \A c \in queue[t] : c[1] \in Slugs /\ c[1] # s
    BY <1>1, <1>2, SourcesAssumption DEF TypeOK, ChannelSound
  <2>2. \A t \in Pollers : \A c \in queue'[t] : c[2] = source'[c[1]]
    BY <1>1, <1>2, <1>4, <2>1 DEF ChannelSound
  <2>3. \A t \in Pollers : AtWork(t)' => chan'[t][2] = source'[Slug(t)']
    BY <1>1, <1>2, <1>3, <1>4 DEF ChannelSound, AtWork
  <2>4. \A r \in Slugs : preexisting'[r] \subseteq uploaded'
    BY <1>1, <1>2, <1>4 DEF ChannelSound, On, TypeOK
  <2>5. \A r \in Slugs : baseline'[r] => source'[r] # NoSource
    BY <1>1, <1>2, <1>4, <1>5 DEF ChannelSound, Tracked
  <2> QED
    BY <1>1, <1>2, <2>2, <2>3, <2>4, <2>5 DEF ChannelSound, Tracked
<1>7. \A r \in Slugs : baseline'[r] => PastSound(r)'
  BY <1>2, <1>4, <1>5 DEF BackfillInv, PastSound, There
<1>8. \A t \in Pollers : FetchSound(t)'
  <2>1. UNCHANGED There
    BY <1>2 DEF There
  <2> QED
    BY <1>2, <1>3, <1>4, <2>1 DEF BackfillInv, FetchSound, AtWork
<1> QED
  BY <1>6, <1>7, <1>8

LEMMA BackfillStep ==
  ASSUME NothingComesBack, BackfillInv, [Next]_vars
  PROVE  BackfillInv'
<1> USE DEF BackfillInv
<1>1. QueueInv'
  BY StepType, SawStep, RowsStep DEF QueueInv
<1> DEFINE Rest == /\ ChannelSound
                   /\ \A s \in Slugs : baseline[s] => PastSound(s)
                   /\ \A t \in Pollers : FetchSound(t)
<1>2. ASSUME NEW t \in Pollers, Poll(t)
      PROVE  Rest'
  BY <1>2, BackfillPoll, BackfillChannels
<1>3. ASSUME NEW t \in Pollers, StartPoll(t)
      PROVE  Rest'
  <2>1. /\ queue' = [queue EXCEPT ![t] = {<<s, source[s]>> : s \in Tracked}]
        /\ pc[t] = "idle" /\ pc' = [pc EXCEPT ![t] = "next"]
        /\ UNCHANGED <<source, baseline, inserted, uploaded, withdrawn, chan, entries, sawBaseline,
                       preexisting>>
    BY <1>3 DEF StartPoll, Goto, channelState, videosTable, youtube, read
  <2>2. \A u \in Pollers : UNCHANGED Slug(u) /\ (u = t \/ UNCHANGED <<pc[u], queue[u]>>)
    BY <2>1 DEF Slug, QueueInv, TypeInv, TypeOK
  <2>3. pc'[t] = "next" /\ queue'[t] = {<<s, source[s]>> : s \in Tracked}
    BY <2>1 DEF QueueInv, TypeInv, TypeOK
  <2>4. ChannelSound'
    BY <2>1, <2>2, <2>3 DEF ChannelSound, AtWork, Tracked
  <2>5. \A s \in Slugs : baseline'[s] => PastSound(s)'
    BY <2>1 DEF PastSound, There
  <2>6. \A u \in Pollers : FetchSound(u)'
    <3>1. UNCHANGED There
      BY <2>1 DEF There
    <3> QED
      BY <2>1, <2>2, <2>3, <3>1 DEF FetchSound
  <2> QED
    BY <2>4, <2>5, <2>6
<1>4. ASSUME NEW v \in Videos, Upload(v) \/ Withdraw(v)
      PROVE  Rest'
  BY <1>4, BackfillUpload, BackfillWithdraw
<1>5. ASSUME NEW s \in Slugs, NEW src \in Sources, AddChannel(s, src)
      PROVE  Rest'
  BY <1>5, BackfillChannel
<1>6. CASE Restart
  <2>1. /\ pc' = [t \in Pollers |-> "idle"] /\ queue' = [t \in Pollers |-> {}]
        /\ UNCHANGED <<baseline, inserted, uploaded, withdrawn>>
        /\ IF Tracked = {}
           THEN source' = Config /\ preexisting' = [s \in Slugs |-> On(Config[s], uploaded)]
           ELSE UNCHANGED <<source, preexisting>>
    BY <1>6 DEF Restart, channelState, videosTable, youtube
  <2>2. \A t \in Pollers : FetchSound(t)'
    BY <2>1 DEF FetchSound
  <2>3. Tracked = {} => \A s \in Slugs : ~baseline[s]
    BY DEF ChannelSound
  <2>4. \A s \in Slugs : baseline'[s] => PastSound(s)'
    BY <2>1, <2>3 DEF PastSound, There
  <2>5. ChannelSound'
    BY <2>1, <2>3 DEF ChannelSound, AtWork, Tracked, On
  <2> QED
    BY <1>1, <2>2, <2>4, <2>5
<1>7. CASE UNCHANGED vars \/ \E s \in Slugs : BackoffExpires(s)
  <2>1. UNCHANGED <<source, baseline, inserted, uploaded, withdrawn, pc, queue, chan, entries,
                    sawBaseline, preexisting>>
    BY <1>7 DEF vars, BackoffExpires, channelState, videosTable, youtube, read
  <2>2. ChannelSound'
    BY <2>1 DEF ChannelSound, AtWork, Slug, Tracked
  <2>3. \A s \in Slugs : baseline'[s] => PastSound(s)'
    BY <2>1 DEF PastSound, There
  <2>4. \A t \in Pollers : FetchSound(t)'
    BY <2>1 DEF FetchSound, Slug, There
  <2> QED
    BY <1>1, <2>2, <2>3, <2>4
<1>8. \A s \in Slugs : ~DeleteChannel(s)
  BY DEF NothingComesBack, DeleteChannel
<1> QED
  BY <1>1, <1>2, <1>3, <1>4, <1>5, <1>6, <1>7, <1>8 DEF Next

(* README.md: "no history backfill".  However many polls overlap, fail and *)
(* are cut short, nothing a source had when it was added is queued, as     *)
(* long as no channel is removed, and no video withdrawn from one that is  *)
(* seen through the window of its RSS feed.                                *)
THEOREM HistoryStaysOut ==
  ASSUME NothingComesBack
  PROVE  Spec => NoBackfill
<1>1. ASSUME BackfillInv, [Next]_vars, NEW v \in Videos,
             inserted[v] = "absent", inserted'[v] = "pending"
      PROVE  v \notin preexisting[rowSlug'[v]]
  <2>1. PICK t \in Pollers : InsertBaseline(t) \/ InsertNew(t)
    BY <1>1, RowSteps DEF videosTable
  <2>2. TypeOK /\ HandSound
    BY <1>1 DEF BackfillInv, QueueInv, TypeInv
  <2>3. ~InsertBaseline(t)
    BY <1>1, <2>2 DEF InsertBaseline, InsertVideos, TypeOK
  <2>4. InsertNew(t) /\ pc[t] = "insert" /\ sawBaseline[t]
    BY <1>1, <2>1, <2>3 DEF InsertNew, Goto, BackfillInv, QueueInv, SawSound
  <2>5. v \in entries[t] /\ rowSlug'[v] = Slug(t)
    BY <1>1, <2>2, <2>4 DEF InsertNew, InsertVideos, NewRows, TypeOK
  <2>6. \A w \in preexisting[Slug(t)] \cap entries[t] : inserted[w] # "absent"
    BY <1>1, <2>4 DEF BackfillInv, FetchSound
  <2> QED
    BY <1>1, <2>5, <2>6
<1>2. BackfillInv /\ [Next]_vars =>
        [\A v \in Videos :
            inserted[v] = "absent" /\ inserted'[v] = "pending" =>
                v \notin preexisting[rowSlug'[v]]]_vars
  BY <1>1
<1> QED
  BY <1>2, BackfillInit, BackfillStep, PTL DEF Spec, NoBackfill

-----------------------------------------------------------------------------
(* A poll ends: the part of it that needs no fairness.                     *)

\* The most steps a poll at `label` can still take, with n channels to go.
Ahead(label, n) ==
    IF label = "idle" THEN 0
    ELSE 1 + 6 * n
           + (IF label = "reset" THEN 5
              ELSE IF label = "fetch" THEN 4
              ELSE IF label = "success" THEN 3
              ELSE IF label = "known" THEN 2
              ELSE IF label \in {"baseline", "insert", "failure"} THEN 1
              ELSE 0)

StepsLeft(t) == Ahead(pc[t], Cardinality(queue[t]))

\* Every step of a poll leaves it fewer to take, and nothing but its start
\* gives a thread more; to start with there are six for each channel, and one.
PollsRunOut ==
    [][\A t \in Pollers :
          /\ StepsLeft(t) \in Nat
          /\ Poll(t) => StepsLeft(t)' < StepsLeft(t)
          /\ StartPoll(t) => StepsLeft(t)' <= 1 + 6 * Cardinality(Slugs)
          /\ StartPoll(t) \/ StepsLeft(t)' <= StepsLeft(t)]_vars

\* list_channels returned finitely many.
QueueFinite == \A t \in Pollers : IsFiniteSet(queue[t])

FiniteInv == TypeInv /\ QueueFinite

LEMMA TrackedFinite ==
  ASSUME IsFiniteSet(Slugs)
  PROVE  LET q == {<<s, source[s]>> : s \in Tracked} IN
         IsFiniteSet(q) /\ Cardinality(q) \in Nat /\ Cardinality(q) <= Cardinality(Slugs)
<1> DEFINE q == {<<s, source[s]>> : s \in Tracked}
           f == [s \in Tracked |-> <<s, source[s]>>]
<1>1. IsFiniteSet(Tracked) /\ Cardinality(Tracked) <= Cardinality(Slugs)
  BY FS_Subset DEF Tracked
<1>2. f \in Surjection(Tracked, q)
  BY DEF Surjection
<1> HIDE DEF q, f
<1>3. IsFiniteSet(q) /\ Cardinality(q) <= Cardinality(Tracked)
  BY <1>1, <1>2, FS_Surjection
<1>4. /\ Cardinality(q) \in Nat /\ Cardinality(Tracked) \in Nat /\ Cardinality(Slugs) \in Nat
  BY <1>1, <1>3, FS_CardinalityType
<1> QED
  BY <1>1, <1>3, <1>4 DEF q

\* What each step does to the label and the list.
LEMMA PollMoves ==
  ASSUME TypeInv, NEW t \in Pollers, Poll(t)
  PROVE  \/ /\ pc[t] = "next" /\ pc'[t] \in {"next", "reset", "fetch"}
            /\ \E c \in queue[t] : queue'[t] = queue[t] \ {c}
         \/ /\ queue'[t] = queue[t]
            /\ <<pc[t], pc'[t]>> \in
                  {<<"reset", "fetch">>, <<"fetch", "success">>, <<"fetch", "failure">>,
                   <<"success", "known">>, <<"success", "baseline">>, <<"known", "insert">>,
                   <<"failure", "next">>, <<"baseline", "next">>, <<"insert", "next">>,
                   <<"next", "idle">>}
<1> USE DEF Goto, TypeInv, TypeOK
<1>1. CASE CheckBackoff(t)
  <2>1. PICK c \in queue[t] : CheckBackoff(t)!(c)
    BY <1>1 DEF CheckBackoff
  <2> QED
    BY <2>1 DEF AfterCheck
<1>2. CASE ~CheckBackoff(t)
  BY <1>2 DEF Poll, ExpiredBackoff, FetchSucceeds, FetchFails, RecordFailure, RecordSuccess,
              InsertBaseline, ReadKnown, InsertNew, PollDone
<1> QED
  BY <1>1, <1>2

\* A poller's label and list are its own; a restart clears them.
LEMMA OthersLeaveList ==
  ASSUME TypeInv, [Next]_vars, NEW t \in Pollers, ~StartPoll(t), ~Poll(t)
  PROVE  \/ pc'[t] = pc[t] /\ queue'[t] = queue[t]
         \/ pc'[t] = "idle" /\ queue'[t] = {}
<1>1. ASSUME NEW u \in Pollers, u # t, StartPoll(u) \/ Poll(u)
      PROVE  pc'[t] = pc[t] /\ queue'[t] = queue[t]
  BY <1>1
  DEF StartPoll, Poll, CheckBackoff, ExpiredBackoff, FetchSucceeds, FetchFails, RecordFailure,
      RecordSuccess, InsertBaseline, ReadKnown, InsertNew, PollDone, Goto, TypeInv, TypeOK
<1>2. CASE Restart
  BY <1>2 DEF Restart
<1>3. ASSUME \/ \E s \in Slugs : DeleteChannel(s) \/ BackoffExpires(s)
             \/ \E s \in Slugs, src \in Sources : AddChannel(s, src)
             \/ \E v \in Videos : Upload(v) \/ Withdraw(v)
             \/ UNCHANGED vars
      PROVE  pc'[t] = pc[t] /\ queue'[t] = queue[t]
  BY <1>3 DEF DeleteChannel, BackoffExpires, AddChannel, Upload, Withdraw, vars
<1> QED
  BY <1>1, <1>2, <1>3 DEF Next

LEMMA FiniteInit == Init => FiniteInv
  BY InitType, FS_EmptySet DEF Init, FiniteInv, QueueFinite

LEMMA FiniteStep ==
  ASSUME IsFiniteSet(Slugs)
  PROVE  FiniteInv /\ [Next]_vars => FiniteInv'
<1> SUFFICES ASSUME FiniteInv, [Next]_vars, NEW t \in Pollers
             PROVE  IsFiniteSet(queue'[t])
  BY StepType DEF FiniteInv, QueueFinite
<1>1. CASE StartPoll(t)
  BY <1>1, TrackedFinite DEF StartPoll, FiniteInv, TypeInv, TypeOK
<1>2. CASE Poll(t)
  <2>1. queue'[t] \subseteq queue[t]
    BY <1>2, PollMoves DEF FiniteInv
  <2> QED
    BY <2>1, FS_Subset DEF FiniteInv, QueueFinite
<1>3. CASE ~StartPoll(t) /\ ~Poll(t)
  BY <1>3, OthersLeaveList, FS_EmptySet DEF FiniteInv, QueueFinite
<1> QED
  BY <1>1, <1>2, <1>3

LEMMA StepsLeftType ==
  ASSUME NEW label, NEW n \in Nat
  PROVE  Ahead(label, n) \in Nat
  BY DEF Ahead

LEMMA PollTakesOne ==
  ASSUME FiniteInv, NEW t \in Pollers, Poll(t)
  PROVE  StepsLeft(t)' < StepsLeft(t)
<1> DEFINE n == Cardinality(queue[t])
           m == Cardinality(queue'[t])
<1>1. n \in Nat /\ IsFiniteSet(queue[t])
  BY FS_CardinalityType DEF FiniteInv, QueueFinite
<1>2. StepsLeft(t) = Ahead(pc[t], n) /\ StepsLeft(t)' = Ahead(pc'[t], m)
  BY DEF StepsLeft, Ahead
<1>3. ASSUME NEW c \in queue[t], queue'[t] = queue[t] \ {c},
             pc[t] = "next", pc'[t] \in {"next", "reset", "fetch"}
      PROVE  StepsLeft(t)' < StepsLeft(t)
  <2>1. IsFiniteSet(queue'[t]) /\ m = n - 1
    BY <1>1, <1>3, FS_RemoveElement
  <2>2. m \in Nat
    BY <2>1, FS_CardinalityType
  <2> HIDE DEF n, m
  <2> QED
    BY <1>1, <1>2, <1>3, <2>1, <2>2 DEF Ahead
<1>4. ASSUME queue'[t] = queue[t],
             <<pc[t], pc'[t]>> \in
                {<<"reset", "fetch">>, <<"fetch", "success">>, <<"fetch", "failure">>,
                 <<"success", "known">>, <<"success", "baseline">>, <<"known", "insert">>,
                 <<"failure", "next">>, <<"baseline", "next">>, <<"insert", "next">>,
                 <<"next", "idle">>}
      PROVE  StepsLeft(t)' < StepsLeft(t)
  <2>1. m = n
    BY <1>4
  <2> HIDE DEF n, m
  <2> QED
    BY <1>1, <1>2, <1>4, <2>1 DEF Ahead
<1> QED
  BY <1>3, <1>4, PollMoves DEF FiniteInv

(* poll_all_channels comes to an end, whatever channels are added or       *)
(* removed and whatever YouTube does meanwhile: it works through the list  *)
(* it has read, in at most six steps for each channel.                     *)
THEOREM PollsAreFinite ==
  ASSUME IsFiniteSet(Slugs)
  PROVE  Spec => PollsRunOut
<1>1. ASSUME FiniteInv, FiniteInv', [Next]_vars, NEW t \in Pollers
      PROVE  /\ StepsLeft(t) \in Nat
             /\ Poll(t) => StepsLeft(t)' < StepsLeft(t)
             /\ StartPoll(t) => StepsLeft(t)' <= 1 + 6 * Cardinality(Slugs)
             /\ StartPoll(t) \/ StepsLeft(t)' <= StepsLeft(t)
  <2>1. Cardinality(queue[t]) \in Nat
    BY <1>1, FS_CardinalityType DEF FiniteInv, QueueFinite
  <2>2. StepsLeft(t) \in Nat
    BY <2>1, StepsLeftType DEF StepsLeft
  <2>3. StepsLeft(t)' = Ahead(pc'[t], Cardinality(queue'[t]))
    BY DEF StepsLeft, Ahead
  <2>4. CASE StartPoll(t)
    <3>1. pc'[t] = "next" /\ queue'[t] = {<<s, source[s]>> : s \in Tracked}
      BY <1>1, <2>4 DEF StartPoll, Goto, FiniteInv, TypeInv, TypeOK
    <3>2. Cardinality(queue'[t]) \in Nat /\ Cardinality(queue'[t]) <= Cardinality(Slugs)
      BY <3>1, TrackedFinite
    <3>3. ~Poll(t)
      BY <1>1, <2>4, PollMoves DEF StartPoll, Goto, FiniteInv
    <3> QED
      BY <2>2, <2>3, <2>4, <3>1, <3>2, <3>3, FS_CardinalityType DEF Ahead
  <2>5. CASE Poll(t)
    <3>1. ~StartPoll(t)
      BY <1>1, <2>5, PollMoves DEF StartPoll, Goto, FiniteInv
    <3>2. StepsLeft(t)' < StepsLeft(t)
      BY <1>1, <2>5, PollTakesOne
    <3>3. StepsLeft(t)' \in Nat
      <4>1. Cardinality(queue'[t]) \in Nat
        BY <1>1, FS_CardinalityType DEF FiniteInv, QueueFinite
      <4> QED
        BY <2>3, <4>1, StepsLeftType
    <3> QED
      BY <2>2, <2>5, <3>1, <3>2, <3>3
  <2>6. CASE ~StartPoll(t) /\ ~Poll(t)
    <3>1. StepsLeft(t)' = StepsLeft(t) \/ StepsLeft(t)' = 0
      BY <1>1, <2>3, <2>6, OthersLeaveList DEF StepsLeft, Ahead, FiniteInv
    <3> QED
      BY <2>2, <2>6, <3>1
  <2> QED
    BY <2>4, <2>5, <2>6
<1>2. FiniteInv /\ FiniteInv' /\ [Next]_vars =>
        [\A t \in Pollers :
            /\ StepsLeft(t) \in Nat
            /\ Poll(t) => StepsLeft(t)' < StepsLeft(t)
            /\ StartPoll(t) => StepsLeft(t)' <= 1 + 6 * Cardinality(Slugs)
            /\ StartPoll(t) \/ StepsLeft(t)' <= StepsLeft(t)]_vars
  BY <1>1
<1> QED
  BY <1>2, FiniteInit, FiniteStep, PTL DEF Spec, PollsRunOut
=============================================================================
