--------------------------- MODULE PollerProperties -------------------------
(***************************************************************************)
(* What the poller promises.                                               *)
(***************************************************************************)
EXTENDS Poller

Labels == {"idle", "next", "reset", "fetch", "failure", "success", "baseline", "known", "insert"}

(* Type correctness.                                                       *)
TypeOK ==
    /\ source \in [Slugs -> Sources \cup {NoSource}]
    /\ baseline \in [Slugs -> BOOLEAN]
    /\ failures \in [Slugs -> Nat]
    /\ backoff \in [Slugs -> {"none", "active", "expired"}]
    /\ inserted \in [Videos -> {"absent", "baseline", "skipped_short", "pending"}]
    /\ rowSlug \in [Videos -> Slugs \cup {NoChannel}]
    /\ uploaded \subseteq Videos /\ withdrawn \subseteq Videos
    /\ pc \in [Pollers -> Labels]
    /\ queue \in [Pollers -> SUBSET (Slugs \X Sources)]
    /\ chan \in [Pollers -> (Slugs \X Sources) \cup {NoChannel}]
    /\ sawBaseline \in [Pollers -> BOOLEAN]
    /\ sawFailures \in [Pollers -> Nat]
    /\ entries \in [Pollers -> SUBSET Videos]
    /\ known \in [Pollers -> SUBSET Videos]
    /\ restarts \in Nat
    /\ preexisting \in [Slugs -> SUBSET Videos]

-----------------------------------------------------------------------------
(* Properties that hold however polls overlap.                             *)

(* Nothing is queued for a slug whose baseline is not established, not     *)
(* even by polls that overlap the first one.                               *)
QueuedAfterBaseline ==
    \A v \in Videos :
        inserted[v] \in {"pending", "skipped_short"} => baseline[rowSlug[v]]

(* The breaker is on exactly when the count says so, although a poll reads *)
(* the count in one statement and writes it back in another, and resets    *)
(* may fall in between: no channel is put aside on a clean slate, and none *)
(* goes on with a full count.                                              *)
BreakerMatchesCount ==
    \A s \in Slugs : backoff[s] # "none" <=> failures[s] >= CIRCUIT_BREAKER_THRESHOLD

(* README.md: "Only videos published after a channel is added are          *)
(* downloaded - no history backfill."                                      *)
NoBackfill ==
    [][\A v \in Videos :
          inserted[v] = "absent" /\ inserted'[v] = "pending" =>
              v \notin preexisting[rowSlug'[v]]]_vars

(* The tombstone argument of docs/retention.md: a video_id that has a row  *)
(* is never inserted again, by no poll of no channel, so a deleted episode *)
(* cannot come back as an upload.                                          *)
RecordedOnce ==
    [][\A v \in Videos :
          inserted[v] # "absent" => inserted'[v] = inserted[v] /\ rowSlug'[v] = rowSlug[v]]_vars

-----------------------------------------------------------------------------
(* Properties of polls that do not overlap.                                *)

Promise == INSTANCE Discovery
              WITH watched <- baseline, status <- inserted, slug <- rowSlug, NoSlug <- NoChannel

(* A single poller implements Discovery: one moment of baseline per slug,  *)
(* everything later is new.                                                *)
ImplementsDiscovery == Promise!Spec

(* poller.py: "Only videos discovered on later polls should ever become    *)
(* 'pending'" and the others are baseline: a video listed for the first    *)
(* time after its slug's baseline was established is not baseline.         *)
BaselineOnlyOnce ==
    [][\A v \in Videos :
          inserted[v] = "absent" /\ inserted'[v] = "baseline" => ~baseline[rowSlug'[v]]]_vars

(* The count stops where the breaker trips: an expired backoff starts from *)
(* a clean slate, "so one more failure doesn't immediately re-trigger a    *)
(* full backoff" (poller.py).                                              *)
CountStopsAtThreshold ==
    \A s \in Slugs : failures[s] <= CIRCUIT_BREAKER_THRESHOLD

(* An upload that stays listed on a tracked channel is recorded sooner or  *)
(* later, whatever polls failed in between.                                *)
UploadsFound ==
    \A v \in Videos, s \in Slugs :
        s \in Tracked /\ v \in Listing(source[s])
            ~> inserted[v] # "absent" \/ s \notin Tracked \/ v \notin Listing(source[s])

(* A channel the breaker has put aside is taken up again.                  *)
BackoffEnds ==
    \A s \in Slugs : s \in Tracked /\ backoff[s] = "active" ~> s \notin Tracked \/ backoff[s] = "none"
=============================================================================
