-------------------------- MODULE EpisodeLifecycle --------------------------
(***************************************************************************)
(* The life of an episode as the documentation tells it, without threads,  *)
(* snapshots or files: README.md ("Resilience & hardening", "Admin web     *)
(* UI") and docs/retention.md.  Episodes implements it as long as jobs run *)
(* one after the other.                                                    *)
(***************************************************************************)
EXTENDS Naturals

CONSTANTS
    Videos,
    DiscoverAs,  \* what a newly listed video may be recorded as
    MaxRetries   \* automatic retries of a failed episode

VARIABLES
    phase,       \* where each episode is
    retries      \* automatic retries spent on it

Asleep == {"baseline", "skipped_short", "deleted"}

Init ==
    /\ phase = [v \in Videos |-> "absent"]
    /\ retries = [v \in Videos |-> 0]

Move(v, from, to) ==
    /\ phase[v] \in from
    /\ phase' = [phase EXCEPT ![v] = to]
    /\ UNCHANGED retries

\* A poll finds any number of new videos at once.
Discover(vs) ==
    /\ \A v \in vs : phase[v] = "absent"
    /\ \E found \in [vs -> DiscoverAs] :
          phase' = [v \in Videos |-> IF v \in vs THEN found[v] ELSE phase[v]]
    /\ UNCHANGED retries

\* Somebody presses Queue, or Retry on a failed episode.
Ask(v) == Move(v, Asleep \cup {"failed"}, "pending")

\* One episode is downloaded at a time.
Begin(v) ==
    /\ \A w \in Videos : phase[w] # "downloading"
    /\ Move(v, {"pending"}, "downloading")

Succeed(v) == Move(v, {"downloading"}, "done")

GiveUp(v) == Move(v, {"downloading"}, "failed")

\* The daily retry takes any number of failed episodes at once.
RetryDaily(vs) ==
    /\ \A v \in vs : phase[v] = "failed" /\ retries[v] < MaxRetries
    /\ phase' = [v \in Videos |-> IF v \in vs THEN "pending" ELSE phase[v]]
    /\ retries' = [v \in Videos |-> IF v \in vs THEN retries[v] + 1 ELSE retries[v]]

\* Deleted by hand, in any phase but a download's, or by retention.
Delete(v) ==
    Move(v, {"pending", "done", "failed"} \cup Asleep, "deleted")

Next ==
    \/ \E v \in Videos :
          Ask(v) \/ Begin(v) \/ Succeed(v) \/ GiveUp(v) \/ Delete(v)
    \/ \E vs \in SUBSET Videos : Discover(vs) \/ RetryDaily(vs)

Spec == Init /\ [][Next]_<<phase, retries>>
=============================================================================
