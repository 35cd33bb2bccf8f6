----------------------------- MODULE SyncSession ----------------------------
(***************************************************************************)
(* What the admin UI is promised about a sync: it goes through its phases  *)
(* in order, finishes items one by one in each, cannot be started over or  *)
(* dismissed while it runs, and leaves a summary until that is dismissed,  *)
(* grows old, or a new sync begins.                                        *)
(***************************************************************************)
EXTENDS Naturals

VARIABLES
    stage,      \* idle, polling, processing or done
    finished    \* items finished in this stage

Init == stage = "idle" /\ finished = 0

Start == stage \in {"idle", "done"} /\ stage' = "polling" /\ finished' = 0

FinishItem ==
    /\ stage \in {"polling", "processing"}
    /\ finished' = finished + 1
    /\ UNCHANGED stage

GoOn == stage = "polling" /\ stage' = "processing" /\ finished' = 0

End == stage \in {"polling", "processing"} /\ stage' = "done" /\ UNCHANGED finished

\* Dismissed, or grown old.
Forget == stage = "done" /\ stage' = "idle" /\ finished' = 0

Next == Start \/ FinishItem \/ GoOn \/ End \/ Forget

Spec == Init /\ [][Next]_<<stage, finished>>
=============================================================================
