---------------------------- MODULE MCPodmachine ----------------------------
(* Instances of Podmachine for TLC.                                        *)
EXTENDS Podmachine, TLC

CONSTANTS v1, v2, c1, sched, web, ch

OneChannel == [v \in Videos |-> c1]
Order == [v \in Videos |-> IF v = v1 THEN 1 ELSE 2]
OnChannel == [v \in Videos |-> {ch}]
Configured == [c \in Channels |-> ch]

\* The scheduler next to what is clicked in the admin UI.
CycleAndUI == [t \in Threads |-> IF t = sched THEN {"cycle"}
                                 ELSE {"process", "delete"}]
=============================================================================
