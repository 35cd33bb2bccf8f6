----------------------------- MODULE MCEpisodes -----------------------------
(* Instances of Episodes for TLC.                                          *)
EXTENDS EpisodeProperties, TLC

CONSTANTS v1, v2, v3, c1, sched, run, web

OneChannel == [v \in Videos |-> c1]
Ranks == [v \in Videos |-> IF v = v1 THEN 1 ELSE IF v = v2 THEN 2 ELSE 3]

\* One thread that does everything.
Sequential == [t \in Threads |-> Jobs]

\* The scheduler's cycle next to whatever is clicked in the admin UI.
CycleAndUI == [t \in Threads |-> IF t = sched THEN {"cycle"}
                                 ELSE {"process", "retry", "queue", "delete"}]

\* The same with POST /run, whose cycle overlaps the scheduled one.
CycleAndAll == [t \in Threads |-> IF t = sched THEN {"cycle"} ELSE Jobs]

AllCycles == [t \in Threads |-> {"cycle"}]
=============================================================================
