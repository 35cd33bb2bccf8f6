----------------------------- MODULE Discovery ------------------------------
(***************************************************************************)
(* What the poller promises about the rows it inserts: a slug is first     *)
(* watched at one moment, everything it listed then is 'baseline', and     *)
(* what it lists for the first time later is queued or skipped, never      *)
(* 'baseline'.  A row, once inserted, is never inserted again.             *)
(***************************************************************************)
CONSTANTS Videos, Slugs, NoSlug

VARIABLES
    watched,   \* the slugs whose baseline is established
    status,    \* what each video was recorded as
    slug       \* and for which slug

Init ==
    /\ watched = [s \in Slugs |-> FALSE]
    /\ status = [v \in Videos |-> "absent"]
    /\ slug = [v \in Videos |-> NoSlug]

Record(s, vs, how) ==
    /\ \A v \in vs : status[v] = "absent"
    /\ \A v \in Videos :
          IF v \in vs THEN status'[v] \in how /\ slug'[v] = s
                      ELSE status'[v] = status[v] /\ slug'[v] = slug[v]

Establish(s, vs) ==
    /\ ~watched[s]
    /\ watched' = [watched EXCEPT ![s] = TRUE]
    /\ Record(s, vs, {"baseline"})

Find(s, vs) ==
    /\ watched[s]
    /\ Record(s, vs, {"pending", "skipped_short"})
    /\ UNCHANGED watched

Next == \E s \in Slugs, vs \in SUBSET Videos : Establish(s, vs) \/ Find(s, vs)

Spec == Init /\ [][Next]_<<watched, status, slug>>
=============================================================================
