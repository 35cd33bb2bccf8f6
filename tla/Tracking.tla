------------------------------ MODULE Tracking ------------------------------
(***************************************************************************)
(* Which channels are tracked: the program's process starts and stops; as  *)
(* it starts, an empty table is filled from config.yaml and any other is   *)
(* left alone; while it runs, channels are edited through the admin UI.  A *)
(* slug stands for one source and a source has one slug, whoever else is   *)
(* adding channels; nobody's channel is replaced; a row that is gone stays *)
(* gone until it is added again.                                           *)
(*                                                                         *)
(* Two things this does not promise, because the program does not keep     *)
(* them.  README.md, channels.py and db.py call the import one-time ("the  *)
(* first time it's empty"); here, as in the code, every start that finds   *)
(* the table empty makes it, so one that follows the removal of the last   *)
(* channel brings config.yaml's back.  And Change does not say which       *)
(* channel the change was meant for, only which slug.                      *)
(***************************************************************************)
CONSTANTS
    Slugs, Sources, Policies,
    Seed, SeedOverride,   \* config.yaml
    NoSource, NoOverride

VARIABLES channel, policy, running

Unused(s, src) == channel[s] = NoSource /\ \A r \in Slugs : channel[r] # src

Init ==
    /\ channel = [s \in Slugs |-> NoSource]
    /\ policy = [s \in Slugs |-> NoOverride]
    /\ running = FALSE

Start ==
    /\ ~running /\ running' = TRUE
    /\ IF \A s \in Slugs : channel[s] = NoSource
       THEN channel' = Seed /\ policy' = SeedOverride
       ELSE UNCHANGED <<channel, policy>>

Stop == running /\ running' = FALSE /\ UNCHANGED <<channel, policy>>

Add(s, src) ==
    /\ running /\ Unused(s, src)
    /\ channel' = [channel EXCEPT ![s] = src]
    /\ policy' = [policy EXCEPT ![s] = NoOverride]
    /\ UNCHANGED running

Remove(s) ==
    /\ running
    /\ channel' = [channel EXCEPT ![s] = NoSource]
    /\ policy' = [policy EXCEPT ![s] = NoOverride]
    /\ UNCHANGED running

Change(s, p) ==
    /\ running /\ channel[s] # NoSource
    /\ policy' = [policy EXCEPT ![s] = p]
    /\ UNCHANGED <<channel, running>>

Next ==
    \/ Start \/ Stop
    \/ \E s \in Slugs, src \in Sources : Add(s, src)
    \/ \E s \in Slugs : Remove(s)
    \/ \E s \in Slugs, p \in Policies \cup {NoOverride} : Change(s, p)

Spec == Init /\ [][Next]_<<channel, policy, running>>
=============================================================================
