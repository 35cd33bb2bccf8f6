----------------------- MODULE ChannelAdminProperties -----------------------
(***************************************************************************)
(* What ChannelAdmin promises.                                             *)
(***************************************************************************)
EXTENDS ChannelAdmin

RequestLabels == {"unique", "check", "insert", "remove", "category", "retention"}
CycleLabels == {"artwork", "avatar", "open", "write", "record", "default", "retain"}

Rows == [slug : Slugs, id : Sources, retention : Policies \cup {NoOverride}]

Forms == [id : Sources \cup {NoSource}, slug : Slugs \cup Names \cup {NoSlug},
          policy : Policies \cup {NoOverride}, try : Nat \ {0}]

Runs == [list : SUBSET Rows, todo : SUBSET Rows, hand : Rows \cup {NoRow}, fallback : Policies]

(* Type correctness.                                                       *)
TypeOK ==
    /\ source \in [Slugs -> Sources \cup {NoSource}]
    /\ override \in [Slugs -> Policies \cup {NoOverride}]
    /\ default \in Policies \cup {NoDefault}
    /\ avatar \in [Slugs -> BOOLEAN]
    /\ image \in [Slugs -> Sources \cup {"none", "partial"}]
    /\ server \in {"down", "default", "up"}
    /\ pc \in [Threads -> RequestLabels \cup CycleLabels \cup {"idle"}]
    /\ req \in [Threads -> Forms]
    /\ run \in [Threads -> Runs]
    /\ requests \in 0..MaxRequests /\ faults \in 0..MaxFaults
    /\ wiped \subseteq Slugs
    /\ inForce \in [Cycles -> [Slugs -> SUBSET Policies]]
    /\ touched \in [Cycles -> SUBSET (Slugs \cup {NoSlug})]

Tracks == INSTANCE Tracking
             WITH channel <- source, policy <- override, running <- server # "down",
                  Seed <- Config, SeedOverride <- ConfigOverride

(* However requests overlap, between unique_slug's SELECT and the INSERT,  *)
(* or with a removal in between a settings form and its UPDATE: no two     *)
(* channels share a slug or an id, no row is replaced, and an UPDATE       *)
(* brings no row back; a channel starts without an override (a settings    *)
(* form for one that had its slug before can still reach it later: the     *)
(* UPDATE names the slug only); nothing changes while no process runs, and *)
(* config.yaml is imported by a start that finds the table empty and by no *)
(* other.  That is each such start: channels.py's "one-time bootstrap" is  *)
(* not claimed, since a restart after the last channel's removal makes it  *)
(* again.                                                                  *)
ImplementsTracking == Tracks!Spec

(* The cover the feed links to is whole, although the path is recorded in  *)
(* one commit, the file written before it, and either can be interrupted:  *)
(* only a picture that had to be fetched again, its file having been       *)
(* removed, can be missing or torn.  (Cycles that do not overlap.)         *)
ArtworkWhole ==
    \A s \in Slugs : FeedImage(s) \in Sources \cup {"thumbnail"} \/ s \in wiped

(* scheduler.py reads a channel's override before all downloads and the    *)
(* default after them.  Unless both were changed meanwhile, the policy a   *)
(* cycle applies to a channel is one that was in force for it at some      *)
(* moment of that cycle: changing one of the two settings never has        *)
(* episodes removed that neither the old nor the new settings remove.      *)
AppliedPolicy ==
    \A t \in Cycles :
        pc[t] = "retain" =>
            \A c \in run[t].todo :
                \/ AppliedTo(t, c) \in inForce[t][c.slug]
                \/ {c.slug, NoSlug} \subseteq touched[t]

\* A torn picture whose path is recorded, and that nobody is writing: is_file()
\* takes it for a good one from now on.
TornForGood(s) ==
    /\ avatar[s] /\ image[s] = "partial"
    /\ \A t \in Cycles : ~(pc[t] = "write" /\ run[t].hand.slug = s)

(* "Simply retried next cycle" (artwork.py): whatever was cut short before *)
(* (a fetch, a write, the commit of the path), or was removed by hand,     *)
(* there comes a time, again and again, when each tracked channel's feed   *)
(* has a whole picture as its cover.  The one exception takes two faults:  *)
(* the file of a recorded path is removed, and then its second write fails *)
(* half way.                                                               *)
ArtworkFetched ==
    []<>(\A s \in Tracked : FeedImage(s) \in Sources \/ (s \in wiped /\ TornForGood(s)))

(* Every request returns, also an add whose slugs others are taking.       *)
RequestsEnd == \A t \in Admins : pc[t] # "idle" ~> pc[t] = "idle"
=============================================================================
