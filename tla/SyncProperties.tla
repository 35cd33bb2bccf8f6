--------------------------- MODULE SyncProperties ---------------------------
(***************************************************************************)
(* What the sync promises.                                                 *)
(***************************************************************************)
EXTENDS Sync, Functions

Badges == {"none", "waiting", "checking", "checked", "queued", "downloading", "downloaded", "failed"}
Labels == {"idle", "list", "poll", "checking", "select", "row", "download", "finish", "raised"}

(* Type correctness.                                                       *)
TypeOK ==
    /\ phase \in {"idle", "polling", "processing", "done"}
    /\ done \in Nat /\ total \in Nat
    /\ badge \in [Channels -> Badges]
    /\ pollErrors \subseteq Channels
    /\ downloaded \in Nat /\ failedDownloads \in Nat /\ channelsWithNew \in Nat
    /\ fatalError \in BOOLEAN /\ expired \in BOOLEAN
    /\ unrecorded \subseteq Videos /\ pending \subseteq Videos
    /\ pc \in [Runs -> Labels]
    /\ queue \in [Runs -> SUBSET Channels]
    /\ rows \in [Runs -> SUBSET Videos]
    /\ hand \in [Runs -> Channels \cup Videos \cup {Nothing}]
    /\ index \in [Runs -> Nat]
    /\ \A r \in Runs : remaining[r] \in [DOMAIN remaining[r] -> Int]
    /\ failedSlugs \in [Runs -> SUBSET Channels]
    /\ fetched \subseteq Videos /\ missed \subseteq Videos /\ disturbed \in BOOLEAN

Active == {r \in Runs : pc[r] # "idle"}

(* "Only one sync runs at a time" (test_sync.py), and the phase the UI     *)
(* sees says whether one does: two threads never write the same snapshot.  *)
OneSyncAtATime ==
    /\ \A r, s \in Active : r = s
    /\ phase \in Running <=> Active # {}

ShownDone == IF ShownPhase = "idle" THEN 0 ELSE done

Session == INSTANCE SyncSession WITH stage <- ShownPhase, finished <- ShownDone

(* What the UI shows goes through the phases in order, one item at a time, *)
(* and only a finished sync's summary goes away.                           *)
ImplementsSession == Session!Spec

(* While episodes are downloaded, the counters agree with each other:      *)
(* every episode finished is downloaded or failed and was taken off what   *)
(* its channel is waiting for, even if other jobs queued further episodes  *)
(* (then less than nothing may remain).                                    *)
CountsAddUp ==
    \A r \in Runs :
        pc[r] \in {"select", "row", "download", "finish"} /\ phase = "processing" =>
            /\ done = downloaded + failedDownloads
            /\ total = done + FoldFunction(+, 0, remaining[r])

(* The progress bar never moves back while a sync runs.                    *)
BarNeverMovesBack ==
    [][{phase, phase'} \subseteq Running \cup {"done"} /\ phase # "done"
          => Percent' >= Percent]_vars

Undisturbed == phase = "done" /\ ~fatalError /\ ~disturbed

(* A sync nobody interferes with leaves no badge of work in progress, and  *)
(* the badge of a channel with a failed download says so.                  *)
BadgesSettle ==
    Undisturbed =>
        /\ \A c \in Channels : badge[c] \in {"none", "checked", "downloaded", "failed"}
        /\ \A v \in missed : badge[Owner[v]] = "failed"

(* The summary's "N new episodes downloaded from M channels" is true of a  *)
(* sync that nobody interfered with, and "No new episodes" means that      *)
(* there were none, not even of a channel that could not be checked.       *)
SummaryTruthful ==
    Undisturbed =>
        /\ downloaded = Cardinality(fetched)
        /\ channelsWithNew = Cardinality({Owner[v] : v \in fetched \cup missed})
        /\ pending = {}

(* A sync comes to an end, exceptions or not: the button is not disabled   *)
(* for ever.                                                               *)
SyncEnds == phase \in Running ~> phase \notin Running

(* sync.py: "poll every channel, then download whatever is pending".  A    *)
(* sync in which no poll and no download raises gets to the end of the     *)
(* list of pending episodes it fetched.                                    *)
DownloadsWhateverIsPending == \A r \in Runs : pc[r] = "raised" => rows[r] = {}
=============================================================================
