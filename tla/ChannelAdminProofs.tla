------------------------- MODULE ChannelAdminProofs -------------------------
(***************************************************************************)
(* Theorems about ChannelAdmin, for any number of slugs, sources, admins   *)
(* and requests.                                                           *)
(***************************************************************************)
EXTENDS ChannelAdminProperties, TLAPS

-----------------------------------------------------------------------------
(* Type correctness.                                                       *)

\* What a thread has in hand where it needs it.
RequestSound ==
    \A t \in Threads :
        /\ pc[t] = "unique" => req[t].slug \in Names
        /\ pc[t] \in {"unique", "check", "insert"} => req[t].id \in Sources
        /\ pc[t] \in RequestLabels \ {"unique"} => req[t].slug \in Slugs
HandSound ==
    \A t \in Threads : pc[t] \in {"avatar", "open", "write", "record"} => run[t].hand \in Rows

TypeInv == TypeOK /\ RequestSound /\ HandSound

LEMMA ListedType == TypeOK => Listed \subseteq Rows
  BY DEF TypeOK, Listed, Rows, Tracked

LEMMA DefaultType == TypeOK => DefaultRetention \in Policies
  BY PoliciesAssumption DEF TypeOK, DefaultRetention

\* The history variables follow whatever the step does to the others.
LEMMA HistoryType ==
  ASSUME TypeOK, RecordHistory,
         override' \in [Slugs -> Policies \cup {NoOverride}],
         default' \in Policies \cup {NoDefault}
  PROVE  /\ inForce' \in [Cycles -> [Slugs -> SUBSET Policies]]
         /\ touched' \in [Cycles -> SUBSET (Slugs \cup {NoSlug})]
<1>1. \A s \in Slugs : PolicyOf(s)' \in Policies
  BY PoliciesAssumption DEF PolicyOf, DefaultRetention
<1>2. ChangedNow \subseteq Slugs \cup {NoSlug}
  BY DEF ChangedNow
<1> QED
  BY <1>1, <1>2 DEF RecordHistory, TypeOK

\* The variables no history is kept of.
TypeCore ==
    /\ source \in [Slugs -> Sources \cup {NoSource}]
    /\ override \in [Slugs -> Policies \cup {NoOverride}]
    /\ default \in Policies \cup {NoDefault}
    /\ avatar \in [Slugs -> BOOLEAN]
    /\ image \in [Slugs -> Sources \cup {"none", "partial"}]
    /\ server \in {"down", "default", "up"}
    /\ pc \in [Threads -> RequestLabels \cup CycleLabels \cup {"idle"}]
    /\ req \in [Threads -> Forms]
    /\ run \in [Threads -> Runs]
    /\ requests \in 0..MaxRequests /\ faults \in 0..MaxFaults
    /\ wiped \subseteq Slugs
    /\ RequestSound /\ HandSound

LEMMA BootType ==
  ASSUME TypeInv, ImportChannels \/ ImportDefault
  PROVE  TypeCore'
  BY ConfigAssumption
  DEF TypeInv, TypeOK, TypeCore, RequestSound, HandSound, ImportChannels, ImportDefault,
      artwork, counters

LEMMA FormType ==
  ASSUME NEW src \in Sources \cup {NoSource}, NEW s \in Slugs \cup Names \cup {NoSlug},
         NEW p \in Policies \cup {NoOverride}
  PROVE  Form(src, s, p) \in Forms
  BY DEF Form, Forms

LEMMA NoFormType == NoForm \in Forms
  BY FormType DEF NoForm

LEMMA NoRunType == NoRun \in Runs
  BY PoliciesAssumption DEF NoRun, Runs

LEMMA InitType == Init => TypeInv
  BY NoFormType, NoRunType, BoundsAssumption
  DEF Init, TypeInv, TypeOK, RequestSound, HandSound, RequestLabels

\* A request begins with the form r, moves on with it, or returns.
LEMMA RequestType ==
  ASSUME TypeInv, NEW t \in Threads, NEW to \in RequestLabels \cup {"idle"}, NEW r \in Forms,
         pc' = [pc EXCEPT ![t] = to], req' = [req EXCEPT ![t] = r],
         to = "unique" => r.slug \in Names,
         to \in {"unique", "check", "insert"} => r.id \in Sources,
         to \in RequestLabels \ {"unique"} => r.slug \in Slugs,
         UNCHANGED <<artwork, server, run, faults>>, requests' \in 0..MaxRequests,
         source' \in [Slugs -> Sources \cup {NoSource}],
         override' \in [Slugs -> Policies \cup {NoOverride}],
         default' \in Policies \cup {NoDefault}
  PROVE  TypeCore'
  BY DEF TypeInv, TypeOK, TypeCore, RequestSound, HandSound, RequestLabels, CycleLabels, artwork

LEMMA BeginType ==
  ASSUME TypeInv, NEW t \in Threads, NEW to \in RequestLabels, NEW r \in Forms, Begin(t, to, r),
         to = "unique" => r.slug \in Names,
         to \in {"unique", "check", "insert"} => r.id \in Sources,
         to \in RequestLabels \ {"unique"} => r.slug \in Slugs
  PROVE  TypeCore'
<1>1. requests' \in 0..MaxRequests
  BY BoundsAssumption DEF Begin, TypeInv, TypeOK
<1> QED
  BY <1>1, RequestType DEF Begin, Goto, tables, TypeInv, TypeOK

LEMMA StartType ==
  ASSUME TypeInv, NEW t \in Threads, StartRequest(t) \/ SetDefault(t)
  PROVE  TypeCore'
<1>1. CASE StartAdd(t)
  <2>1. PICK src \in Sources :
          \/ \E n \in Names : Begin(t, "unique", Form(src, n, NoOverride))
          \/ \E s \in Typed : Begin(t, "check", Form(src, s, NoOverride))
    BY <1>1 DEF StartAdd
  <2>2. ASSUME NEW n \in Names, Begin(t, "unique", Form(src, n, NoOverride))
        PROVE  TypeCore'
    BY <2>2, FormType, BeginType DEF RequestLabels, Form
  <2>3. ASSUME NEW s \in Typed, Begin(t, "check", Form(src, s, NoOverride))
        PROVE  TypeCore'
    BY <2>3, FormType, BeginType, VariantsAssumption DEF RequestLabels, Form
  <2> QED
    BY <2>1, <2>2, <2>3
<1>2. CASE StartRemove(t)
  BY <1>2, FormType, BeginType DEF StartRemove, Tracked, RequestLabels, Form
<1>3. CASE StartSettings(t)
  <2>1. PICK s \in Slugs, p \in Policies \cup {NoOverride} :
          Begin(t, "category", Form(NoSource, s, p))
    BY <1>3 DEF StartSettings, Tracked
  <2>2. Form(NoSource, s, p) \in Forms /\ Form(NoSource, s, p).slug \in Slugs
    BY FormType DEF Form
  <2> QED
    BY <2>1, <2>2, BeginType DEF RequestLabels
<1>4. CASE SetDefault(t)
  BY <1>4, BoundsAssumption
  DEF SetDefault, TypeInv, TypeOK, TypeCore, RequestSound, HandSound, artwork
<1> QED
  BY <1>1, <1>2, <1>3, <1>4 DEF StartRequest

LEMMA ServeType ==
  ASSUME TypeInv, NEW t \in Threads, Serve(t)
  PROVE  TypeCore'
<1> DEFINE r == req[t]
<1>1. /\ r \in Forms /\ pc[t] \in RequestLabels \cup CycleLabels \cup {"idle"}
      /\ pc[t] = "unique" => r.slug \in Names
      /\ pc[t] \in {"unique", "check", "insert"} => r.id \in Sources
      /\ pc[t] \in {"check", "insert", "remove", "category", "retention"} => r.slug \in Slugs
  BY DEF TypeInv, TypeOK, RequestSound, RequestLabels
<1>2. /\ requests \in 0..MaxRequests
      /\ source \in [Slugs -> Sources \cup {NoSource}]
      /\ override \in [Slugs -> Policies \cup {NoOverride}]
      /\ default \in Policies \cup {NoDefault}
      /\ req \in [Threads -> Forms]
      /\ pc \in [Threads -> RequestLabels \cup CycleLabels \cup {"idle"}]
  BY DEF TypeInv, TypeOK
<1>3. ASSUME NEW from, Return(t, from),
             source' \in [Slugs -> Sources \cup {NoSource}],
             override' \in [Slugs -> Policies \cup {NoOverride}],
             default' \in Policies \cup {NoDefault}
      PROVE  TypeCore'
  BY <1>2, <1>3, NoFormType, RequestType DEF Return, Goto, RequestLabels, counters
<1>4. CASE SlugTaken(t)
  <2> DEFINE q == [r EXCEPT !.try = @ + 1]
  <2>1. q \in Forms /\ q.slug = r.slug /\ q.id = r.id
    BY <1>1 DEF Forms
  <2>2. pc[t] = "unique" /\ pc' = [pc EXCEPT ![t] = "unique"] /\ req' = [req EXCEPT ![t] = q]
    BY <1>2, <1>4 DEF SlugTaken, CanTry
  <2>3. q.slug \in Names /\ q.id \in Sources /\ "unique" \in RequestLabels
    BY <1>1, <2>1, <2>2 DEF RequestLabels
  <2>4. UNCHANGED <<source, override, default, artwork, server, run, requests, faults>>
    BY <1>4 DEF SlugTaken, tables, counters
  <2> HIDE DEF q
  <2> QED
    BY <1>2, <2>1, <2>2, <2>3, <2>4, RequestType
<1>5. CASE SlugFree(t)
  <2> DEFINE q == [r EXCEPT !.slug = Candidate(t)]
  <2>1. Candidate(t) \in Slugs
    BY <1>1, <1>5, VariantsAssumption DEF SlugFree, CanTry, Candidate
  <2>2. q \in Forms /\ q.slug = Candidate(t) /\ q.id = r.id
    BY <1>1, <2>1 DEF Forms
  <2>3. pc[t] = "unique" /\ pc' = [pc EXCEPT ![t] = "check"] /\ req' = [req EXCEPT ![t] = q]
    BY <1>5 DEF SlugFree, CanTry, Goto
  <2> QED
    BY <1>1, <1>2, <1>5, <2>1, <2>2, <2>3, RequestType
    DEF SlugFree, RequestLabels, tables, counters
<1>6. CASE CheckDuplicate(t)
  <2>1. CASE Return(t, "check") /\ UNCHANGED tables
    BY <1>2, <1>3, <2>1 DEF tables
  <2>2. CASE Goto(t, "check", "insert") /\ UNCHANGED <<tables, artwork, server, req, run, counters>>
    <3>1. req' = [req EXCEPT ![t] = r]
      BY <1>2, <2>2
    <3> QED
      BY <1>1, <1>2, <2>2, <3>1, RequestType DEF Goto, RequestLabels, tables, counters
  <2> QED
    BY <1>6, <2>1, <2>2 DEF CheckDuplicate
<1>7. CASE Insert(t)
  BY <1>1, <1>2, <1>3, <1>7 DEF Insert, Return, Goto
<1>8. CASE Remove(t)
  BY <1>1, <1>2, <1>3, <1>8 DEF Remove, Return, Goto
<1>9. CASE SaveCategory(t)
  <2>1. req' = [req EXCEPT ![t] = r]
    BY <1>2, <1>9 DEF SaveCategory
  <2> QED
    BY <1>1, <1>2, <1>9, <2>1, RequestType DEF SaveCategory, Goto, RequestLabels, tables, counters
<1>10. CASE SaveRetention(t)
  <2>1. r.policy \in Policies \cup {NoOverride}
    BY <1>1 DEF Forms
  <2> QED
    BY <1>1, <1>2, <1>3, <1>10, <2>1 DEF SaveRetention
<1> QED
  BY <1>4, <1>5, <1>6, <1>7, <1>8, <1>9, <1>10 DEF Serve

\* A cycle begins, goes on or ends with the locals r.
LEMMA ContinueType ==
  ASSUME TypeInv, NEW t \in Threads, NEW from, NEW to \in CycleLabels \cup {"idle"}, NEW r \in Runs,
         Continue(t, from, to, r),
         to \in {"avatar", "open", "write", "record"} => r.hand \in Rows,
         avatar' \in [Slugs -> BOOLEAN],
         image' \in [Slugs -> Sources \cup {"none", "partial"}]
  PROVE  TypeCore'
  BY DEF Continue, Goto, TypeInv, TypeOK, TypeCore, RequestSound, HandSound, RequestLabels,
         CycleLabels, tables, counters

LEMMA RunType ==
  ASSUME NEW r \in Runs, NEW h \in Rows \cup {NoRow}, NEW todo \in SUBSET Rows, NEW p \in Policies
  PROVE  /\ [r EXCEPT !.todo = todo] \in Runs
         /\ [r EXCEPT !.hand = h] \in Runs
         /\ [r EXCEPT !.todo = todo, !.hand = h] \in Runs
         /\ [r EXCEPT !.todo = todo, !.hand = h].hand = h
         /\ [r EXCEPT !.fallback = p, !.todo = todo] \in Runs
         /\ [r EXCEPT !.list = todo, !.todo = todo] \in Runs
  BY DEF Runs

LEMMA CycleType ==
  ASSUME TypeInv, NEW t \in Threads, StartCycle(t) \/ CycleStep(t)
  PROVE  TypeCore'
<1> DEFINE r == run[t]
<1>1. /\ r \in Runs /\ r.todo \subseteq Rows /\ r.list \subseteq Rows
      /\ pc[t] \in {"avatar", "open", "write", "record"} => r.hand \in Rows
      /\ avatar \in [Slugs -> BOOLEAN]
      /\ image \in [Slugs -> Sources \cup {"none", "partial"}]
  BY DEF TypeInv, TypeOK, HandSound, Runs
<1>2. NoRow \in Rows \cup {NoRow}
  OBVIOUS
<1> USE DEF CycleLabels
<1>3. CASE StartCycle(t)
  <2> DEFINE q == [r EXCEPT !.list = Listed, !.todo = Listed]
  <2>1. Listed \in SUBSET Rows /\ (\E p \in Policies : TRUE)
    BY ListedType, PoliciesAssumption DEF TypeInv
  <2>2. q \in Runs
    BY <1>1, <2>1, RunType
  <2>3. run' = [run EXCEPT ![t] = q]
    BY <1>3 DEF StartCycle
  <2> QED
    BY <1>3, <2>2, <2>3
    DEF StartCycle, Goto, TypeInv, TypeOK, TypeCore, RequestSound, HandSound, RequestLabels,
        tables, artwork, counters
<1>4. CASE CheckArtwork(t)
  <2>1. PICK c \in r.todo :
          \/ Continue(t, "artwork", "artwork", [r EXCEPT !.todo = @ \ {c}])
          \/ Continue(t, "artwork", "avatar", [r EXCEPT !.todo = @ \ {c}, !.hand = c])
    BY <1>4 DEF CheckArtwork
  <2>2. c \in Rows /\ r.todo \ {c} \in SUBSET Rows /\ (\E p \in Policies : TRUE)
    BY <1>1, PoliciesAssumption
  <2>3. /\ [r EXCEPT !.todo = @ \ {c}] \in Runs
        /\ [r EXCEPT !.todo = @ \ {c}, !.hand = c] \in Runs
        /\ [r EXCEPT !.todo = @ \ {c}, !.hand = c].hand = c
    BY <1>1, <2>2, RunType
  <2> QED
    BY <1>1, <1>4, <2>1, <2>2, <2>3, ContinueType DEF CheckArtwork
<1>5. CASE AvatarFetched(t)
  BY <1>1, <1>5, ContinueType DEF AvatarFetched, Continue, Goto
<1>6. CASE NoAvatar(t)
  <2>1. [r EXCEPT !.hand = NoRow] \in Runs
    BY <1>1 DEF Runs
  <2> QED
    BY <1>1, <1>6, <2>1, ContinueType DEF NoAvatar
<1>7. CASE OpenImage(t)
  <2>1. image' \in [Slugs -> Sources \cup {"none", "partial"}]
    BY <1>1, <1>7 DEF OpenImage
  <2> QED
    BY <1>1, <1>7, <2>1, ContinueType DEF OpenImage, Continue, Goto
<1>8. CASE WriteImage(t)
  <2>1. r.hand \in Rows /\ r.hand.id \in Sources
    BY <1>1, <1>8 DEF WriteImage, Continue, Goto, Rows
  <2>2. image' \in [Slugs -> Sources \cup {"none", "partial"}]
    BY <1>1, <1>8, <2>1 DEF WriteImage
  <2> QED
    BY <1>1, <1>8, <2>1, <2>2, ContinueType DEF WriteImage
<1>9. CASE RecordAvatar(t)
  <2>1. [r EXCEPT !.hand = NoRow] \in Runs
    BY <1>1 DEF Runs
  <2> QED
    BY <1>1, <1>9, <2>1, ContinueType DEF RecordAvatar
<1>10. CASE ArtworkDone(t)
  BY <1>1, <1>10, ContinueType DEF ArtworkDone
<1>11. CASE ReadDefault(t)
  <2>1. [r EXCEPT !.fallback = DefaultRetention, !.todo = r.list] \in Runs
    BY <1>1, <1>2, DefaultType, RunType DEF TypeInv
  <2> QED
    BY <1>1, <1>11, <2>1, ContinueType DEF ReadDefault
<1>12. CASE ApplyRetention(t)
  <2>1. PICK c \in r.todo : Continue(t, "retain", "retain", [r EXCEPT !.todo = @ \ {c}])
    BY <1>12 DEF ApplyRetention
  <2>2. [r EXCEPT !.todo = @ \ {c}] \in Runs
    BY <1>1 DEF Runs
  <2> QED
    BY <1>1, <1>12, <2>1, <2>2, ContinueType DEF ApplyRetention
<1>13. CASE EndCycle(t)
  BY <1>1, <1>13, NoRunType, ContinueType DEF EndCycle
<1> QED
  BY <1>3, <1>4, <1>5, <1>6, <1>7, <1>8, <1>9, <1>10, <1>11, <1>12, <1>13 DEF CycleStep

LEMMA FaultType ==
  ASSUME TypeInv, Fault
  PROVE  TypeCore'
<1> USE DEF TypeInv, TypeOK, TypeCore, RequestSound, HandSound, RequestLabels, CycleLabels,
            tables, artwork
<1>1. CASE Crash
  BY <1>1, NoFormType, NoRunType, BoundsAssumption DEF Crash, Fault
<1>2. ASSUME NEW t \in Cycles, DiskFails(t)
      PROVE  TypeCore'
  BY <1>2, NoRunType, BoundsAssumption DEF DiskFails, Fault, Threads
<1>3. ASSUME NEW s \in Slugs, Wipe(s)
      PROVE  TypeCore'
  BY <1>3, BoundsAssumption DEF Wipe, Fault
<1> QED
  BY <1>1, <1>2, <1>3 DEF Fault

LEMMA StepType == TypeInv /\ [Next]_vars => TypeInv'
<1> SUFFICES ASSUME TypeInv, [Next]_vars
             PROVE  TypeInv'
  OBVIOUS
<1>1. CASE Next
  <2>1. TypeCore'
    BY <1>1, BootType, StartType, ServeType, CycleType, FaultType DEF Next, Step, Threads
  <2> QED
    BY <1>1, <2>1, HistoryType DEF Next, TypeCore, TypeInv, TypeOK
<1>2. CASE UNCHANGED vars
  BY <1>2
  DEF vars, tables, artwork, counters, TypeInv, TypeOK, RequestSound, HandSound
<1> QED
  BY <1>1, <1>2

LEMMA TypeInvariance == Spec => []TypeInv
  BY InitType, StepType, PTL DEF Spec

(* The tables and the threads' locals keep their types (channels.py,       *)
(* settings.py, artwork.py, db.py).                                        *)
THEOREM ChannelAdminTypeCorrect == Spec => []TypeOK
<1>1. TypeInv => TypeOK
  BY DEF TypeInv
<1> QED
  BY <1>1, TypeInvariance, PTL
-----------------------------------------------------------------------------
(* The refinement of Tracking.                                             *)

\* No request and no cycle outlives its process.
ServerUp == \A t \in Threads : pc[t] # "idle" => server = "up"

\* A thread that is under way moves nobody else, and not the process.
LEMMA ThreadMoves ==
  ASSUME TypeInv, NEW t \in Threads, Serve(t) \/ CycleStep(t)
  PROVE  /\ pc[t] # "idle" /\ UNCHANGED server
         /\ \A u \in Threads \ {t} : pc'[u] = pc[u]
<1>1. pc \in [Threads -> RequestLabels \cup CycleLabels \cup {"idle"}]
  BY DEF TypeInv, TypeOK
<1>2. CASE SlugTaken(t) \/ SlugFree(t) \/ SaveCategory(t)
  BY <1>1, <1>2 DEF SlugTaken, SlugFree, SaveCategory, CanTry, Goto
<1>3. CASE CheckDuplicate(t) \/ Insert(t) \/ Remove(t) \/ SaveRetention(t)
  BY <1>1, <1>3 DEF CheckDuplicate, Insert, Remove, SaveRetention, Return, Goto
<1>4. CASE CycleStep(t)
  BY <1>1, <1>4 DEF CycleStep, CheckArtwork, AvatarFetched, NoAvatar, OpenImage, WriteImage,
                    RecordAvatar, ArtworkDone, ReadDefault, ApplyRetention, EndCycle, Continue, Goto
<1> QED
  BY <1>2, <1>3, <1>4 DEF Serve

\* The first step of a request or a cycle is one of a process that is up.
LEMMA ThreadStarts ==
  ASSUME NEW t \in Threads, StartRequest(t) \/ SetDefault(t) \/ StartCycle(t)
  PROVE  server = "up" /\ UNCHANGED <<source, override, server>>
<1>1. CASE StartRequest(t)
  BY <1>1 DEF StartRequest, StartAdd, StartRemove, StartSettings, Begin, tables
<1>2. CASE SetDefault(t) \/ StartCycle(t)
  BY <1>2 DEF SetDefault, StartCycle, tables
<1> QED
  BY <1>1, <1>2

LEMMA UpStep == TypeInv /\ ServerUp /\ [Next]_vars => ServerUp'
<1> SUFFICES ASSUME TypeInv, ServerUp, [Next]_vars
             PROVE  ServerUp'
  OBVIOUS
<1> USE DEF ServerUp
<1>1. CASE ImportChannels \/ ImportDefault \/ UNCHANGED vars
  BY <1>1 DEF ImportChannels, ImportDefault, vars
<1>2. ASSUME NEW t \in Threads, StartRequest(t) \/ SetDefault(t) \/ StartCycle(t)
      PROVE  ServerUp'
  BY <1>2, ThreadStarts
<1>3. ASSUME NEW t \in Threads, Serve(t) \/ CycleStep(t)
      PROVE  ServerUp'
  BY <1>3, ThreadMoves
<1>4. CASE Fault
  <2>1. CASE Crash
    BY <2>1 DEF Crash
  <2>2. ASSUME NEW t \in Cycles, DiskFails(t)
        PROVE  ServerUp'
    BY <2>2 DEF DiskFails, TypeInv, TypeOK, Threads
  <2>3. ASSUME NEW s \in Slugs, Wipe(s)
        PROVE  ServerUp'
    BY <2>3 DEF Wipe
  <2> QED
    BY <1>4, <2>1, <2>2, <2>3 DEF Fault
<1> QED
  BY <1>1, <1>2, <1>3, <1>4 DEF Next, Step, Threads

LEMMA ImportTracks ==
  ASSUME TypeInv, ImportChannels
  PROVE  Tracks!Start
  BY DEF ImportChannels, Tracked, TypeInv, TypeOK, Tracks!Start

\* Since the SELECT other requests may have added channels; the constraints
\* make the INSERT check once more.
LEMMA InsertTracks ==
  ASSUME TypeInv, ServerUp, NEW t \in Threads, Insert(t)
  PROVE  (\E s \in Slugs, src \in Sources : Tracks!Add(s, src)) \/ UNCHANGED <<source, override>>
<1> DEFINE s == req[t].slug
           src == req[t].id
<1>1. s \in Slugs /\ src \in Sources /\ source \in [Slugs -> Sources \cup {NoSource}]
  BY DEF Insert, Return, Goto, TypeInv, TypeOK, RequestSound, RequestLabels
<1>2. CASE Duplicate(t)
  BY <1>2 DEF Insert
<1>3. CASE ~Duplicate(t)
  <2>1. Tracks!Unused(s, src)
    BY <1>1, <1>3, NoSourceAssumption DEF Duplicate, Tracked, Tracks!Unused
  <2>2. server = "up" /\ server' = "up"
    BY DEF Insert, Return, Goto, ServerUp
  <2>3. Tracks!Add(s, src)
    BY <1>3, <2>1, <2>2 DEF Insert, Tracks!Add
  <2> QED
    BY <1>1, <2>3
<1> QED
  BY <1>2, <1>3

LEMMA ServeTracks ==
  ASSUME TypeInv, ServerUp, NEW t \in Threads, Serve(t)
  PROVE  [Tracks!Next]_<<source, override, server # "down">>
<1>0. server = "up" /\ server' = "up"
  BY ThreadMoves DEF ServerUp
<1>1. CASE Insert(t)
  BY <1>0, <1>1, InsertTracks DEF Tracks!Next
<1>2. CASE Remove(t)
  <2>1. req[t].slug \in Slugs
    BY <1>2 DEF Remove, Return, Goto, TypeInv, RequestSound, RequestLabels
  <2>2. Tracks!Remove(req[t].slug)
    BY <1>0, <1>2 DEF Remove, Tracks!Remove
  <2> QED
    BY <2>1, <2>2 DEF Tracks!Next
<1>3. CASE SaveRetention(t)
  <2>1. req[t].policy \in Policies \cup {NoOverride}
    BY DEF TypeInv, TypeOK, Forms
  <2>2. CASE req[t].slug \in Tracked
    <3>1. Tracks!Change(req[t].slug, req[t].policy)
      BY <1>0, <1>3, <2>2 DEF SaveRetention, Tracked, Tracks!Change
    <3> QED
      BY <2>1, <2>2, <3>1 DEF Tracked, Tracks!Next
  <2> QED
    BY <1>0, <1>3, <2>2 DEF SaveRetention
<1>4. CASE SlugTaken(t) \/ SlugFree(t) \/ CheckDuplicate(t) \/ SaveCategory(t)
  BY <1>0, <1>4 DEF SlugTaken, SlugFree, CheckDuplicate, SaveCategory, tables
<1> QED
  BY <1>1, <1>2, <1>3, <1>4 DEF Serve

\* A cycle changes no row and a fault none: it stops the process at most.
LEMMA CycleTracks ==
  ASSUME NEW t \in Threads, CycleStep(t)
  PROVE  UNCHANGED <<source, override, server>>
  BY DEF CycleStep, CheckArtwork, AvatarFetched, NoAvatar, OpenImage, WriteImage,
         RecordAvatar, ArtworkDone, ReadDefault, ApplyRetention, EndCycle, Continue, tables

LEMMA FaultTracks ==
  ASSUME Fault
  PROVE  Tracks!Stop \/ UNCHANGED <<source, override, server>>
<1>1. CASE Crash
  BY <1>1 DEF Crash, tables, Tracks!Stop
<1>2. ASSUME NEW t \in Cycles, DiskFails(t)
      PROVE  UNCHANGED <<source, override, server>>
  BY <1>2 DEF DiskFails, tables
<1>3. ASSUME NEW s \in Slugs, Wipe(s)
      PROVE  UNCHANGED <<source, override, server>>
  BY <1>3 DEF Wipe, tables
<1> QED
  BY <1>1, <1>2, <1>3 DEF Fault

LEMMA StepTracks ==
  TypeInv /\ ServerUp /\ [Next]_vars => [Tracks!Next]_<<source, override, server # "down">>
<1> SUFFICES ASSUME TypeInv, ServerUp, [Next]_vars
             PROVE  [Tracks!Next]_<<source, override, server # "down">>
  OBVIOUS
<1>1. CASE ImportChannels
  BY <1>1, ImportTracks DEF Tracks!Next
<1>2. CASE ImportDefault \/ UNCHANGED vars
  BY <1>2 DEF ImportDefault, vars, tables
<1>3. CASE Fault
  BY <1>3, FaultTracks DEF Tracks!Next
<1>4. ASSUME NEW t \in Threads, StartRequest(t) \/ SetDefault(t) \/ StartCycle(t)
      PROVE  [Tracks!Next]_<<source, override, server # "down">>
  BY <1>4, ThreadStarts
<1>5. ASSUME NEW t \in Threads, Serve(t) \/ CycleStep(t)
      PROVE  [Tracks!Next]_<<source, override, server # "down">>
  BY <1>5, ServeTracks, CycleTracks
<1> QED
  BY <1>1, <1>2, <1>3, <1>4, <1>5 DEF Next, Step, Threads

(* However requests overlap and wherever the process dies, the table       *)
(* changes as Tracking allows: add_channel's SELECT may be stale when its  *)
(* INSERT runs, a form may be applied to a channel that is gone, and only  *)
(* a start that finds no channel imports config.yaml                       *)
(* (channels.py:55-110).                                                   *)
THEOREM AdminImplementsTracking == Spec => ImplementsTracking
<1>1. Init => ServerUp /\ Tracks!Init
  BY DEF Init, ServerUp, Tracks!Init
<1> QED
  BY <1>1, UpStep, StepTracks, TypeInvariance, PTL DEF Spec, ImplementsTracking, Tracks!Spec
-----------------------------------------------------------------------------
(* The cover art.                                                          *)

\* What a cycle has done to the picture it is fetching.
Fetching(t) ==
    LET s == run[t].hand.slug
    IN  /\ pc[t] \in {"avatar", "open", "write", "record"} => ~avatar[s] \/ s \in wiped
        /\ pc[t] = "write" => image[s] = "partial" \/ s \in wiped
        /\ pc[t] = "record" => image[s] \in Sources \/ s \in wiped

ArtworkInv ==
    /\ \A s \in Slugs : avatar[s] => image[s] \in Sources \/ s \in wiped
    /\ \A t \in Cycles : Fetching(t)

LEMMA ArtworkCycle ==
  ASSUME \A t, u \in Cycles : t = u, TypeInv, ArtworkInv,
         NEW t \in Cycles, CycleStep(t)
  PROVE  ArtworkInv'
<1> DEFINE s == run[t].hand.slug
<1> USE DEF TypeInv, TypeOK, ArtworkInv, Fetching, Threads
<1>1. /\ t \in Threads /\ run[t].todo \subseteq Rows /\ run \in [Threads -> Runs]
      /\ pc[t] \in {"avatar", "open", "write", "record"} => run[t].hand \in Rows
  BY DEF HandSound, Runs
<1>2. CASE CheckArtwork(t)
  <2>1. PICK c \in run[t].todo :
          \/ Continue(t, "artwork", "artwork", [run[t] EXCEPT !.todo = @ \ {c}])
          \/ /\ ~HasArtwork(c.slug)
             /\ Continue(t, "artwork", "avatar", [run[t] EXCEPT !.todo = @ \ {c}, !.hand = c])
    BY <1>2 DEF CheckArtwork
  <2>2. c.slug \in Slugs
    BY <1>1 DEF Rows
  <2>3. ~HasArtwork(c.slug) => ~avatar[c.slug] \/ c.slug \in wiped
    BY <2>2, SourcesAssumption DEF HasArtwork
  <2>4. [run[t] EXCEPT !.todo = @ \ {c}, !.hand = c].hand = c
    BY <1>1 DEF Runs
  <2> QED
    BY <1>1, <1>2, <2>1, <2>3, <2>4 DEF CheckArtwork, Continue, Goto
<1>3. CASE OpenImage(t)
  BY <1>1, <1>3 DEF OpenImage, Continue, Goto, Rows
<1>4. CASE WriteImage(t)
  <2>1. s \in Slugs /\ run[t].hand.id \in Sources
    BY <1>1, <1>4 DEF WriteImage, Continue, Goto, Rows
  <2>2. image'[s] = run[t].hand.id \/ (image[s] = "none" /\ image'[s] = "none")
    BY <1>4, <2>1 DEF WriteImage
  <2>3. image'[s] \in Sources \/ s \in wiped
    BY <1>1, <1>4, <2>1, <2>2 DEF WriteImage, Continue, Goto
  <2> QED
    BY <1>1, <1>4, <2>1, <2>3 DEF WriteImage, Continue, Goto
<1>5. CASE RecordAvatar(t)
  <2>1. s \in Slugs /\ (image[s] \in Sources \/ s \in wiped)
    BY <1>1, <1>5 DEF RecordAvatar, Continue, Goto, Rows
  <2> QED
    BY <1>1, <1>5, <2>1 DEF RecordAvatar, Continue, Goto
<1>6. CASE AvatarFetched(t)
  BY <1>1, <1>6 DEF AvatarFetched, Continue, Goto
<1>7. CASE NoAvatar(t) \/ ArtworkDone(t) \/ ReadDefault(t) \/ ApplyRetention(t) \/ EndCycle(t)
  BY <1>1, <1>7 DEF NoAvatar, ArtworkDone, ReadDefault, ApplyRetention, EndCycle, Continue, Goto
<1> QED
  BY <1>2, <1>3, <1>4, <1>5, <1>6, <1>7 DEF CycleStep

LEMMA ArtworkFault ==
  ASSUME TypeInv, ArtworkInv, Fault
  PROVE  ArtworkInv'
<1> USE DEF TypeInv, TypeOK, ArtworkInv, Fetching, Threads
<1>1. CASE Crash
  BY <1>1 DEF Crash, artwork
<1>2. ASSUME NEW t \in Cycles, DiskFails(t)
      PROVE  ArtworkInv'
  BY <1>2 DEF DiskFails, artwork
<1>3. ASSUME NEW s \in Slugs, Wipe(s)
      PROVE  ArtworkInv'
  BY <1>3 DEF Wipe
<1> QED
  BY <1>1, <1>2, <1>3 DEF Fault

\* What an admin's request does leaves the cycles and the pictures alone.
LEMMA RequestKeeps ==
  ASSUME TypeInv, NEW a \in Admins, StartRequest(a) \/ SetDefault(a) \/ Serve(a)
  PROVE  /\ UNCHANGED <<artwork, run>>
         /\ \A t \in Cycles : pc'[t] = pc[t]
<1>1. a \in Threads /\ pc \in [Threads -> RequestLabels \cup CycleLabels \cup {"idle"}]
      /\ \A t \in Cycles : t # a /\ t \in Threads
  BY ThreadsAssumption DEF Threads, TypeInv, TypeOK
<1>2. CASE StartRequest(a)
  BY <1>1, <1>2 DEF StartRequest, StartAdd, StartRemove, StartSettings, Begin, Goto
<1>3. CASE SetDefault(a)
  BY <1>3 DEF SetDefault
<1>4. CASE SlugTaken(a) \/ SlugFree(a) \/ SaveCategory(a)
  BY <1>1, <1>4 DEF SlugTaken, SlugFree, SaveCategory, Goto
<1>5. CASE CheckDuplicate(a) \/ Insert(a) \/ Remove(a) \/ SaveRetention(a)
  BY <1>1, <1>5 DEF CheckDuplicate, Insert, Remove, SaveRetention, Return, Goto
<1> QED
  BY <1>2, <1>3, <1>4, <1>5 DEF Serve

LEMMA ArtworkStep ==
  ASSUME \A t, u \in Cycles : t = u
  PROVE  TypeInv /\ ArtworkInv /\ [Next]_vars => ArtworkInv'
<1> SUFFICES ASSUME TypeInv, ArtworkInv, [Next]_vars
             PROVE  ArtworkInv'
  OBVIOUS
<1>1. CASE ImportChannels \/ ImportDefault \/ UNCHANGED vars
  BY <1>1 DEF ImportChannels, ImportDefault, vars, artwork, ArtworkInv, Fetching
<1>2. ASSUME NEW a \in Admins, StartRequest(a) \/ SetDefault(a) \/ Serve(a)
      PROVE  ArtworkInv'
  BY <1>2, RequestKeeps DEF artwork, ArtworkInv, Fetching
<1>3. ASSUME NEW t \in Cycles, StartCycle(t)
      PROVE  ArtworkInv'
  BY <1>3 DEF StartCycle, Goto, artwork, ArtworkInv, Fetching, TypeInv, TypeOK, Threads
<1>4. ASSUME NEW t \in Cycles, CycleStep(t)
      PROVE  ArtworkInv'
  BY <1>4, ArtworkCycle
<1>5. CASE Fault
  BY <1>5, ArtworkFault
<1> QED
  BY <1>1, <1>2, <1>3, <1>4, <1>5 DEF Next, Step

(* The cover the feed links to is whole unless its file was removed and    *)
(* had to be fetched again, whichever commit or write is interrupted       *)
(* (artwork.py:43-56), when cycles run one at a time.                      *)
THEOREM ArtworkStaysWhole ==
  ASSUME \A t, u \in Cycles : t = u
  PROVE  Spec => []ArtworkWhole
<1>1. Init => ArtworkInv
  BY DEF Init, ArtworkInv, Fetching, Threads
<1>2. ArtworkInv => ArtworkWhole
  BY DEF ArtworkInv, ArtworkWhole, FeedImage
<1>3. TypeInv /\ ArtworkInv /\ [Next]_vars => ArtworkInv'
  BY ArtworkStep
<1> QED
  BY <1>1, <1>2, <1>3, TypeInvariance, PTL DEF Spec
-----------------------------------------------------------------------------
(* The policy a cycle applies.                                             *)

\* What a cycle that runs knows of the settings since it began.
CycleKnows(t) ==
    /\ \A s \in Tracked : PolicyOf(s) \in inForce[t][s]
    /\ run[t].todo \subseteq run[t].list
    /\ \A c \in run[t].list :
          /\ c.slug \notin touched[t] => source[c.slug] = c.id /\ override[c.slug] = c.retention
          /\ NoSlug \notin touched[t] =>
                Effective(c.retention, DefaultRetention) \in inForce[t][c.slug]
          /\ pc[t] = "retain" => \/ AppliedTo(t, c) \in inForce[t][c.slug]
                                 \/ {c.slug, NoSlug} \subseteq touched[t]

PolicyInv == \A t \in Cycles : pc[t] # "idle" => CycleKnows(t)

\* A step of a cycle, as far as it matters here.
LEMMA CycleMoves ==
  ASSUME TypeInv, NEW t \in Cycles, CycleStep(t)
  PROVE  /\ \A u \in Cycles \ {t} : pc'[u] = pc[u] /\ run'[u] = run[u]
         /\ UNCHANGED tables
         /\ pc[t] # "idle"
         /\ \/ pc'[t] = "idle"
            \/ /\ run'[t].list = run[t].list
               /\ run'[t].todo \subseteq run[t].todo \cup run[t].list
               /\ \/ pc'[t] # "retain"
                  \/ pc[t] = "retain" /\ run'[t].fallback = run[t].fallback
                  \/ run'[t].fallback = DefaultRetention
<1>1. t \in Threads /\ run \in [Threads -> Runs] /\ run[t] \in Runs
      /\ pc \in [Threads -> RequestLabels \cup CycleLabels \cup {"idle"}]
      /\ Cycles \subseteq Threads
  BY DEF TypeInv, TypeOK, Threads
<1> USE DEF Continue, Goto, Runs
<1>2. CASE CheckArtwork(t)
  <2>1. PICK c \in run[t].todo :
          \/ Continue(t, "artwork", "artwork", [run[t] EXCEPT !.todo = @ \ {c}])
          \/ Continue(t, "artwork", "avatar", [run[t] EXCEPT !.todo = @ \ {c}, !.hand = c])
    BY <1>2 DEF CheckArtwork
  <2>2. CASE Continue(t, "artwork", "artwork", [run[t] EXCEPT !.todo = @ \ {c}])
    BY <1>1, <2>2
  <2>3. CASE Continue(t, "artwork", "avatar", [run[t] EXCEPT !.todo = @ \ {c}, !.hand = c])
    BY <1>1, <2>3
  <2> QED
    BY <2>1, <2>2, <2>3
<1>3. CASE AvatarFetched(t) \/ NoAvatar(t) \/ OpenImage(t) \/ WriteImage(t) \/ RecordAvatar(t)
           \/ ArtworkDone(t)
  BY <1>1, <1>3 DEF AvatarFetched, NoAvatar, OpenImage, WriteImage, RecordAvatar, ArtworkDone
<1>4. CASE ReadDefault(t)
  BY <1>1, <1>4 DEF ReadDefault
<1>5. CASE ApplyRetention(t) \/ EndCycle(t)
  BY <1>1, <1>5 DEF ApplyRetention, EndCycle
<1> QED
  BY <1>2, <1>3, <1>4, <1>5 DEF CycleStep

\* The settings change under a cycle that goes on, with the list it has.
LEMMA CycleKnowsStep ==
  ASSUME TypeInv, TypeInv', NEW t \in Cycles, CycleKnows(t), RecordHistory, pc'[t] # "idle",
         run'[t].list = run[t].list, run'[t].todo \subseteq run[t].todo \cup run[t].list,
         \/ pc'[t] # "retain"
         \/ pc[t] = "retain" /\ run'[t].fallback = run[t].fallback
         \/ run'[t].fallback = DefaultRetention /\ UNCHANGED tables
  PROVE  CycleKnows(t)'
<1>1. /\ \A s \in Slugs : inForce[t][s] \subseteq inForce'[t][s]
      /\ \A s \in Slugs : source'[s] # NoSource => PolicyOf(s)' \in inForce'[t][s]
      /\ touched'[t] = touched[t] \cup ChangedNow
  BY DEF RecordHistory
<1>2. /\ run[t].list \subseteq Rows
      /\ \A c \in run[t].list : c.slug \in Slugs /\ c.id \in Sources
  BY DEF TypeInv, TypeOK, Runs, Rows, Threads
<1>3. \A s \in Slugs : s \notin ChangedNow => source'[s] = source[s] /\ override'[s] = override[s]
  BY DEF ChangedNow
<1>4. NoSlug \notin ChangedNow => DefaultRetention' = DefaultRetention
  BY DEF ChangedNow, DefaultRetention
<1>5. \A s \in Tracked' : PolicyOf(s)' \in inForce'[t][s]
  BY <1>1 DEF Tracked
<1>6. run'[t].todo \subseteq run'[t].list
  BY DEF CycleKnows
<1>7. ASSUME NEW c \in run'[t].list, c.slug \notin touched'[t]
      PROVE  source'[c.slug] = c.id /\ override'[c.slug] = c.retention
  BY <1>1, <1>2, <1>3, <1>7 DEF CycleKnows
<1>8. ASSUME NEW c \in run'[t].list, NoSlug \notin touched'[t]
      PROVE  Effective(c.retention, DefaultRetention') \in inForce'[t][c.slug]
  BY <1>1, <1>2, <1>4, <1>8 DEF CycleKnows
<1>9. ASSUME NEW c \in run'[t].list, pc'[t] = "retain", ~({c.slug, NoSlug} \subseteq touched'[t])
      PROVE  Effective(c.retention, run'[t].fallback) \in inForce'[t][c.slug]
  <2>1. CASE pc[t] = "retain" /\ run'[t].fallback = run[t].fallback
    BY <1>1, <1>2, <1>9, <2>1 DEF CycleKnows, AppliedTo
  <2>2. CASE run'[t].fallback = DefaultRetention /\ UNCHANGED tables
    <3>1. CASE NoSlug \notin touched'[t]
      BY <1>1, <1>2, <1>9, <2>2, <3>1 DEF CycleKnows
    <3>2. CASE c.slug \notin touched'[t]
      <4>1. source'[c.slug] \in Sources /\ override[c.slug] = c.retention
        BY <1>2, <1>7, <2>2, <3>2 DEF tables
      <4>2. PolicyOf(c.slug)' = Effective(c.retention, DefaultRetention)
        BY <2>2, <4>1 DEF tables, PolicyOf, Effective, DefaultRetention
      <4> QED
        BY <1>1, <1>2, <2>2, <4>1, <4>2, NoSourceAssumption
    <3> QED
      BY <1>9, <3>1, <3>2
  <2> QED
    BY <1>9, <2>1, <2>2
<1> QED
  BY <1>5, <1>6, <1>7, <1>8, <1>9 DEF CycleKnows, AppliedTo

LEMMA StartKnows ==
  ASSUME TypeInv, NEW t \in Cycles, StartCycle(t), RecordHistory
  PROVE  CycleKnows(t)'
<1>1. /\ run'[t].list = Listed /\ run'[t].todo = Listed /\ pc'[t] = "artwork" /\ UNCHANGED tables
      /\ \A u \in Cycles \ {t} : pc'[u] = pc[u] /\ run'[u] = run[u]
  BY DEF StartCycle, Goto, TypeInv, TypeOK, Runs, Threads
<1>2. \A s \in Slugs : source[s] # NoSource => PolicyOf(s)' \in inForce'[t][s]
  BY <1>1 DEF RecordHistory, tables
<1>3. \A c \in Listed : /\ c.slug \in Slugs /\ source[c.slug] # NoSource
                        /\ source[c.slug] = c.id /\ override[c.slug] = c.retention
  BY DEF Listed, Tracked
<1>4. \A c \in Listed : Effective(c.retention, DefaultRetention') = PolicyOf(c.slug)'
  BY <1>1, <1>3 DEF Effective, PolicyOf, DefaultRetention, tables
<1> QED
  BY <1>1, <1>2, <1>3, <1>4 DEF CycleKnows, Tracked, tables

LEMMA PolicyStep == TypeInv /\ TypeInv' /\ PolicyInv /\ [Next]_vars => PolicyInv'
<1> SUFFICES ASSUME TypeInv, TypeInv', PolicyInv, [Next]_vars, NEW t \in Cycles, pc'[t] # "idle"
             PROVE  CycleKnows(t)'
  BY DEF PolicyInv
<1>1. CASE UNCHANGED vars
  BY <1>1 DEF vars, tables, PolicyInv, CycleKnows, Tracked, PolicyOf, DefaultRetention, AppliedTo
<1>2. ASSUME RecordHistory, pc'[t] = pc[t], run'[t] = run[t]
      PROVE  CycleKnows(t)'
  <2>1. CycleKnows(t)
    BY <1>2 DEF PolicyInv
  <2> QED
    BY <1>2, <2>1, CycleKnowsStep
<1>3. ASSUME RecordHistory, ImportChannels \/ ImportDefault
      PROVE  CycleKnows(t)'
  BY <1>2, <1>3 DEF ImportChannels, ImportDefault
<1>4. ASSUME RecordHistory, NEW a \in Admins, StartRequest(a) \/ SetDefault(a) \/ Serve(a)
      PROVE  CycleKnows(t)'
  BY <1>2, <1>4, RequestKeeps
<1>5. ASSUME RecordHistory, NEW u \in Cycles, StartCycle(u)
      PROVE  CycleKnows(t)'
  <2>1. CASE u = t
    BY <1>5, <2>1, StartKnows
  <2>2. CASE u # t
    <3>1. pc'[t] = pc[t] /\ run'[t] = run[t]
      BY <1>5, <2>2 DEF StartCycle, Goto, TypeInv, TypeOK, Threads
    <3> QED
      BY <1>2, <1>5, <3>1
  <2> QED
    BY <2>1, <2>2
<1>6. ASSUME RecordHistory, NEW u \in Cycles, CycleStep(u)
      PROVE  CycleKnows(t)'
  <2>1. CASE u = t
    <3>1. CycleKnows(t)
      BY <1>6, <2>1, CycleMoves DEF PolicyInv
    <3> QED
      BY <1>6, <2>1, <3>1, CycleMoves, CycleKnowsStep
  <2>2. CASE u # t
    BY <1>2, <1>6, <2>2, CycleMoves
  <2> QED
    BY <2>1, <2>2
<1>7. ASSUME RecordHistory, Fault
      PROVE  CycleKnows(t)'
  <2>1. CASE Crash
    BY <2>1 DEF Crash, Threads
  <2>2. ASSUME NEW u \in Cycles, DiskFails(u)
        PROVE  pc'[t] = pc[t] /\ run'[t] = run[t]
    BY <2>2 DEF DiskFails, TypeInv, TypeOK, Threads
  <2>3. ASSUME NEW s \in Slugs, Wipe(s)
        PROVE  pc'[t] = pc[t] /\ run'[t] = run[t]
    BY <2>3 DEF Wipe
  <2> QED
    BY <1>2, <1>7, <2>1, <2>2, <2>3 DEF Fault
<1> QED
  BY <1>1, <1>3, <1>4, <1>5, <1>6, <1>7 DEF Next, Step

(* Unless both settings were changed while it ran, a cycle applies to each *)
(* channel a policy that was in force for it at some moment of the cycle,  *)
(* with the override read before the downloads and the default after them  *)
(* (scheduler.py:43-64).                                                   *)
THEOREM CyclesApplyPolicy == Spec => []AppliedPolicy
<1>1. Init => PolicyInv
  BY DEF Init, PolicyInv, Threads
<1>2. PolicyInv => AppliedPolicy
  BY DEF PolicyInv, CycleKnows, AppliedPolicy
<1> QED
  BY <1>1, <1>2, PolicyStep, TypeInvariance, PTL DEF Spec
=============================================================================
