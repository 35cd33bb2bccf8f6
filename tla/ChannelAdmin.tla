---------------------------- MODULE ChannelAdmin ----------------------------
(***************************************************************************)
(* Which channels are tracked, with which settings and which cover art:    *)
(* channels.py, settings.py, artwork.py and the requests of the admin UI   *)
(* that call them, next to the cycles that read the tables at their start  *)
(* and use what they read until their end, and lifespan, which fills the   *)
(* tables from config.yaml.  A SELECT, a commit and a file operation are   *)
(* one step each; what a cycle does to episodes in between is in Episodes. *)
(*                                                                         *)
(* A form that the handler turns down before it touches the database (an   *)
(* unusable link, a name that cannot be fetched, an invalid policy or      *)
(* category) changes nothing and is no step.                               *)
(***************************************************************************)
EXTENDS Naturals, Sequences, FiniteSets

CONSTANTS
    Slugs, Sources,    \* channel slugs; YouTube channel and playlist ids
    Names,             \* what slugify makes of a channel's name
    Variants,          \* Variants[n]: the slugs n, n-2, n-3, ...
    Typed,             \* the slugs that get typed in
    Policies,          \* keep_latest values; 0 keeps everything
    Config,            \* Config[s]: the id config.yaml gives slug s, or NoSource
    ConfigOverride,    \* ConfigOverride[s]: its retention there
    ConfigDefault,     \* the retention: block
    Admins, Cycles,    \* threads of requests; threads that run cycles
    Faults,            \* which of "crash", "disk" and "wipe" may happen
    MaxRequests,       \* bound on the requests of one behaviour
    MaxFaults,         \* and on its faults
    NoSource, NoSlug, NoOverride, NoDefault

Threads == Admins \cup Cycles

\* check_unique_channels: no id twice in config.yaml.
UniqueIds(config) ==
    \A r, s \in Slugs : config[r] = config[s] /\ config[r] # NoSource => r = s

ASSUME ConfigAssumption ==
    /\ Config \in [Slugs -> Sources \cup {NoSource}]
    /\ UniqueIds(Config)
    /\ ConfigOverride \in [Slugs -> Policies \cup {NoOverride}]
    /\ ConfigDefault \in Policies
ASSUME VariantsAssumption == Variants \in [Names -> Seq(Slugs)] /\ Typed \subseteq Slugs
ASSUME PoliciesAssumption ==
    Policies \subseteq Nat /\ 0 \in Policies /\ {NoOverride, NoDefault} \cap Policies = {}
ASSUME ThreadsAssumption == Admins \cap Cycles = {}
ASSUME BoundsAssumption == MaxRequests \in Nat /\ MaxFaults \in Nat
ASSUME NoSourceAssumption == NoSource \notin Sources \cup {"none", "partial"}
ASSUME NoSlugAssumption == NoSlug \notin Slugs
ASSUME SourcesAssumption == {"none", "partial"} \cap Sources = {}

VARIABLES
    \* channels: the id tracked under each slug, NoSource if there is no row,
    \* and its retention_json; settings: default_retention
    source, override, default,
    \* channel_state.avatar_path IS NOT NULL; the file it names: "none",
    \* "partial" when its bytes are not all written, or whose picture it is
    avatar, image,
    server,            \* lifespan: "down", "default" (still to import) or "up"
    pc,                \* where each thread is
    req,               \* the form a request was sent, and unique_slug's locals
    run,               \* run_cycle's locals
    requests, faults,  \* how many there have been
    \* history: slugs whose picture was wiped; the policies in force for each
    \* slug since a cycle began, and the settings changed since then
    wiped, inForce, touched

tables == <<source, override, default>>
artwork == <<avatar, image, wiped>>
counters == <<requests, faults>>
vars == <<tables, artwork, server, pc, req, run, counters, inForce, touched>>

Tracked == {s \in Slugs : source[s] # NoSource}

\* Mutant of Listed: slugs without a row are listed too.
EverySlug == {[slug |-> s, id |-> source[s], retention |-> override[s]] : s \in Slugs}

\* _row_to_channel: what list_channels returns of each row.
Listed == {[slug |-> s, id |-> source[s], retention |-> override[s]] : s \in Tracked}

Form(src, s, p) == [id |-> src, slug |-> s, policy |-> p, try |-> 1]
NoForm == Form(NoSource, NoSlug, NoOverride)
NoRow == [slug |-> NoSlug, id |-> NoSource, retention |-> NoOverride]
NoRun == [list |-> {}, todo |-> {}, hand |-> NoRow, fallback |-> 0]

\* get_default_retention, with RetentionConfig() when there is no row.
DefaultRetention == IF default = NoDefault THEN 0 ELSE default

\* Mutant of Effective: default_retention or channel.retention.
DefaultFirst(retention, otherwise) ==
    IF otherwise # 0 \/ retention = NoOverride THEN otherwise ELSE retention

\* channel.retention or default_retention
Effective(retention, otherwise) == IF retention = NoOverride THEN otherwise ELSE retention

\* build_channel_feed's cover: the slug's own picture, once it has been
\* recorded, whether or not the file is still there.
FeedImage(s) == IF avatar[s] THEN image[s] ELSE "thumbnail"

Init ==
    /\ source = [s \in Slugs |-> NoSource]
    /\ override = [s \in Slugs |-> NoOverride]
    /\ default = NoDefault
    /\ avatar = [s \in Slugs |-> FALSE]
    /\ image = [s \in Slugs |-> "none"]
    /\ server = "down"
    /\ pc = [t \in Threads |-> "idle"]
    /\ req = [t \in Threads |-> NoForm]
    /\ run = [t \in Threads |-> NoRun]
    /\ requests = 0 /\ faults = 0
    /\ wiped = {}
    /\ inForce = [t \in Cycles |-> [s \in Slugs |-> {}]]
    /\ touched = [t \in Cycles |-> {}]

Goto(t, from, to) == pc[t] = from /\ pc' = [pc EXCEPT ![t] = to]

-----------------------------------------------------------------------------
(* lifespan                                                                *)

\* Mutant of ImportChannels: whenever the process starts.
ImportAlways ==
    /\ server = "down" /\ server' = "default"
    /\ source' = [s \in Slugs |-> IF Config[s] = NoSource THEN source[s] ELSE Config[s]]
    /\ override' = [s \in Slugs |-> IF Config[s] = NoSource THEN override[s] ELSE ConfigOverride[s]]
    /\ UNCHANGED <<default, artwork, pc, req, run, counters>>

\* import_channels_from_config_if_empty
ImportChannels ==
    /\ server = "down" /\ server' = "default"
    /\ IF Tracked = {}
       THEN source' = Config /\ override' = ConfigOverride
       ELSE UNCHANGED <<source, override>>
    /\ UNCHANGED <<default, artwork, pc, req, run, counters>>

\* import_default_retention_from_config_if_unset, in a commit of its own.
ImportDefault ==
    /\ server = "default" /\ server' = "up"
    /\ default' = IF default = NoDefault THEN ConfigDefault ELSE default
    /\ UNCHANGED <<source, override, artwork, pc, req, run, counters>>

-----------------------------------------------------------------------------
(* Requests of the admin UI.                                               *)

Begin(t, to, r) ==
    /\ server = "up"
    /\ requests < MaxRequests /\ requests' = requests + 1
    /\ Goto(t, "idle", to)
    /\ req' = [req EXCEPT ![t] = r]
    /\ UNCHANGED <<tables, artwork, server, run, faults>>

\* The request returns or raises.
Return(t, from) ==
    /\ Goto(t, from, "idle")
    /\ req' = [req EXCEPT ![t] = NoForm]
    /\ UNCHANGED <<artwork, server, run, counters>>

\* POST /channels: with the slug left empty, unique_slug looks for one.
StartAdd(t) ==
    \E src \in Sources :
        \/ \E n \in Names : Begin(t, "unique", Form(src, n, NoOverride))
        \/ \E s \in Typed : Begin(t, "check", Form(src, s, NoOverride))

\* The end of Variants[n] bounds how far the search goes.
CanTry(t) == pc[t] = "unique" /\ req[t].try \in DOMAIN Variants[req[t].slug]
Candidate(t) == Variants[req[t].slug][req[t].try]

\* Mutant of SlugTaken: the suffix does not go up.
SlugTakenSame(t) ==
    /\ CanTry(t) /\ Candidate(t) \in Tracked
    /\ UNCHANGED <<tables, artwork, server, pc, req, run, counters>>

\* One turn of unique_slug's loop: the slug is taken, the next is tried.
SlugTaken(t) ==
    /\ CanTry(t) /\ Candidate(t) \in Tracked
    /\ req' = [req EXCEPT ![t].try = @ + 1]
    /\ UNCHANGED <<tables, artwork, server, pc, run, counters>>

SlugFree(t) ==
    /\ CanTry(t) /\ Candidate(t) \notin Tracked
    /\ Goto(t, "unique", "check")
    /\ req' = [req EXCEPT ![t].slug = Candidate(t)]
    /\ UNCHANGED <<tables, artwork, server, run, counters>>

\* There is a row with the slug or with the id of t's form.
Duplicate(t) == \E s \in Tracked : s = req[t].slug \/ source[s] = req[t].id

\* add_channel's SELECT; a duplicate is shown in the dialog.
CheckDuplicate(t) ==
    \/ /\ Duplicate(t)
       /\ Return(t, "check")
       /\ UNCHANGED tables
    \/ /\ ~Duplicate(t)
       /\ Goto(t, "check", "insert")
       /\ UNCHANGED <<tables, artwork, server, req, run, counters>>

\* Mutant of Insert: INSERT OR REPLACE.
InsertOrReplace(t) ==
    /\ Return(t, "insert")
    /\ source' = [s \in Slugs |-> IF s = req[t].slug THEN req[t].id
                                  ELSE IF source[s] = req[t].id THEN NoSource ELSE source[s]]
    /\ override' = [override EXCEPT ![req[t].slug] = NoOverride]
    /\ UNCHANGED default

\* Its INSERT: the table's own constraints raise IntegrityError when the row
\* has become a duplicate since.
Insert(t) ==
    /\ Return(t, "insert")
    /\ IF Duplicate(t)
       THEN UNCHANGED <<source, override>>
       ELSE /\ source' = [source EXCEPT ![req[t].slug] = req[t].id]
            /\ override' = [override EXCEPT ![req[t].slug] = NoOverride]
    /\ UNCHANGED default

\* POST .../delete: _find_channel, then the DELETE.
StartRemove(t) == \E s \in Tracked : Begin(t, "remove", Form(NoSource, s, NoOverride))

Remove(t) ==
    /\ Return(t, "remove")
    /\ source' = [source EXCEPT ![req[t].slug] = NoSource]
    /\ override' = [override EXCEPT ![req[t].slug] = NoOverride]
    /\ UNCHANGED default

\* POST .../settings: _find_channel and all the validation.
StartSettings(t) ==
    \E s \in Tracked, p \in Policies \cup {NoOverride} :
        Begin(t, "category", Form(NoSource, s, p))

\* update_channel_category commits by itself; nothing here depends on the value.
SaveCategory(t) ==
    /\ Goto(t, "category", "retention")
    /\ UNCHANGED <<tables, artwork, server, req, run, counters>>

\* update_channel_retention; the UPDATE matches no row if there is none by now.
SaveRetention(t) ==
    /\ Return(t, "retention")
    /\ override' = IF req[t].slug \in Tracked
                   THEN [override EXCEPT ![req[t].slug] = req[t].policy] ELSE override
    /\ UNCHANGED <<source, default>>

\* POST /settings/retention: validation, and one commit.
SetDefault(t) ==
    /\ server = "up" /\ pc[t] = "idle"
    /\ requests < MaxRequests /\ requests' = requests + 1
    /\ default' \in Policies
    /\ UNCHANGED <<source, override, artwork, server, pc, req, run, faults>>

StartRequest(t) == StartAdd(t) \/ StartRemove(t) \/ StartSettings(t)

\* What a request does once it has begun.
Serve(t) ==
    \/ SlugTaken(t)
    \/ SlugFree(t)
    \/ CheckDuplicate(t)
    \/ Insert(t)
    \/ Remove(t)
    \/ SaveCategory(t)
    \/ SaveRetention(t)

-----------------------------------------------------------------------------
(* run_cycle, as far as it uses what is above.                             *)

StartCycle(t) ==
    /\ server = "up"
    /\ Goto(t, "idle", "artwork")
    /\ run' = [run EXCEPT ![t].list = Listed, ![t].todo = Listed]
    /\ UNCHANGED <<tables, artwork, server, req, counters>>

\* The cycle goes on with the locals r.
Continue(t, from, to, r) ==
    /\ Goto(t, from, to)
    /\ run' = [run EXCEPT ![t] = r]
    /\ UNCHANGED <<tables, wiped, server, req, counters>>

\* Mutant of HasArtwork: a recorded path is taken for a file.
HasPath(s) == avatar[s]

\* The SELECT of avatar_path, and is_file().
HasArtwork(s) == avatar[s] /\ image[s] # "none"

\* ensure_channel_artwork for one more channel.
CheckArtwork(t) ==
    /\ \E c \in run[t].todo :
          \/ /\ HasArtwork(c.slug)
             /\ Continue(t, "artwork", "artwork", [run[t] EXCEPT !.todo = @ \ {c}])
          \/ /\ ~HasArtwork(c.slug)
             /\ Continue(t, "artwork", "avatar", [run[t] EXCEPT !.todo = @ \ {c}, !.hand = c])
    /\ UNCHANGED <<avatar, image>>

AvatarFetched(t) == Continue(t, "avatar", "open", run[t]) /\ UNCHANGED <<avatar, image>>

\* Nothing found, or an exception: next cycle.
NoAvatar(t) ==
    /\ Continue(t, "avatar", "artwork", [run[t] EXCEPT !.hand = NoRow])
    /\ UNCHANGED <<avatar, image>>

\* Mutant of OpenImage: the path is recorded before the file is there.
OpenRecorded(t) ==
    /\ Continue(t, "open", "write", run[t])
    /\ image' = [image EXCEPT ![run[t].hand.slug] = "partial"]
    /\ avatar' = [avatar EXCEPT ![run[t].hand.slug] = TRUE]

\* write_bytes creates the file, or truncates the one there is ...
OpenImage(t) ==
    /\ Continue(t, "open", "write", run[t])
    /\ image' = [image EXCEPT ![run[t].hand.slug] = "partial"]
    /\ UNCHANGED avatar

\* ... and fills it, which nobody sees if the directory entry is gone by now.
WriteImage(t) ==
    /\ Continue(t, "write", "record", run[t])
    /\ image' = [image EXCEPT ![run[t].hand.slug] = IF @ = "none" THEN @ ELSE run[t].hand.id]
    /\ UNCHANGED avatar

\* The upsert of avatar_path.
RecordAvatar(t) ==
    /\ Continue(t, "record", "artwork", [run[t] EXCEPT !.hand = NoRow])
    /\ avatar' = [avatar EXCEPT ![run[t].hand.slug] = TRUE]
    /\ UNCHANGED image

ArtworkDone(t) ==
    /\ run[t].todo = {}
    /\ Continue(t, "artwork", "default", run[t])
    /\ UNCHANGED <<avatar, image>>

\* After all the downloads.
ReadDefault(t) ==
    /\ Continue(t, "default", "retain",
                [run[t] EXCEPT !.fallback = DefaultRetention, !.todo = run[t].list])
    /\ UNCHANGED <<avatar, image>>

\* The policy the cycle applies to the channel c of its list.
AppliedTo(t, c) == Effective(c.retention, run[t].fallback)

ApplyRetention(t) ==
    /\ \E c \in run[t].todo :
          Continue(t, "retain", "retain", [run[t] EXCEPT !.todo = @ \ {c}])
    /\ UNCHANGED <<avatar, image>>

EndCycle(t) ==
    /\ run[t].todo = {}
    /\ Continue(t, "retain", "idle", NoRun)
    /\ UNCHANGED <<avatar, image>>

CycleStep(t) ==
    \/ CheckArtwork(t)
    \/ AvatarFetched(t)
    \/ NoAvatar(t)
    \/ OpenImage(t)
    \/ WriteImage(t)
    \/ RecordAvatar(t)
    \/ ArtworkDone(t)
    \/ ReadDefault(t)
    \/ ApplyRetention(t)
    \/ EndCycle(t)

-----------------------------------------------------------------------------
(* Faults.                                                                 *)

\* The process dies; what is committed or written stays.
Crash ==
    /\ "crash" \in Faults /\ server # "down"
    /\ server' = "down"
    /\ pc' = [t \in Threads |-> "idle"]
    /\ req' = [t \in Threads |-> NoForm]
    /\ run' = [t \in Threads |-> NoRun]
    /\ UNCHANGED <<tables, artwork, requests>>

\* An OSError of the mkdir or the write ends the cycle: no try around them.
DiskFails(t) ==
    /\ "disk" \in Faults
    /\ pc[t] \in {"open", "write"}
    /\ pc' = [pc EXCEPT ![t] = "idle"]
    /\ run' = [run EXCEPT ![t] = NoRun]
    /\ UNCHANGED <<tables, artwork, server, req, requests>>

\* The operator clears the artwork directory of a file.
Wipe(s) ==
    /\ "wipe" \in Faults /\ image[s] # "none"
    /\ image' = [image EXCEPT ![s] = "none"]
    /\ wiped' = wiped \cup {s}
    /\ UNCHANGED <<tables, avatar, server, pc, req, run, requests>>

Fault ==
    /\ faults < MaxFaults /\ faults' = faults + 1
    /\ \/ Crash
       \/ \E t \in Cycles : DiskFails(t)
       \/ \E s \in Slugs : Wipe(s)

\* README.md: "the app-wide policy every channel falls back to unless it has
\* its own override".
PolicyOf(s) == IF override[s] = NoOverride THEN DefaultRetention ELSE override[s]

\* NoSlug stands for the default among the settings that were changed.
ChangedNow == {s \in Slugs : source'[s] # source[s] \/ override'[s] # override[s]}
                 \cup (IF default' # default THEN {NoSlug} ELSE {})

RecordHistory ==
    /\ inForce' = [t \in Cycles |-> [s \in Slugs |->
          IF pc'[t] = "idle" THEN {}
          ELSE inForce[t][s] \cup {p \in {PolicyOf(s)'} : source'[s] # NoSource}]]
    /\ touched' = [t \in Cycles |-> IF pc'[t] = "idle" THEN {} ELSE touched[t] \cup ChangedNow]

Step ==
    \/ ImportChannels
    \/ ImportDefault
    \/ \E t \in Admins : StartRequest(t) \/ SetDefault(t) \/ Serve(t)
    \/ \E t \in Cycles : StartCycle(t) \/ CycleStep(t)
    \/ Fault

Next == Step /\ RecordHistory

Spec == Init /\ [][Next]_vars

\* The container restarts, requests and cycles that have begun go on, cycles
\* keep coming, and a channel whose picture is asked for ever answers some time.
Fairness ==
    /\ WF_server(ImportChannels \/ ImportDefault)
    /\ \A t \in Admins : WF_<<pc, req>>(Serve(t))
    /\ \A t \in Cycles : WF_<<pc, run>>(StartCycle(t) \/ CycleStep(t))
    /\ \A t \in Cycles : SF_pc(AvatarFetched(t))

FairSpec == Spec /\ Fairness
=============================================================================
