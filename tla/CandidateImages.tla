-------------------------- MODULE CandidateImages --------------------------
(***************************************************************************)
(* Where the images of a pinned deploy come from, and which of them stay:  *)
(* the cache of source trees (pinned_runtime_sources.py), the candidate    *)
(* builds (pinned_runtime_rebuild.py, build_context_export.py, the build   *)
(* stages of rebuild_pinned_runtime in compose_service.py) and the image   *)
(* references that outlive a deploy (c6c_image_retention.py).              *)
(*                                                                         *)
(* A rebuild holds the mutation lock from its first read to its last tag.  *)
(* A rehearsal of the isolated driver fills the same cache without it.     *)
(* Every step may raise or be the last of its process, the power may fail, *)
(* the operator edits the build arguments at any time and rotates the      *)
(* pinset between rebuilds, and Docker may collect whatever image has no   *)
(* name and no container.                                                  *)
(*                                                                         *)
(* Abstracted: an image is its slot, the source tree and the arguments it  *)
(* was built from, whether that tree was whole, and its digest, which a    *)
(* second build need not reproduce.  What lies between the candidate and   *)
(* the containers (databases, migrations, one-shots) is PinnedDeploy's.  A *)
(* directory of a dead attempt has a random name that nobody looks up, and *)
(* is left out.                                                            *)
(***************************************************************************)
EXTENDS Naturals, Sequences

CONSTANTS
    Pinsets, First,      \* source pinsets; the one pinned at first
    Trees, Needs,        \* source revisions; the trees of each pinset, in order
    AppSlots,            \* slots of the paired Map builder
    ComposeSlots,        \* slots that compose builds
    RoleOf,              \* the position of a slot's tree among its pinset's
    None,                \* no directory, no image
    Digests,             \* what tells two builds of the same input apart
    MaxRuns,             \* bound: rebuilds, and rehearsals, begun
    MaxEdits             \* bound: edits of the arguments, rotations

Slots == AppSlots \cup ComposeSlots
Actors == {"rebuild", "rehearsal"}
Args == 0..1

\* A directory of the cache: its source.json, and how much of its tree there
\* is: "fresh" is written and not yet synced, "cut" partly deleted under the
\* hands of the one who fills it.
Entries == [record : BOOLEAN, tree : {"none", "half", "cut", "fresh", "whole"}]

Images == [slot : Slots, tree : Trees, args : Args \cup {None}, whole : BOOLEAN, digest : Digests]

ASSUME PinsetAssumption == First \in Pinsets /\ Needs \in [Pinsets -> Trees \X Trees]
\* A pinset is the hash of its two revisions.
ASSUME PinsetsDiffer == \A p, q \in Pinsets : Needs[p] = Needs[q] => p = q
ASSUME SlotAssumption == RoleOf \in [Slots -> 1..2] /\ AppSlots \cap ComposeSlots = {}
ASSUME NoneAssumption == None \notin Entries \cup Images \cup Args
ASSUME BoundAssumption == MaxRuns \in [Actors -> Nat] /\ MaxEdits \in Nat

VARIABLES
    pinned, args,        \* the pinned pinset; the build arguments in .env
    cache,               \* pinned-runtime-sources: a directory per revision
    part,                \* the partial directory each actor fills
    pc, walk,            \* each actor's step, and its place among its sources
    run,                 \* the rebuild's locals
    tags,                \* the image with the candidate tag of a pinset and slot
    kept,                \* images with a content-address reference
    containers,          \* the image each service container was made from
    record,              \* deploy-status.json; its args are history
    outcome,             \* how the last rebuild ended
    crossed,             \* history: a rehearsal ran beside a rebuild
    drifted,             \* history: the committed pinset was built again with
                         \* other arguments
    runs, edits

host == <<pinned, args>>
sources == <<cache, part, walk>>
docker == <<tags, kept, containers>>
bounds == <<runs, edits>>
vars == <<host, sources, pc, run, docker, record, outcome, crossed, drifted, bounds>>

TreeOf(slot, p) == Needs[p][RoleOf[slot]]
SourceSteps == {"look", "exists", "clear", "clearing", "fetch", "fill", "sync", "place"}
Steps == {"off", "prune", "app", "compose", "ensure", "judge", "converge", "up", "commit", "retain", "untag"} \cup SourceSteps

NoImages == [s \in Slots |-> None]
NoRecord == [state |-> "none", pinset |-> First, args |-> 0, images |-> NoImages]

WalkTo(p) == [pinset |-> p, index |-> 1, again |-> FALSE]
RunWith(values) == [args |-> values, images |-> NoImages, left |-> {}]

Init ==
    /\ pinned = First /\ args = 0
    /\ cache = [t \in Trees |-> None] /\ part = [a \in Actors |-> None]
    /\ pc = [a \in Actors |-> "off"]
    /\ walk = [a \in Actors |-> WalkTo(First)]
    /\ run = RunWith(0)
    /\ tags = [p \in Pinsets |-> NoImages] /\ kept = {} /\ containers = NoImages
    /\ record = NoRecord /\ outcome = "none"
    /\ crossed = FALSE /\ drifted = FALSE
    /\ runs = [a \in Actors |-> 0] /\ edits = 0

At(a, step) == pc[a] = step
Goto(a, step) == pc' = [pc EXCEPT ![a] = step]

\* An actor ends: what it wrote stays, its partial directory is nobody's.
Ends(a) ==
    /\ Goto(a, "off") /\ part' = [part EXCEPT ![a] = None] /\ walk' = [walk EXCEPT ![a] = WalkTo(First)]
    /\ run' = IF a = "rebuild" THEN RunWith(0) ELSE run

-----------------------------------------------------------------------------
(* The operator                                                              *)
Edit == edits < MaxEdits /\ edits' = edits + 1
        /\ UNCHANGED <<sources, pc, run, docker, record, outcome, crossed, drifted, runs>>
EditArgs == Edit /\ args' = 1 - args /\ UNCHANGED pinned

\* Every rotation takes the lock that a rebuild holds.
Rotate(p) == Edit /\ At("rebuild", "off") /\ p # pinned /\ pinned' = p /\ UNCHANGED args

\* A rebuild reads the release and freezes the .env after it took the lock.
Start(a) ==
    /\ At(a, "off") /\ runs[a] < MaxRuns[a] /\ runs' = [runs EXCEPT ![a] = @ + 1]
    /\ Goto(a, "look")
    /\ walk' = [walk EXCEPT ![a] = WalkTo(pinned)]
    /\ crossed' = (crossed \/ \E b \in Actors \ {a} : ~At(b, "off"))
    /\ UNCHANGED <<host, cache, part, docker, record, drifted, edits>>
Rebuild ==
    /\ Start("rebuild")
    /\ run' = RunWith(args) /\ outcome' = "none"
Rehearse == Start("rehearsal") /\ UNCHANGED <<run, outcome>>

-----------------------------------------------------------------------------
(* materialize_pinned_runtime_sources, by either actor                       *)
Mine(a) == Needs[walk[a].pinset][walk[a].index]
OnlySources == UNCHANGED <<host, docker, record, outcome, crossed, drifted, bounds>>
Stays == UNCHANGED <<walk, run>>

\* The source is there: the next one, and after the last whatever follows.
Advance(a) ==
    \/ /\ walk[a].index = 1 /\ Goto(a, "look")
       /\ walk' = [walk EXCEPT ![a] = [pinset |-> @.pinset, index |-> 2, again |-> FALSE]] /\ UNCHANGED <<part, run>>
    \/ walk[a].index = 2 /\ a = "rebuild" /\ Goto(a, "prune") /\ UNCHANGED <<part, walk, run>>
    \/ walk[a].index = 2 /\ a = "rehearsal" /\ Ends(a)

\* The source is not there, or it was removed: made at the first look, an
\* error at the second.
Missing(a) ==
    \/ ~walk[a].again /\ Goto(a, "fetch") /\ UNCHANGED <<part, walk, run>>
    \/ walk[a].again /\ Ends(a)

Recorded(e) == e # None /\ e.record

\* _read_source: a record with its tree is taken for the source.
Look(a) ==
    /\ At(a, "look") /\ OnlySources /\ UNCHANGED cache
    /\ LET e == cache[Mine(a)] IN
       \/ ~Recorded(e) /\ Goto(a, "exists") /\ UNCHANGED <<part, walk, run>>
       \/ Recorded(e) /\ e.tree # "none" /\ Advance(a)
       \/ Recorded(e) /\ e.tree = "none" /\ Goto(a, "clear") /\ UNCHANGED <<part, walk, run>>

\* Whether the directory is there is asked after its record was not.
Exists(a) ==
    /\ At(a, "exists") /\ OnlySources /\ UNCHANGED cache
    /\ \/ cache[Mine(a)] = None /\ Missing(a)
       \/ cache[Mine(a)] # None /\ Goto(a, "clear") /\ UNCHANGED <<part, walk, run>>

\* rmtree of a named directory, in no order of its contents.
Clear(a) ==
    /\ At(a, "clear") /\ OnlySources /\ UNCHANGED part /\ Stays
    /\ cache[Mine(a)] # None /\ Goto(a, "clearing")
    /\ cache' \in {[cache EXCEPT ![Mine(a)].record = FALSE],
                   [cache EXCEPT ![Mine(a)].tree = IF @ = "none" THEN "none" ELSE "half"],
                   [cache EXCEPT ![Mine(a)].tree = "none"]}
Cleared(a) ==
    /\ At(a, "clearing") /\ cache[Mine(a)] # None /\ OnlySources
    /\ cache' = [cache EXCEPT ![Mine(a)] = None] /\ Missing(a)

Fetch(a) ==
    /\ At(a, "fetch") /\ OnlySources /\ UNCHANGED cache /\ Stays
    /\ part' = [part EXCEPT ![a] = [record |-> FALSE, tree |-> "half"]] /\ Goto(a, "fill")

\* The tree and then its record are written: what was deleted meanwhile
\* stays deleted.
Filled(e) == [record |-> TRUE, tree |-> IF e.tree = "half" THEN "fresh" ELSE e.tree]

\* The rename to the final name before what it names is on disk: mutant.
Fill_Unsynced(a) ==
    /\ At(a, "fill") /\ part[a] # None /\ OnlySources /\ UNCHANGED cache /\ Stays
    /\ part' = [part EXCEPT ![a] = Filled(@)] /\ Goto(a, "place")

Fill(a) ==
    /\ At(a, "fill") /\ part[a] # None /\ OnlySources /\ UNCHANGED cache /\ Stays
    /\ part' = [part EXCEPT ![a] = Filled(@)] /\ Goto(a, "sync")

Synced(e) == IF e # None /\ e.tree = "fresh" THEN [e EXCEPT !.tree = "whole"] ELSE e
Sync(a) ==
    /\ At(a, "sync") /\ OnlySources /\ Stays
    /\ part' = [b \in Actors |-> Synced(part[b])] /\ cache' = [t \in Trees |-> Synced(cache[t])]
    /\ Goto(a, "place")

\* The rename; a directory that is there already wins unless it is empty, and
\* a partial directory that is gone cannot be renamed.  Then a second look.
Empty == [record |-> FALSE, tree |-> "none"]
Place(a) ==
    /\ At(a, "place") /\ OnlySources /\ UNCHANGED run
    /\ cache' = [cache EXCEPT ![Mine(a)] = IF part[a] # None /\ @ \in {None, Empty} THEN part[a] ELSE @]
    /\ part' = [part EXCEPT ![a] = None]
    /\ walk' = [walk EXCEPT ![a].again = TRUE] /\ Goto(a, "look")

Materialize(a) ==
    \/ Look(a) \/ Exists(a) \/ Clear(a) \/ Cleared(a)
    \/ Fetch(a) \/ Fill(a) \/ Sync(a) \/ Place(a)

-----------------------------------------------------------------------------
(* The rebuild                                                               *)
Mover(step) == At("rebuild", step) /\ UNCHANGED <<host, crossed, bounds>>
Proceed(step) == Goto("rebuild", step)
Aim == walk["rebuild"].pinset
Tagged(slot) == tags[Aim][slot]
Needed(t) == \E i \in 1..2 : Needs[Aim][i] = t
Fixed == UNCHANGED <<docker, record, outcome, drifted>>

\* prune_pinned_runtime_sources: of every other directory the record goes
\* first, so that a half deleted tree is nobody's source.
PruneRecord ==
    /\ Mover("prune") /\ Fixed /\ UNCHANGED <<pc, walk, run, part>>
    /\ \E t \in Trees : ~Needed(t) /\ Recorded(cache[t])
                        /\ cache' = [cache EXCEPT ![t].record = FALSE]

PruneTree ==
    /\ Mover("prune") /\ Fixed /\ UNCHANGED <<pc, walk, run, part>>
    /\ \E t \in Trees : ~Needed(t) /\ cache[t] # None /\ ~cache[t].record
                        /\ cache' \in {[cache EXCEPT ![t] = None], [cache EXCEPT ![t].tree = "half"]}

\* The directory a rehearsal is filling is an interrupted attempt to it.
PrunePartial ==
    /\ Mover("prune") /\ Fixed /\ UNCHANGED <<pc, walk, run, cache>>
    /\ part["rehearsal"] # None
    /\ part' \in {[part EXCEPT !["rehearsal"] = None],
                  [part EXCEPT !["rehearsal"] = [record |-> FALSE, tree |-> "cut"]]}

\* What could not be removed is left to the next rebuild.
Pruned ==
    /\ Mover("prune") /\ Fixed /\ Proceed("app") /\ UNCHANGED <<cache, part, walk>>
    /\ run' = [run EXCEPT !.left = IF \A s \in AppSlots : Tagged(s) # None THEN {} ELSE AppSlots]

\* A build takes the tree as it finds it.
Builds(slot, values) ==
    LET e == cache[TreeOf(slot, Aim)] IN
    {i \in [slot : {slot}, tree : {TreeOf(slot, Aim)}, args : {values}, whole : BOOLEAN, digest : Digests] :
         e # None /\ i.whole = (e.tree \in {"fresh", "whole"})}
Build(slot, image) ==
    /\ slot \in run.left /\ run' = [run EXCEPT !.left = @ \ {slot}]
    /\ tags' = [tags EXCEPT ![Aim][slot] = image]
    /\ UNCHANGED <<pc, sources, kept, containers, record, outcome>>

\* The Map builder reads the sources alone; it builds the pair of images
\* unless both tags are there.
BuildApp ==
    /\ Mover("app") /\ UNCHANGED drifted
    /\ \E s \in AppSlots : \E i \in Builds(s, None) : Build(s, i)

\* A tag taken for the image it was built from: mutant.
Stale_TagOnly(slot) == Tagged(slot) = None

\* The label of the image says which build section, arguments included, it
\* was built from.
Stale(slot) == Tagged(slot) = None \/ Tagged(slot).args # run.args

AppBuilt ==
    /\ Mover("app") /\ run.left = {} /\ Fixed /\ Proceed("compose") /\ UNCHANGED sources
    /\ run' = [run EXCEPT !.left = {s \in ComposeSlots : Stale(s)}]

BuildCompose ==
    /\ Mover("compose")
    /\ \E s \in ComposeSlots : \E i \in Builds(s, run.args) : Build(s, i)
    /\ drifted' = (drifted \/ (record.pinset = Aim /\ record.args # run.args))

\* After a build every image must carry the current label.
ComposeBuilt ==
    /\ Mover("compose") /\ run.left = {} /\ Fixed /\ UNCHANGED sources
    /\ \A s \in ComposeSlots : ~Stale(s)
    /\ Proceed("ensure") /\ run' = [run EXCEPT !.images = tags[Aim]]

\* ensure_generation_references, one image at a time.
Names(images) == {images[s] : s \in Slots} \ {None}
Wanted == Names(run.images)
Ensure ==
    /\ Mover("ensure") /\ UNCHANGED <<pc, run, sources, tags, containers, record, outcome, drifted>>
    /\ \E i \in Wanted \ kept : kept' = kept \cup {i}
Ensured ==
    /\ Mover("ensure") /\ Wanted \subseteq kept
    /\ Fixed /\ Proceed("judge") /\ UNCHANGED <<run, sources>>

\* A committed deploy of the same pair and images only converges, unless the
\* operator asked for a restart or an adoption.
SameDeploy == record.state = "committed" /\ Needs[record.pinset] = Needs[Aim] /\ record.images = run.images
\* reconcile_generation_references before the commit: mutant.
Judge_Retains ==
    /\ Mover("judge") /\ UNCHANGED <<run, sources, tags, containers, outcome, drifted>>
    /\ kept' = Wanted
    /\ \/ SameDeploy /\ Proceed("converge") /\ UNCHANGED record
       \/ Proceed("up") /\ record' = [NoRecord EXCEPT !.state = "in_progress"]

Judge ==
    /\ Mover("judge") /\ UNCHANGED <<run, sources, docker, outcome, drifted>>
    /\ \/ SameDeploy /\ Proceed("converge") /\ UNCHANGED record
       \/ Proceed("up") /\ record' = [NoRecord EXCEPT !.state = "in_progress"]

\* Compose makes the containers one by one; a failure leaves what it made.
Ups == {c \in [Slots -> Images \cup {None}] : \A s \in Slots : c[s] \in {containers[s], run.images[s]}}
Up(step, next) ==
    /\ Mover(step) /\ UNCHANGED <<cache, tags, kept, record, outcome, drifted>>
    /\ \/ containers' = run.images /\ Proceed(next) /\ UNCHANGED <<run, part, walk>>
       \/ containers' \in Ups /\ Ends("rebuild")
Deploy == Up("up", "commit")

\* A convergence that leaves the references alone: mutant.
Converge_Only ==
    /\ Mover("converge") /\ UNCHANGED <<cache, tags, kept, record, drifted>>
    /\ containers' = run.images /\ Ends("rebuild") /\ outcome' = "clean"

Converge == Up("converge", "retain")

Commit ==
    /\ Mover("commit") /\ Proceed("retain")
    /\ record' = [state |-> "committed", pinset |-> Aim, args |-> run.args, images |-> run.images]
    /\ drifted' = FALSE /\ UNCHANGED <<run, sources, docker, outcome>>

\* _reconcile_pinned_runtime_image_retention: the references of other images,
\* then the candidate tags of other pinsets.  What fails is a warning.
Retain ==
    /\ Mover("retain") /\ UNCHANGED <<pc, run, sources, tags, containers, record, outcome, drifted>>
    /\ \E i \in kept \ Wanted : kept' = kept \ {i}
Retained ==
    /\ Mover("retain") /\ kept = Wanted
    /\ Fixed /\ Proceed("untag") /\ UNCHANGED <<run, sources>>

\* The candidate tags of the active pinset as well: mutant.
Untag_All ==
    /\ Mover("untag") /\ UNCHANGED <<pc, run, sources, kept, containers, record, outcome, drifted>>
    /\ \E p \in Pinsets, s \in Slots :
           /\ tags[p][s] # None
           /\ tags' = [tags EXCEPT ![p][s] = None]

Untag ==
    /\ Mover("untag") /\ UNCHANGED <<pc, run, sources, kept, containers, record, outcome, drifted>>
    /\ \E p \in Pinsets \ {Aim}, s \in Slots :
           /\ tags[p][s] # None
           /\ tags' = [tags EXCEPT ![p][s] = None]
Untagged == \A p \in Pinsets \ {Aim} : tags[p] = NoImages
Finish ==
    /\ Mover("untag") /\ Untagged /\ Ends("rebuild") /\ outcome' = "clean"
    /\ UNCHANGED <<cache, docker, record, drifted>>
Warn ==
    /\ \E step \in {"retain", "untag"} : Mover(step)
    /\ Ends("rebuild") /\ outcome' = "warned" /\ UNCHANGED <<cache, docker, record, drifted>>

-----------------------------------------------------------------------------
(* Faults                                                                    *)
Crash == UNCHANGED <<host, docker, record, outcome, crossed, drifted, bounds>>

\* A step raises, or the process is killed.
Stop(a) == ~At(a, "off") /\ Crash /\ Ends(a) /\ UNCHANGED cache

\* Without power, what was not synced is lost from its files.
Lost(e) == IF e # None /\ e.tree = "fresh" THEN [e EXCEPT !.tree = "half"] ELSE e
PowerFails ==
    /\ \E a \in Actors : ~At(a, "off")
    /\ Crash /\ pc' = [a \in Actors |-> "off"] /\ part' = [a \in Actors |-> None]
    /\ walk' = [a \in Actors |-> WalkTo(First)] /\ run' = RunWith(0)
    /\ cache' = [t \in Trees |-> Lost(cache[t])]

Sources == \E a \in Actors : Materialize(a)
Prune == PruneRecord \/ PruneTree \/ PrunePartial \/ Pruned
Candidate == BuildApp \/ AppBuilt \/ BuildCompose \/ ComposeBuilt
Deployment == Ensure \/ Ensured \/ Judge \/ Deploy \/ Converge \/ Commit
Retention == Retain \/ Retained \/ Untag \/ Finish \/ Warn

Next ==
    \/ EditArgs \/ (\E p \in Pinsets : Rotate(p)) \/ Rebuild \/ Rehearse
    \/ Sources \/ Prune \/ Candidate \/ Deployment \/ Retention
    \/ (\E a \in Actors : Stop(a)) \/ PowerFails

Spec == Init /\ [][Next]_vars

-----------------------------------------------------------------------------
(* Properties                                                                *)

\* Every variable stays in its type.
TypeOK ==
    /\ pinned \in Pinsets /\ args \in Args
    /\ cache \in [Trees -> Entries \cup {None}] /\ part \in [Actors -> Entries \cup {None}]
    /\ pc \in [Actors -> Steps]
    /\ walk \in [Actors -> [pinset : Pinsets, index : 1..2, again : BOOLEAN]]
    /\ run \in [args : Args, images : [Slots -> Images \cup {None}], left : SUBSET Slots]
    /\ tags \in [Pinsets -> [Slots -> Images \cup {None}]]
    /\ kept \subseteq Images /\ containers \in [Slots -> Images \cup {None}]
    /\ record \in [state : {"none", "in_progress", "committed"}, pinset : Pinsets, args : Args,
                   images : [Slots -> Images \cup {None}]]
    /\ outcome \in {"none", "clean", "warned"}
    /\ crossed \in BOOLEAN /\ drifted \in BOOLEAN
    /\ runs \in [Actors -> Nat] /\ edits \in 0..MaxEdits

\* Whatever a service container was made from, and whatever a committed
\* record names, has a reference of its own: a collection of unnamed images,
\* a rebuild of the same tags or the cleanup after another deploy never takes
\* the image of a running or stopped service away (the docstring of
\* reconcile_candidate_build_references).
RuntimeImagesAreKept ==
    Names(containers) \cup (IF record.state = "committed" THEN Names(record.images) ELSE {}) \subseteq kept

\* What a committed deploy runs was built from the pinned revisions and with
\* the arguments its run had frozen, and from whole trees unless a rehearsal
\* ran beside a rebuild, whatever was killed, lost, edited or rotated before
\* and meanwhile.
CommittedIsAsPinned ==
    record.state = "committed" =>
        \A s \in Slots :
            LET i == record.images[s] IN
            /\ i # None /\ i.tree = TreeOf(s, record.pinset)
            /\ i.whole \/ crossed
            /\ s \in ComposeSlots => i.args = record.args

\* A rerun of a committed deploy finds the very images it committed, and so
\* converges instead of stopping the services and migrating again, unless a
\* rebuild with other arguments came between.
RerunFindsItsImages ==
    record.state = "committed" /\ ~drifted => tags[record.pinset] = record.images

\* A rebuild that reports no warning leaves the references and tags of its
\* own images alone: what failed runs left behind does not pile up.
NothingPilesUp ==
    outcome = "clean" =>
        /\ kept = Names(record.images)
        /\ \A p \in Pinsets \ {record.pinset} : tags[p] = NoImages

\* A source with a name and a record is whole.
NamedSourcesAreWhole == \A t \in Trees : Recorded(cache[t]) => cache[t].tree = "whole"
=============================================================================
