----------------------------- MODULE DagsterPlane -----------------------------
(***************************************************************************)
(* The shared Dagster plane (a daemon and a webserver) and the locations    *)
(* that move between it and their own daemon.  The installed release lists  *)
(* the locations of the plane in a workspace file that both containers have *)
(* mounted; a running container keeps the file it was started with, one     *)
(* that is started again finds the release installed then.                  *)
(*                                                                          *)
(* Three commands change it, one at a time under G: the cutover script      *)
(* (dagster-shared-cutover.sh: forward, resume, rollback of one location),  *)
(* `dagster-plane converge' and the pinned rebuild, which the script runs   *)
(* for the locations of the pinned pair and an operator for himself.  Any   *)
(* step may fail or be killed.  Of the rebuild only what concerns Dagster   *)
(* is here (the rest is PinnedDeploy); runs, ticks, images, versions and    *)
(* the consumers of a location are left out.                                *)
(***************************************************************************)
EXTENDS TrustedInstall

CONSTANTS
    Locations,
    Pinned,     \* the locations of the Map and PinVi pair
    Lists       \* the workspace of each release

ASSUME PlaneAssumption == Pinned \subseteq Locations /\ Lists \in [Revisions -> SUBSET Locations]

VARIABLES
    plane,      \* the two containers: running, the workspace of the digest, the one mounted
    own,        \* of each location, its own daemon: "running", "stopped" or "gone"
    code,       \* of each location, the instance its code server writes to, or "down"
    saved,      \* of each location, the containers made since the snapshot of a state
                \* directory that got past the fence, or None
    task,       \* the command that holds G
    deviated    \* history: the operator left the runbook

planeVars == <<plane, own, code, saved, task, deviated>>

Both == {"daemon", "webserver"}
Installed == Lists[app]
NoTask == [at |-> "idle", kind |-> "none", of |-> None, todo |-> {}, fenced |-> FALSE]

PlaneInit ==
    /\ plane = [s \in Both |-> [on |-> TRUE, made |-> Installed, loads |-> Installed]]
    /\ own = [t \in Locations |-> IF t \in Installed THEN "gone" ELSE "running"]
    /\ code = [t \in Locations |-> IF t \in Installed THEN "shared" ELSE "own"]
    /\ saved = [t \in Locations |-> None] /\ task = NoTask /\ deviated = FALSE

-----------------------------------------------------------------------------
Doing(kinds, where) == task.at = where /\ task.kind \in kinds
Cutover == {"forward", "resume", "rollback"}
Proceed(where) == task' = [task EXCEPT !.at = where]
Raise(where, todo) == task' = [task EXCEPT !.at = where, !.todo = todo]
Release == task' = NoTask /\ G' = G \ {"plane"}
Makes(s) == saved' = [t \in Locations |-> IF saved[t] = None THEN None ELSE saved[t] \cup {s}]
Spoil(ts) == saved' = [t \in Locations |-> IF t \in ts THEN None ELSE saved[t]]
Others(t) == \E u \in Installed \ {t} : own[u] = "running"

\* Both containers run, mount the file of their digest and do not list t.
PlaneClean(t) == \A s \in Both : plane[s].on /\ plane[s].loads = plane[s].made /\ t \notin plane[s].loads

\* Healthy: the digest of the mounted file is that of the container.
PlaneHealthy == \A s \in Both : plane[s].on /\ plane[s].loads = plane[s].made

\* _require_plane_location_owners_fenced
OwnersFenced == \A t \in Installed : own[t] # "running"

Drifted(s) == ~plane[s].on \/ plane[s].made # Installed

Begin(kind, t) ==
    /\ task.at = "idle" /\ G = {} /\ G' = {"plane"}
    /\ task' = [NoTask EXCEPT !.at = "check", !.kind = kind, !.of = t]
    /\ deviated' = (deviated \/ (kind \in Cutover /\ Others(t)))
    /\ UNCHANGED <<plane, own, code, saved>>

Switching(t) == IF t \in Pinned THEN "rebuild" ELSE "switch"

\* a-precheck: the release lists it, its old services run and the plane is clean.
ForwardCheck ==
    LET t == task.of IN
    /\ Doing({"forward"}, "check")
    /\ t \in Installed /\ own[t] = "running" /\ code[t] = "own" /\ PlaneHealthy /\ PlaneClean(t)
    /\ Proceed("fence")
    /\ UNCHANGED <<plane, own, code, saved, G, deviated>>

Fence ==
    /\ Doing({"forward"}, "fence") /\ PlaneClean(task.of)
    /\ task' = [task EXCEPT !.at = "stop", !.fenced = TRUE]
    /\ UNCHANGED <<plane, own, code, saved, G, deviated>>

StopOld ==
    /\ Doing({"forward"}, "stop") /\ own' = [own EXCEPT ![task.of] = "stopped"] /\ Proceed("record")
    /\ UNCHANGED <<plane, code, saved, G, deviated>>

RecordFence ==
    /\ Doing({"forward"}, "record") /\ saved' = [saved EXCEPT ![task.of] = {}] /\ Proceed("drain")
    /\ UNCHANGED <<plane, own, code, G, deviated>>

\* No run of the old instance is left, and nothing of the application points to one.
Drain ==
    /\ Doing({"forward"}, "drain") /\ Proceed(Switching(task.of))
    /\ UNCHANGED <<plane, own, code, saved, G, deviated>>

\* r-precheck: a fence that still stands; the old daemon has not ticked after it.
ResumeCheck ==
    LET t == task.of IN
    /\ Doing({"resume"}, "check") /\ t \in Installed /\ saved[t] # None /\ own[t] # "running"
    /\ task' = [task EXCEPT !.at = Switching(t), !.fenced = TRUE]
    /\ UNCHANGED <<plane, own, code, saved, G, deviated>>

SwitchCode ==
    /\ Doing({"forward", "resume"}, "switch") /\ code' = [code EXCEPT ![task.of] = "shared"]
    /\ Proceed("plane")
    /\ UNCHANGED <<plane, own, saved, G, deviated>>

\* Unless the rebuild has made both containers of the installed workspace already.
JudgePlane ==
    /\ Doing({"forward", "resume"}, "plane")
    /\ IF saved[task.of] = Both /\ \A s \in Both : ~Drifted(s) THEN Proceed("verify")
       ELSE Raise("up", Both)
    /\ UNCHANGED <<plane, own, code, saved, G, deviated>>

\* docker compose up of one of the two; one that already is as rendered may be left.
UpPlane(s) ==
    /\ task.at = "up" /\ s \in task.todo /\ Raise("up", task.todo \ {s})
    /\ plane' = [plane EXCEPT ![s] = [on |-> TRUE, made |-> Installed, loads |-> Installed]]
    /\ Makes(s) \/ (~Drifted(s) /\ UNCHANGED saved)
    /\ UNCHANGED <<own, code, G, deviated>>

UpDone ==
    /\ task.at = "up" /\ task.todo = {}
    /\ Proceed(CASE task.kind \in {"forward", "resume"} -> "verify"
                 [] task.kind = "rollback" -> "verify"
                 [] task.kind = "rebuild" -> "finish"
                 [] OTHER -> "health")
    /\ UNCHANGED <<plane, own, code, saved, G, deviated>>

VerifyForward ==
    LET t == task.of IN
    /\ Doing({"forward", "resume"}, "verify")
    /\ saved[t] = Both /\ PlaneHealthy /\ t \in plane["webserver"].loads
    /\ Proceed("retire")
    /\ UNCHANGED <<plane, own, code, saved, G, deviated>>

Retire ==
    /\ Doing({"forward", "resume"}, "retire") /\ own[task.of] # "running"
    /\ own' = [own EXCEPT ![task.of] = "gone"] /\ Release
    /\ UNCHANGED <<plane, code, saved, deviated>>

\* f-precheck and f-plane: a plane that does not run is left for later.
RollbackCheck ==
    LET t == task.of IN
    /\ Doing({"rollback"}, "check") /\ t \notin Installed
    /\ IF plane["daemon"].on THEN Raise("up", Both) ELSE Proceed(Switching(t))
    /\ UNCHANGED <<plane, own, code, saved, G, deviated>>

VerifyRollback ==
    /\ Doing({"rollback"}, "verify") /\ PlaneHealthy /\ task.of \notin plane["webserver"].loads
    /\ Proceed(Switching(task.of))
    /\ UNCHANGED <<plane, own, code, saved, G, deviated>>

OldCode ==
    /\ Doing({"rollback"}, "switch") /\ code' = [code EXCEPT ![task.of] = "own"] /\ Proceed("old")
    /\ UNCHANGED <<plane, own, saved, G, deviated>>

\* Its ticks spoil every earlier state directory.
OldStart ==
    /\ Doing({"rollback"}, "old") /\ own' = [own EXCEPT ![task.of] = "running"]
    /\ Spoil({task.of}) /\ Release
    /\ UNCHANGED <<plane, code, deviated>>

-----------------------------------------------------------------------------
(* dagster-plane converge and the pinned rebuild.                            *)

\* Mutant: what the plane would load is not compared with what still runs.
ConvergeCheck_Unfenced ==
    /\ Doing({"converge"}, "check")
    /\ IF \E s \in Both : Drifted(s) THEN Raise("up", Both) ELSE Proceed("health")
    /\ UNCHANGED <<plane, own, code, saved, G, deviated>>

ConvergeCheck ==
    /\ Doing({"converge"}, "check") /\ OwnersFenced
    /\ IF \E s \in Both : Drifted(s) THEN Raise("up", Both) ELSE Proceed("health")
    /\ UNCHANGED <<plane, own, code, saved, G, deviated>>

ConvergeReport ==
    /\ Doing({"converge"}, "health") /\ Release
    /\ UNCHANGED <<plane, own, code, saved, deviated>>

Rebuilding == Doing({"rebuild"}, "check") \/ Doing(Cutover, "rebuild")
Returned == Pinned \ Installed

\* _require_retired_dagster_containers_stopped
RetiredStopped == \A t \in Pinned \cap Installed : own[t] # "running"

\* _require_shared_plane_releases_own_targets: the webserver is asked; one that cannot
\* answer is not asked again when the daemon does not run.
PlaneReleases(ts) ==
    \/ ts = {}
    \/ plane["webserver"].on /\ ts \cap plane["webserver"].loads = {}
    \/ ~plane["daemon"].on

RebuildCheck ==
    /\ Rebuilding /\ RetiredStopped /\ PlaneReleases(Returned)
    /\ \/ Proceed("slots_down")
       \/ Proceed("slots_up")
    /\ UNCHANGED <<plane, own, code, saved, G, deviated>>

\* The slots of the pair stop, the own daemons of a returned location with them.
SlotsDown ==
    /\ task.at = "slots_down" /\ Proceed("slots_up")
    /\ code' = [t \in Locations |-> IF t \in Pinned THEN "down" ELSE code[t]]
    /\ own' = [t \in Locations |-> IF t \in Returned /\ own[t] = "running" THEN "stopped" ELSE own[t]]
    /\ UNCHANGED <<plane, saved, G, deviated>>

SlotsUp ==
    /\ task.at = "slots_up" /\ Proceed("converge")
    /\ code' = [t \in Locations |-> IF t \notin Pinned THEN code[t]
                                    ELSE IF t \in Installed THEN "shared" ELSE "own"]
    /\ UNCHANGED <<plane, own, saved, G, deviated>>

\* _converge_shared_dagster_plane: a scheduler that was stopped stays stopped.
ConvergePlane ==
    LET kept == IF plane["daemon"].on THEN Both ELSE {"webserver"} IN
    /\ task.at = "converge"
    /\ \/ Pinned \cap Installed = {} /\ Proceed("finish")
       \/ /\ Pinned \cap Installed # {} /\ OwnersFenced
          /\ IF \E s \in kept : Drifted(s)
             THEN Raise("up_slots", kept)
             ELSE Proceed("finish")
    /\ UNCHANGED <<plane, own, code, saved, G, deviated>>

UpSlots(s) ==
    /\ task.at = "up_slots" /\ s \in task.todo
    /\ Raise(IF task.todo = {s} THEN "finish" ELSE "up_slots", task.todo \ {s})
    /\ plane' = [plane EXCEPT ![s] = [on |-> TRUE, made |-> Installed, loads |-> Installed]]
    /\ Makes(s)
    /\ UNCHANGED <<own, code, G, deviated>>

\* The webserver has loaded the shared locations; the own daemons come up last.
FinishSlots ==
    /\ task.at = "finish"
    /\ Pinned \cap Installed \subseteq plane["webserver"].loads
    /\ own' = [t \in Locations |-> IF t \in Returned THEN "running" ELSE own[t]]
    /\ Spoil(Returned)
    /\ IF task.kind \in {"forward", "resume"} THEN Proceed("plane") /\ UNCHANGED G ELSE Release
    /\ UNCHANGED <<plane, code, deviated>>

\* A deploy that fails stops what it started of the pair; the failure goes on.
StopFailedSlots ==
    /\ task.at \in {"slots_up", "converge", "up_slots", "finish"} /\ Proceed("failed")
    /\ code' = [t \in Locations |-> IF t \in Pinned THEN "down" ELSE code[t]]
    /\ own' = [t \in Locations |-> IF t \in Returned /\ own[t] = "running" THEN "stopped" ELSE own[t]]
    /\ UNCHANGED <<plane, saved, G, deviated>>

-----------------------------------------------------------------------------
(* Failures, and whoever uses Docker without G.                              *)

\* An `up' that ends between the two leaves one container on the old workspace.
Torn == task.at \in {"up", "up_slots", "failed"} /\ task.todo # {} /\ task.todo # Both

\* Mutant: the old services come back although the code server has moved.
Fails_CodeMoved ==
    /\ task.at # "idle" /\ Release
    /\ own' = IF /\ task.kind \in {"forward", "resume"} /\ task.fenced
                 /\ own[task.of] = "stopped" /\ PlaneClean(task.of)
              THEN [own EXCEPT ![task.of] = "running"] ELSE own
    /\ Spoil({t \in Locations : own'[t] = "running"})
    /\ deviated' = (deviated \/ Torn)
    /\ UNCHANGED <<plane, code>>

\* fail and recover: past the fence the old services come back, if nothing has moved.
Fails ==
    /\ task.at # "idle" /\ Release
    /\ own' = IF /\ task.kind \in {"forward", "resume"} /\ task.fenced
                 /\ own[task.of] = "stopped" /\ code[task.of] = "own" /\ PlaneClean(task.of)
              THEN [own EXCEPT ![task.of] = "running"] ELSE own
    /\ Spoil({t \in Locations : own'[t] = "running"})
    /\ deviated' = (deviated \/ Torn)
    /\ UNCHANGED <<plane, code>>

TaskDies ==
    /\ task.at # "idle" /\ Release
    /\ deviated' = (deviated \/ Torn)
    /\ UNCHANGED <<plane, own, code, saved>>

\* A crash, a reboot or a `docker start': the mount is made anew.
PlaneStarts(s) ==
    /\ plane' = [plane EXCEPT ![s].on = TRUE, ![s].loads = Installed]
    /\ deviated' = (deviated \/ ~OwnersFenced
                      \/ \E u \in Both \ {s} : plane[u].on /\ plane[u].loads # Installed)
    /\ UNCHANGED <<own, code, saved, task, G>>

PlaneStops(s) ==
    /\ plane[s].on /\ plane' = [plane EXCEPT ![s].on = FALSE]
    /\ UNCHANGED <<own, code, saved, task, G, deviated>>

PlaneNext ==
    \/ /\ \/ \E t \in Locations, kind \in Cutover : Begin(kind, t)
          \/ \E kind \in {"converge", "rebuild"} : Begin(kind, None)
          \/ ForwardCheck \/ Fence \/ StopOld \/ RecordFence \/ Drain \/ ResumeCheck
          \/ SwitchCode \/ JudgePlane \/ UpDone \/ VerifyForward \/ Retire
          \/ RollbackCheck \/ VerifyRollback \/ OldCode \/ OldStart
          \/ ConvergeCheck \/ ConvergeReport
          \/ RebuildCheck \/ SlotsDown \/ SlotsUp \/ ConvergePlane \/ FinishSlots
          \/ StopFailedSlots
          \/ \E s \in Both : UpPlane(s) \/ UpSlots(s) \/ PlaneStarts(s) \/ PlaneStops(s)
          \/ Fails
       /\ UNCHANGED kills
    \/ TaskDies /\ kills < MaxKills /\ kills' = kills + 1

-----------------------------------------------------------------------------
\* No schedule is fired twice: the plane loads no location whose own daemon runs, however
\* releases, cutovers and rebuilds follow each other, fail and are resumed or taken back,
\* until the operator starts the plane between an install and its cutover, cuts over one
\* location while another one waits, starts one of the two containers without the other
\* or goes on after an `up' that ended between them.
OneScheduler ==
    ~deviated => \A t \in Locations :
        own[t] = "running" => ~(plane["daemon"].on /\ t \in plane["daemon"].loads)

\* A daemon of its own never schedules against a code server that has moved to the shared
\* instance, also when a cutover or a rebuild fails, is resumed or is taken back halfway.
OwnDaemonOwnInstance == \A t \in Locations : own[t] = "running" => code[t] # "shared"
=============================================================================
