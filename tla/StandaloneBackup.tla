-------------------------- MODULE StandaloneBackup --------------------------
(***************************************************************************)
(* The backup directory of one role (standalone_backup.py): who creates    *)
(* and collects under the role lock, the backend's jobs that create        *)
(* (job_runner.py), and the pg_dump that goes on in the container when its *)
(* client is gone.                                                         *)
(*                                                                         *)
(* A backup is named by the second it began, its stamp: a dump, a checksum *)
(* and a manifest of that name.  The files on disk are the stamps that have*)
(* one.  Each create takes a later second than the ones before it: two     *)
(* within one second, and a clock that steps back, are left out.           *)
(*                                                                         *)
(* Abstracted: a dump's content is its stamp, what a manifest says is its  *)
(* stamp and the instance it was made from; refusals before any effect     *)
(* (space, ownership, an unreachable container) are the steps that raise.  *)
(***************************************************************************)
EXTENDS Integers, FiniteSets

CONSTANTS
    Jobs,        \* threads of the backend that run a create
    Clis,        \* ktdctl processes: cron and operators
    None,        \* the lock when nobody holds it
    Sources,     \* the (container, database) a role can be dumped from
    Keeps,       \* values of gc --keep
    MaxStamp,    \* bound: creates that get as far as a stamp
    MaxKills,    \* bound: killed processes
    MaxMoves     \* bound: moves of the role to another instance

ASSUME ProcessesAssumption == Jobs \cap Clis = {} /\ None \notin Jobs \cup Clis
ASSUME KeepsAssumption == Keeps \subseteq Nat \ {0}
ASSUME BoundAssumption == MaxStamp \in Nat /\ MaxKills \in Nat /\ MaxMoves \in Nat

Procs == Jobs \cup Clis
Stamps == 1 .. MaxStamp
Files == [dumps : SUBSET Stamps, shas : SUBSET Stamps, manifests : SUBSET Stamps]
NoFiles == [dumps |-> {}, shas |-> {}, manifests |-> {}]

VARIABLES
    local,       \* the files of the role's directory
    madeFrom,    \* the instance in each manifest
    clock,       \* the last second a create began in
    source,      \* where the role is dumped from now
    lock,        \* who holds .backup.lock
    proc,        \* of each process: its step pc, the stamp it makes, its own source src,
                 \* its --keep and, in plan, the sets gc still unlinks
    server,      \* the pg_dumps in the container; pg_stat_activity shows the seen ones
    blind,       \* history: a client was killed before its pg_dump had connected
    jobs, closed,          \* the job records, and whether the runner is shutting down
    served,      \* where the role was dumped from when the backend started
    kills, moves

disk == <<local, madeFrom, clock>>
runner == <<jobs, closed, served>>
container == <<server, blind>>
bounds == <<kills, moves>>
vars == <<disk, source, lock, proc, container, runner, bounds>>

-----------------------------------------------------------------------------
\* A process that does nothing.
Idle == [pc |-> "idle", stamp |-> 0, src |-> None, keep |-> 0, plan |-> {}]

\* The source comes from the environment, which the backend read when it started.
Begin(p, step, keep) ==
    proc' = [proc EXCEPT ![p] =
               [pc |-> step, stamp |-> 0, keep |-> keep, plan |-> {},
                src |-> IF p \in Jobs THEN served ELSE source]]

Goto(p, step) == proc' = [proc EXCEPT ![p].pc = step]

\* A thread hands its result to the event loop; a ktdctl process ends.
Ended(p, outcome) ==
    IF p \in Jobs THEN Goto(p, outcome) ELSE proc' = [proc EXCEPT ![p] = Idle]

\* Mutant: the lock file is opened and never locked.
TakeLock_Unlocked(p, step) == Goto(p, step) /\ lock' = p

\* flock(LOCK_EX | LOCK_NB): whoever finds it held raises.
TakeLock(p, step) ==
    \/ lock = None /\ lock' = p /\ Goto(p, step)
    \/ lock # None /\ Ended(p, "raised") /\ UNCHANGED lock

Unlock(p, outcome) == lock' = None /\ Ended(p, outcome)

\* A set is restorable when all three of its files are there.
Whole(files) == files.dumps \cap files.shas \cap files.manifests

From(s) == {t \in local.manifests : madeFrom[t] = s}

-----------------------------------------------------------------------------
(* create_standalone_backup.                                                 *)

CreateSteps == {"begin", "locked", "dumping", "dumped", "placed", "hashed"}

\* ktdctl db-backup create.
CliCreate(p) ==
    /\ p \in Clis /\ proc[p].pc = "idle"
    /\ Begin(p, "begin", 0)
    /\ UNCHANGED <<disk, source, lock, container, runner, bounds>>

LockToCreate(p) ==
    /\ proc[p].pc = "begin"
    /\ TakeLock(p, "locked")
    /\ UNCHANGED <<disk, source, container, runner, bounds>>

\* pg_stat_activity of the server shows a pg_dump of this database.
DumpRunning(s) == \E d \in server : d.seen /\ d.src = s

\* Mutant: whether a pg_dump still runs is not asked.
StartDump_Unchecked(p) ==
    /\ proc[p].pc = "locked" /\ clock < MaxStamp
    /\ clock' = clock + 1
    /\ server' = server \cup {[stamp |-> clock + 1, src |-> proc[p].src, seen |-> FALSE]}
    /\ proc' = [proc EXCEPT ![p].pc = "dumping", ![p].stamp = clock + 1]
    /\ UNCHANGED <<local, madeFrom, source, lock, blind, runner, bounds>>

\* _pg_dump_already_running finds none; the docker exec begins.
StartDump(p) ==
    /\ proc[p].pc = "locked" /\ clock < MaxStamp
    /\ ~DumpRunning(proc[p].src)
    /\ clock' = clock + 1
    /\ server' = server \cup {[stamp |-> clock + 1, src |-> proc[p].src, seen |-> FALSE]}
    /\ proc' = [proc EXCEPT ![p].pc = "dumping", ![p].stamp = clock + 1]
    /\ UNCHANGED <<local, madeFrom, source, lock, blind, runner, bounds>>

\* A pg_dump connects, and pg_stat_activity shows it.
Connect(d) ==
    /\ d \in server /\ ~d.seen
    /\ server' = (server \ {d}) \cup {[d EXCEPT !.seen = TRUE]}
    /\ UNCHANGED <<disk, source, lock, proc, blind, runner, bounds>>

Client(d) == {p \in Procs : proc[p].pc = "dumping" /\ proc[p].stamp = d.stamp}

\* A pg_dump ends; its client, if it still waits, goes on or sees it failed.
DumpEnds(d) ==
    /\ d \in server /\ d.seen
    /\ server' = server \ {d}
    /\ \/ Client(d) = {} /\ UNCHANGED <<proc, lock>>
       \/ \E p \in Client(d) : Goto(p, "dumped") /\ UNCHANGED lock
       \/ \E p \in Client(d) : Unlock(p, "raised")
    /\ UNCHANGED <<disk, source, blind, runner, bounds>>

\* docker exec is given up after hours; the pg_dump goes on.
DumpTimesOut(p) ==
    /\ proc[p].pc = "dumping" /\ \E d \in server : d.stamp = proc[p].stamp /\ d.seen
    /\ Unlock(p, "raised")
    /\ UNCHANGED <<disk, source, container, runner, bounds>>

\* The copy out of the container replaces the dump in one step.
PlaceDump(p) ==
    /\ proc[p].pc = "dumped"
    /\ local' = [local EXCEPT !.dumps = @ \cup {proc[p].stamp}]
    /\ Goto(p, "placed")
    /\ UNCHANGED <<madeFrom, clock, source, lock, container, runner, bounds>>

\* The copy is empty, and taken back.
EmptyDump(p) ==
    /\ proc[p].pc = "placed"
    /\ local' = [local EXCEPT !.dumps = @ \ {proc[p].stamp}]
    /\ Unlock(p, "raised")
    /\ UNCHANGED <<madeFrom, clock, source, container, runner, bounds>>

WriteSha(p) ==
    /\ proc[p].pc = "placed"
    /\ local' = [local EXCEPT !.shas = @ \cup {proc[p].stamp}]
    /\ Goto(p, "hashed")
    /\ UNCHANGED <<madeFrom, clock, source, lock, container, runner, bounds>>

\* The manifest publishes the backup, though its chmod may still raise.
WriteManifest(p) ==
    /\ proc[p].pc = "hashed"
    /\ local' = [local EXCEPT !.manifests = @ \cup {proc[p].stamp}]
    /\ madeFrom' = [madeFrom EXCEPT ![proc[p].stamp] = proc[p].src]
    /\ \E outcome \in {"ok", "raised"} : Unlock(p, outcome)
    /\ UNCHANGED <<clock, source, container, runner, bounds>>

\* Any other step that raises: what is on disk stays there.
CreateRaises(p) ==
    /\ \/ proc[p].pc = "begin" /\ Ended(p, "raised") /\ UNCHANGED lock
       \/ proc[p].pc \in {"locked", "dumped", "placed", "hashed"} /\ Unlock(p, "raised")
    /\ UNCHANGED <<disk, source, container, runner, bounds>>

CreateStep(p) ==
    \/ LockToCreate(p) \/ StartDump(p) \/ DumpTimesOut(p) \/ PlaceDump(p) \/ EmptyDump(p)
    \/ WriteSha(p) \/ WriteManifest(p) \/ CreateRaises(p)

-----------------------------------------------------------------------------
(* gc_standalone_backups.                                                    *)

GcSteps == {"gc", "listing", "unlink_dump", "unlink_sha", "unlink_manifest", "orphan_dump",
            "orphan_sha", "orphan_manifest"}

Gc(p, k) ==
    /\ p \in Clis /\ proc[p].pc = "idle"
    /\ Begin(p, "gc", k)
    /\ UNCHANGED <<disk, source, lock, container, runner, bounds>>

\* Mutant: dumps of every instance are counted in one row.
Surplus_AllInstances(s, k) ==
    {t \in local.manifests : Cardinality({u \in local.manifests : u > t}) >= k}

\* Mutant: one too many.
Surplus_OneMore(s, k) == {t \in From(s) : Cardinality({u \in From(s) : u > t}) >= k - 1}

\* All but the newest k of the instance the role is dumped from.
Surplus(s, k) == {t \in From(s) : Cardinality({u \in From(s) : u > t}) >= k}

\* Dumps without a manifest, left by creates that died.
Orphans == local.dumps \ local.manifests

LockToCollect(p) ==
    /\ proc[p].pc = "gc"
    /\ TakeLock(p, "listing")
    /\ UNCHANGED <<disk, source, container, runner, bounds>>

\* The oldest goes first.
First(sets) == {t \in sets : \A u \in sets : t <= u}

ListSurplus(p) ==
    /\ proc[p].pc = "listing"
    /\ proc' = [proc EXCEPT ![p].pc = "unlink_dump",
                             ![p].plan = Surplus(proc[p].src, proc[p].keep)]
    /\ UNCHANGED <<disk, source, lock, container, runner, bounds>>

\* One set after another, and of each set the dump, the checksum, the manifest.
UnlinkDump(p) ==
    /\ proc[p].pc \in {"unlink_dump", "orphan_dump"}
    /\ \E t \in First(proc[p].plan) : local' = [local EXCEPT !.dumps = @ \ {t}]
    /\ Goto(p, IF proc[p].pc = "unlink_dump" THEN "unlink_sha" ELSE "orphan_sha")
    /\ UNCHANGED <<madeFrom, clock, source, lock, container, runner, bounds>>

UnlinkSha(p) ==
    /\ proc[p].pc \in {"unlink_sha", "orphan_sha"}
    /\ \E t \in First(proc[p].plan) : local' = [local EXCEPT !.shas = @ \ {t}]
    /\ Goto(p, IF proc[p].pc = "unlink_sha" THEN "unlink_manifest" ELSE "orphan_manifest")
    /\ UNCHANGED <<madeFrom, clock, source, lock, container, runner, bounds>>

UnlinkManifest(p) ==
    /\ proc[p].pc \in {"unlink_manifest", "orphan_manifest"}
    /\ \E t \in First(proc[p].plan) :
          /\ local' = [local EXCEPT !.manifests = @ \ {t}]
          /\ madeFrom' = [madeFrom EXCEPT ![t] = None]
          /\ proc' = [proc EXCEPT ![p].plan = @ \ {t},
                ![p].pc = IF @ = "unlink_manifest" THEN "unlink_dump" ELSE "orphan_dump"]
    /\ UNCHANGED <<clock, source, lock, container, runner, bounds>>

\* The surplus is gone; what the directory holds without a manifest is next.
CollectOrphans(p) ==
    /\ proc[p].pc = "unlink_dump" /\ proc[p].plan = {}
    /\ proc' = [proc EXCEPT ![p].pc = "orphan_dump", ![p].plan = Orphans]
    /\ UNCHANGED <<disk, source, lock, container, runner, bounds>>

GcEnds(p) ==
    /\ proc[p].pc = "orphan_dump" /\ proc[p].plan = {}
    /\ Unlock(p, "ok")
    /\ UNCHANGED <<disk, source, container, runner, bounds>>

\* A manifest that cannot be read, a file that cannot be unlinked: the rest stays.
GcRaises(p) ==
    /\ proc[p].pc \in GcSteps \ {"gc"}
    /\ Unlock(p, "raised")
    /\ UNCHANGED <<disk, source, container, runner, bounds>>

GcStep(p) ==
    \/ LockToCollect(p) \/ ListSurplus(p) \/ UnlinkDump(p) \/ UnlinkSha(p)
    \/ UnlinkManifest(p) \/ CollectOrphans(p) \/ GcRaises(p) \/ GcEnds(p)

-----------------------------------------------------------------------------
(* The job runner of the backend.                                            *)

\* POST /backups/{role}: one running job per role; a new record, a new thread.
Submit(j) ==
    /\ j \in Jobs /\ proc[j].pc = "idle" /\ ~closed
    /\ \A i \in Jobs : jobs[i] # "running"
    /\ jobs' = [jobs EXCEPT ![j] = "running"]
    /\ Begin(j, "begin", 0)
    /\ UNCHANGED <<disk, source, lock, container, closed, served, bounds>>

\* Mutant: only a result is recorded, and an exception ends the task.
Finish_ResultOnly(j) ==
    /\ j \in Jobs /\ proc[j].pc \in {"ok", "raised"}
    /\ jobs' = [jobs EXCEPT ![j] = IF @ = "running" /\ proc[j].pc = "ok"
                                   THEN "succeeded" ELSE @]
    /\ proc' = [proc EXCEPT ![j] = Idle]
    /\ UNCHANGED <<disk, source, lock, container, closed, served, bounds>>

\* Mutant: whoever comes back has succeeded.
Finish_AlwaysOk(j) ==
    /\ j \in Jobs /\ proc[j].pc \in {"ok", "raised"}
    /\ jobs' = [jobs EXCEPT ![j] = IF @ = "running" THEN "succeeded" ELSE @]
    /\ proc' = [proc EXCEPT ![j] = Idle]
    /\ UNCHANGED <<disk, source, lock, container, closed, served, bounds>>

\* The event loop takes the thread's result into the record, unless the task that
\* would do it was cancelled.
Finish(j) ==
    /\ j \in Jobs /\ proc[j].pc \in {"ok", "raised"}
    /\ jobs' = [jobs EXCEPT ![j] = IF @ = "running"
                                   THEN IF proc[j].pc = "ok" THEN "succeeded" ELSE "failed"
                                   ELSE @]
    /\ proc' = [proc EXCEPT ![j] = Idle]
    /\ UNCHANGED <<disk, source, lock, container, closed, served, bounds>>

Shutdown ==
    /\ ~closed /\ closed' = TRUE
    /\ UNCHANGED <<disk, source, lock, proc, container, jobs, served, bounds>>

\* The loop that ends cancels the task, not the thread.
Cancel(j) ==
    /\ j \in Jobs /\ closed /\ jobs[j] = "running"
    /\ jobs' = [jobs EXCEPT ![j] = "failed"]
    /\ UNCHANGED <<disk, source, lock, proc, container, closed, served, bounds>>

\* A process ends when its threads have, and the next one knows no jobs.
Restart ==
    /\ closed /\ \A j \in Jobs : proc[j].pc = "idle"
    /\ jobs' = [j \in Jobs |-> "none"] /\ closed' = FALSE /\ served' = source
    /\ UNCHANGED <<disk, source, lock, proc, container, bounds>>

-----------------------------------------------------------------------------
(* Kills, and a role that moves.                                             *)

\* The kernel drops a dead process's lock; its pg_dump goes on.
Killed(dead) ==
    /\ kills < MaxKills /\ kills' = kills + 1
    /\ proc' = [p \in Procs |-> IF p \in dead THEN Idle ELSE proc[p]]
    /\ lock' = IF lock \in dead THEN None ELSE lock
    /\ blind' = (blind \/ \E p \in dead, d \in server :
                              proc[p].pc = "dumping" /\ proc[p].stamp = d.stamp /\ ~d.seen)
    /\ UNCHANGED <<disk, source, server, moves>>

KillCli(p) == p \in Clis /\ proc[p].pc # "idle" /\ Killed({p}) /\ UNCHANGED runner

KillBackend ==
    /\ \E j \in Jobs : proc[j].pc # "idle"
    /\ Killed(Jobs)
    /\ jobs' = [j \in Jobs |-> "none"] /\ closed' = FALSE /\ served' = source

\* The role is moved to another instance; commands and a backend that start later see it.
MoveRole ==
    /\ moves < MaxMoves /\ moves' = moves + 1
    /\ source' \in Sources \ {source}
    /\ UNCHANGED <<disk, lock, proc, container, runner, kills>>

-----------------------------------------------------------------------------
Init ==
    /\ local = NoFiles /\ madeFrom = [t \in Stamps |-> None] /\ clock = 0
    /\ source \in Sources
    /\ lock = None
    /\ proc = [p \in Procs |-> Idle]
    /\ server = {} /\ blind = FALSE
    /\ jobs = [j \in Jobs |-> "none"] /\ closed = FALSE /\ served = source
    /\ kills = 0 /\ moves = 0

\* What a process does of itself once it has begun.
Step(p) == CreateStep(p) \/ GcStep(p)

Container == \E d \in server : Connect(d) \/ DumpEnds(d)

Next ==
    \/ \E p \in Procs : Step(p)
    \/ \E p \in Clis : CliCreate(p) \/ KillCli(p) \/ \E k \in Keeps : Gc(p, k)
    \/ Container
    \/ \E j \in Jobs : Submit(j) \/ Finish(j) \/ Cancel(j)
    \/ Shutdown \/ Restart \/ KillBackend \/ MoveRole

Spec == Init /\ [][Next]_vars

-----------------------------------------------------------------------------
(* Properties.                                                               *)

Steps == CreateSteps \cup GcSteps \cup {"idle", "ok", "raised"}
Processes == [pc : Steps, stamp : 0 .. MaxStamp, src : Sources \cup {None},
              keep : Keeps \cup {0}, plan : SUBSET Stamps]

\* Files, processes, records and the copy keep their shape.
TypeOK ==
    /\ local \in Files
    /\ madeFrom \in [Stamps -> Sources \cup {None}] /\ clock \in 0 .. MaxStamp
    /\ source \in Sources /\ served \in Sources
    /\ lock \in Procs \cup {None}
    /\ proc \in [Procs -> Processes]
    /\ server \subseteq [stamp : Stamps, src : Sources, seen : BOOLEAN] /\ blind \in BOOLEAN
    /\ jobs \in [Jobs -> {"none", "running", "succeeded", "failed"}] /\ closed \in BOOLEAN
    /\ kills \in 0 .. MaxKills /\ moves \in 0 .. MaxMoves

\* The newest backup that is listed of each instance, the one a restore picks, is
\* whole, whatever create or gc died between its files.
NewestIsWhole ==
    \A s \in Sources : \A t \in From(s) :
        (\A u \in From(s) : u <= t) => t \in Whole(local)

\* A create that ends publishes a whole backup: nobody collected its dump, which has
\* no manifest until then, as an orphan.
PublishedIsWhole ==
    [][ \A t \in Stamps : t \in local'.manifests \ local.manifests => t \in Whole(local') ]_vars

\* A whole backup is broken only by a gc of its own instance, and one that leaves at
\* least --keep newer whole ones.
GcKeepsNewest ==
    [][ \A t \in Whole(local) \ Whole(local') :
          \E p \in Clis :
             /\ proc[p].pc = "unlink_dump" /\ madeFrom[t] = proc[p].src
             /\ Cardinality({u \in Whole(local) \cap From(proc[p].src) : u > t})
                   >= proc[p].keep ]_vars

\* One pg_dump at a time loads a database, also after the process that began it died or
\* gave it up, unless it died before its pg_dump had connected.
OneDump == ~blind => \A d, e \in server : d.src = e.src => d = e

\* A job recorded as succeeded has left a whole backup, or a newer one of its instance
\* is listed, which a gc in between may have kept instead.
SucceededIsTrue ==
    [][ \A j \in Jobs :
          jobs[j] = "running" /\ jobs'[j] = "succeeded" =>
             \/ proc[j].stamp \in Whole(local)
             \/ \E u \in From(proc[j].src) : u > proc[j].stamp /\ u \in Whole(local) ]_vars

\* A record that is running has a thread that will end it: a record without one would
\* refuse the role's jobs for as long as the process lives.
RunningHasThread == \A j \in Jobs : jobs[j] = "running" => proc[j].pc # "idle"

=============================================================================
