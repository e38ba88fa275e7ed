------------------------ MODULE ComposeTransaction ------------------------
(***************************************************************************)
(* Changes of one container through the Manager's own compose file:        *)
(* control, config update and reset (docker_service.py), ensure            *)
(* (compose_service.py), the host locks they take (c6c_deployment.py) and  *)
(* the single-file boundary every Docker mutation passes.                  *)
(*                                                                         *)
(* The lock is chosen from the .env file and the mode from the effective   *)
(* environment, in which the process wins over the file: the backend loads *)
(* .env when it starts (main.py), a CLI brings nothing.  The operator may  *)
(* edit the compose file, the .env and the external inputs at any time,    *)
(* a write or Docker may fail, and a process may die between any two       *)
(* steps.  Another holder of G stands for the pinned commands.             *)
(*                                                                         *)
(* Abstracted: the compose file is the configuration it gives the          *)
(* container, the .env its mode and a revision, the external inputs a      *)
(* revision; which documents the protected-value rules refuse is a set.    *)
(* Docker gets the frozen inputs on stdin, so a check of the boundary and  *)
(* the command it admits are one step.  Containers of other projects take  *)
(* no lock and are left out.                                               *)
(***************************************************************************)
EXTENDS Naturals

CONSTANTS
    Backends, Clis,      \* processes of the Manager that may act at once
    Configs, First,      \* configurations of the container; the installed one
    Bare,                \* the one without ports, environment and networks
    Refused,             \* configurations the rules refuse as they are written
    Leaks,               \* <<configuration, .env revision>> refused once resolved
    VolumeGraph,         \* the volume graph of each configuration
    Examples,            \* revisions of .env that hold published example secrets
    Nobody, Outside,     \* no holder; a pinned command that holds G
    MaxRequests,         \* bound: operations begun
    MaxEdits,            \* bound: operator edits
    MaxFaults            \* bound: failed writes and killed processes

Actors == Backends \cup Clis
Modes == {"local", "production"}
EnvFiles == [mode : Modes, rev : 0..1]
Locks == {"G", "home"}
Operations == {"update", "reset", "start", "create", "stop", "restart", "ensure"}

\* What a container was created from: the compose configuration, the
\* environment file and the external inputs, and whether it runs.
Containers == [config : Configs, env : EnvFiles, ext : 0..1, running : BOOLEAN]

ASSUME ActorAssumption == Backends \cap Clis = {}
ASSUME HolderAssumption == Nobody \notin Actors /\ Outside \notin Actors /\ Nobody # Outside
ASSUME ConfigAssumption == {First, Bare} \subseteq Configs /\ Nobody \notin Containers \cup EnvFiles
ASSUME RuleAssumption == First \notin Refused /\ 0 \notin Examples /\ <<First, 0>> \notin Leaks
ASSUME BoundAssumption == {MaxRequests, MaxEdits, MaxFaults} \subseteq Nat

VARIABLES
    compose, env, ext,   \* docker-compose.yml, .env, the external env files
    container,           \* Nobody, or one of Containers
    holder,              \* who has each lock file flocked
    loaded,              \* the .env a process loaded into its environment, or Nobody
    default,             \* _default_compose_config of each process
    pc, tx,              \* each actor's step and its transaction
    requests, edits, faults,
    explained            \* history: something that may part file and container
disk == <<compose, env, ext>>
vars == <<compose, env, ext, container, holder, loaded, default, pc, tx, requests, edits, faults, explained>>

\* wrote: the file may hold this transaction's candidate.  mutated is the code's
\* flag, touched what Docker really did.  outcome "refused" is a contract
\* error, "busy" ManagerMutationActiveError, "post" the post-mutation error.
Outcomes == {"none", "ok", "failed", "refused", "busy", "post"}
Transactions ==
    [op : Operations, want : Configs, env : EnvFiles, base : Configs, ext : 0..1,
     wrote : BOOLEAN, mutated : BOOLEAN, touched : BOOLEAN, post : BOOLEAN, outcome : Outcomes]
Steps == {"idle", "begun", "locked", "based", "ready", "written", "init", "contract", "undo", "undone"}

Blank == [op |-> "stop", want |-> First, env |-> [mode |-> "local", rev |-> 0], base |-> First,
          ext |-> 0, wrote |-> FALSE, mutated |-> FALSE, touched |-> FALSE, post |-> FALSE,
          outcome |-> "none"]

Init ==
    /\ compose = First /\ ext = 0
    /\ env \in [mode : Modes, rev : {0}]
    /\ container \in {Nobody, [config |-> First, env |-> env, ext |-> 0, running |-> TRUE]}
    /\ holder = [l \in Locks |-> Nobody]
    /\ loaded = [a \in Actors |-> IF a \in Backends THEN env ELSE Nobody]
    /\ default = [a \in Actors |-> First]
    /\ pc = [a \in Actors |-> "idle"]
    /\ tx = [a \in Actors |-> Blank]
    /\ requests = 0 /\ edits = 0 /\ faults = 0
    /\ explained = FALSE

(***************************************************************************)
(* What the candidate rules say of a document                              *)
(***************************************************************************)
\* The published example secrets are refused in production only.
SecretsAllowed(e) == e.mode = "production" => e.rev \notin Examples

\* The document refers to no protected value outside its place, and mounts and
\* runs nothing the rules forbid: as written, and with its variables resolved.
DocumentAllowed(config) == config \notin Refused
ResolvedAllowed(config, e) == <<config, e.rev>> \notin Leaks
Allowed(config, e) == SecretsAllowed(e) /\ DocumentAllowed(config) /\ ResolvedAllowed(config, e)

(***************************************************************************)
(* Locks and modes                                                         *)
(***************************************************************************)
\* A lock chosen from the file alone: mutant.
LockOf_FileOnly(a, mode) == IF mode = "local" THEN "home" ELSE "G"

\* The lock file a process takes: G unless the file says local and the process
\* does not explicitly say otherwise.
LockOf(a, mode) ==
    IF mode = "local" /\ (loaded[a] = Nobody \/ loaded[a].mode = "local") THEN "home" ELSE "G"

\* The values a process acts on: its own environment overrides the file.
Effective(a, file) == IF loaded[a] = Nobody THEN file ELSE loaded[a]

\* The lock of a frozen recovery is chosen from the effective environment.
RecoveryLock(a) == IF Effective(a, tx[a].env).mode = "local" THEN "home" ELSE "G"

Free(l, a) == holder[l] \in {Nobody, a}
Inside(a) == \E l \in Locks : holder[l] = a
Released(a) == [l \in Locks |-> IF holder[l] = a THEN Nobody ELSE holder[l]]

Go(a, step) == pc' = [pc EXCEPT ![a] = step]
Set(a, t) == tx' = [tx EXCEPT ![a] = t]

\* The operation returns or raises: every lock it took is released, and of
\* the transaction only what it did and how it ended are remembered.
Finish(a, t, outcome) ==
    /\ Go(a, "idle")
    /\ Set(a, [Blank EXCEPT !.wrote = t.wrote, !.touched = t.touched, !.outcome = outcome])
    /\ holder' = Released(a)

\* control_container, update_container_config, reset_container_config or
\* ensure_target reads the .env to choose its lock.
Begin(a) ==
    /\ pc[a] = "idle" /\ requests < MaxRequests
    /\ \E op \in Operations \ {"create"}, want \in Configs :
           /\ op # "update" => want = First
           /\ op \in {"update", "reset"} => a \in Backends
           /\ op = "ensure" => a \in Clis /\ Effective(a, env).mode = "local"
           /\ Set(a, [Blank EXCEPT !.op = op, !.want = want, !.env = env])
    /\ Go(a, "begun")
    /\ requests' = requests + 1
    /\ UNCHANGED <<disk, container, holder, loaded, default, edits, faults, explained>>

\* The .env and the external inputs are compared byte for byte with the
\* transaction's snapshot of them.
EnvMoved(a) == env # tx[a].env
ExtMoved(a) == ext # tx[a].ext

\* The lock is taken without waiting, and the .env must be the one it was
\* chosen from.
Acquire(a) ==
    LET l == LockOf(a, tx[a].env.mode) IN
    /\ pc[a] = "begun"
    /\ \/ ~Free(l, a) /\ Finish(a, tx[a], "busy")
       \/ Free(l, a) /\ EnvMoved(a) /\ Finish(a, tx[a], "refused")
       \/ /\ Free(l, a) /\ ~EnvMoved(a)
          /\ holder' = [holder EXCEPT ![l] = a]
          /\ Go(a, "locked")
          /\ Set(a, IF tx[a].op = "reset" THEN [tx[a] EXCEPT !.want = default[a]] ELSE tx[a])
    /\ UNCHANGED <<disk, container, loaded, default, requests, edits, faults, explained>>

(***************************************************************************)
(* Control of an existing container through the SDK                        *)
(***************************************************************************)
\* start, stop, restart: the container keeps what it was created from.
Control(a) ==
    /\ pc[a] = "locked" /\ tx[a].op \in {"start", "stop", "restart"} /\ container # Nobody
    /\ \/ container' = [container EXCEPT !.running = tx[a].op # "stop"] /\ Finish(a, tx[a], "ok")
       \/ UNCHANGED container /\ Finish(a, tx[a], "failed")
    /\ UNCHANGED <<disk, loaded, default, requests, edits, faults, explained>>

ControlMissing(a) ==
    /\ pc[a] = "locked" /\ tx[a].op \in {"stop", "restart"} /\ container = Nobody
    /\ Finish(a, tx[a], "failed")
    /\ UNCHANGED <<disk, container, loaded, default, requests, edits, faults, explained>>

\* A failed read taken for a section: mutant.
ReadConfig_Unset(a) ==
    /\ pc[a] = "locked" /\ tx[a].op = "start" /\ container = Nobody
    /\ \E seen \in {compose, Nobody} : Set(a, [tx[a] EXCEPT !.op = "create", !.want = seen])
    /\ UNCHANGED <<disk, container, holder, loaded, default, pc, requests, edits, faults, explained>>

\* start of a container that is not there: its section is read from the
\* compose file and becomes the candidate of a config transaction.  A read
\* that fails gives an empty document, thus a section without any settings.
ReadConfig(a) ==
    /\ pc[a] = "locked" /\ tx[a].op = "start" /\ container = Nobody
    /\ \/ Set(a, [tx[a] EXCEPT !.op = "create", !.want = compose]) /\ UNCHANGED faults
       \/ /\ faults < MaxFaults /\ faults' = faults + 1
          /\ Set(a, [tx[a] EXCEPT !.op = "create", !.want = Bare])
    /\ UNCHANGED <<disk, container, holder, loaded, default, pc, requests, edits, explained>>

(***************************************************************************)
(* The config transaction                                                  *)
(***************************************************************************)
Rewrites(a) == tx[a].op \in {"update", "reset", "create"}

Snapshot(a) ==
    /\ Go(a, "based")
    /\ Set(a, [tx[a] EXCEPT !.base = compose, !.ext = ext])
    /\ UNCHANGED <<disk, container, holder, loaded, default, requests, edits, faults, explained>>

\* A capture that leaves the rules to the candidate: mutant.
Baseline_Unchecked(a) ==
    pc[a] = "locked" /\ (Rewrites(a) \/ tx[a].op = "ensure") /\ Snapshot(a)

\* capture_transaction_unlocked: compose bytes and external inputs, of a
\* document the rules allow; nothing exists yet to undo when it refuses.
Baseline(a) ==
    /\ pc[a] = "locked" /\ (Rewrites(a) \/ tx[a].op = "ensure")
    /\ IF Allowed(compose, Effective(a, tx[a].env))
         THEN Snapshot(a)
         ELSE /\ Finish(a, tx[a], "refused")
              /\ UNCHANGED <<disk, container, loaded, default, requests, edits, faults, explained>>

\* The candidate keeps the volumes, the rules allow it with the baseline's
\* environment and inputs, and the file still holds the baseline.
CandidateAllowed(a) ==
    /\ VolumeGraph[tx[a].want] = VolumeGraph[tx[a].base]
    /\ Allowed(tx[a].want, Effective(a, tx[a].env))
    /\ ~ExtMoved(a) /\ compose = tx[a].base
Candidate(a) ==
    /\ pc[a] = "based" /\ Rewrites(a)
    /\ Go(a, IF CandidateAllowed(a) THEN "ready" ELSE "contract")
    /\ UNCHANGED <<disk, container, holder, loaded, default, tx, requests, edits, faults, explained>>

\* _atomic_write of the candidate; an OSError may come before or after the
\* replace and is handled as a failed recreate.
Write(a) ==
    /\ pc[a] = "ready"
    /\ Set(a, [tx[a] EXCEPT !.wrote = TRUE])
    /\ \/ compose' = tx[a].want /\ Go(a, "written") /\ UNCHANGED faults
       \/ /\ faults < MaxFaults /\ faults' = faults + 1
          /\ compose' \in {compose, tx[a].want}
          /\ Go(a, "undo")
    /\ UNCHANGED <<env, ext, container, holder, loaded, default, requests, edits, explained>>

\* What the mutation boundary compares: the file must hold what Docker is to
\* be given, and nothing else has moved since the capture.
Source(a) == IF Rewrites(a) THEN tx[a].want ELSE tx[a].base
Moved(a) == EnvMoved(a) \/ compose # Source(a) \/ ExtMoved(a)

\* Docker gets the resolved document on stdin and the transaction's values.
Made(a, config) == [config |-> config, env |-> Effective(a, tx[a].env), ext |-> tx[a].ext, running |-> TRUE]
Frozen(a) == Made(a, tx[a].base)

\* A boundary that always takes G: mutant.
RelockBusy_G(a) == ~Free("G", a)

\* compose_service.run takes the lock again, chosen from the .env of now.
RelockBusy(a) == ~Free(LockOf(a, env.mode), a)
AtBoundary(a) == pc[a] \in {"written", "init"} \/ (pc[a] = "based" /\ tx[a].op = "ensure")

\* Another lock is busy: ensure lets ManagerMutationActiveError pass, a config
\* transaction takes it for any other failure.
BoundaryBusy(a) ==
    /\ AtBoundary(a) /\ RelockBusy(a)
    /\ IF Rewrites(a) THEN Go(a, "undo") /\ UNCHANGED <<tx, holder>> ELSE Finish(a, tx[a], "busy")
    /\ UNCHANGED <<disk, container, loaded, default, requests, edits, faults, explained>>

\* A contract error at the boundary: something moved.
BoundaryRefused(a) ==
    /\ AtBoundary(a) /\ ~RelockBusy(a) /\ Moved(a)
    /\ \/ Rewrites(a) /\ Go(a, "contract") /\ UNCHANGED <<tx, holder>>
       \/ ~Rewrites(a) /\ ~tx[a].mutated /\ Finish(a, tx[a], "refused")
       \/ /\ ~Rewrites(a) /\ tx[a].mutated
          /\ Go(a, "undo") /\ Set(a, [tx[a] EXCEPT !.post = TRUE]) /\ UNCHANGED holder
    /\ UNCHANGED <<disk, container, loaded, default, requests, edits, faults, explained>>

\* Docker creates the container anew; when it fails the old one may remain,
\* be gone, or have been replaced.
Recreated(a) ==
    /\ AtBoundary(a) /\ pc[a] # "init" /\ ~RelockBusy(a) /\ ~Moved(a)
    /\ container' = Made(a, Source(a))
    /\ Set(a, [tx[a] EXCEPT !.mutated = TRUE, !.touched = TRUE])
    /\ Go(a, "init")
    /\ UNCHANGED <<disk, holder, loaded, default, requests, edits, faults, explained>>

\* A failed recreate: a config transaction restores, ensure returns.
RecreateFailed(a) ==
    /\ AtBoundary(a) /\ pc[a] # "init" /\ ~RelockBusy(a) /\ ~Moved(a)
    /\ container' \in {container, Nobody, Made(a, Source(a))}
    /\ LET t == [tx[a] EXCEPT !.touched = TRUE] IN
       IF Rewrites(a) THEN Go(a, "undo") /\ Set(a, t) /\ UNCHANGED holder ELSE Finish(a, t, "failed")
    /\ UNCHANGED <<disk, loaded, default, requests, edits, faults, explained>>

\* The init service of the container, where it has one.
InitStep(a) ==
    /\ pc[a] = "init"
    /\ \/ Finish(a, tx[a], "ok")
       \/ ~RelockBusy(a) /\ ~Moved(a) /\ Rewrites(a) /\ Go(a, "undo") /\ UNCHANGED <<tx, holder>>
       \/ ~RelockBusy(a) /\ ~Moved(a) /\ ~Rewrites(a) /\ Finish(a, tx[a], "failed")
    /\ UNCHANGED <<disk, container, loaded, default, requests, edits, faults, explained>>

(***************************************************************************)
(* Refusal and restoration                                                 *)
(***************************************************************************)
\* A handler that re-raises without looking at the file: mutant.
ContractHandler_NoRewrite(a) ==
    /\ pc[a] = "contract"
    /\ IF tx[a].mutated
         THEN Go(a, "undo") /\ Set(a, [tx[a] EXCEPT !.post = TRUE]) /\ UNCHANGED holder
         ELSE Finish(a, tx[a], "refused")
    /\ UNCHANGED <<disk, container, loaded, default, requests, edits, faults, explained>>

\* The contract error's handler: nothing to restore, the file alone, or file
\* and container.
ContractHandler(a) ==
    /\ pc[a] = "contract"
    /\ IF ~tx[a].wrote /\ compose = tx[a].base
         THEN Finish(a, tx[a], "refused") /\ UNCHANGED <<compose, faults, explained>>
       ELSE IF tx[a].mutated
         THEN /\ Go(a, "undo") /\ Set(a, [tx[a] EXCEPT !.post = TRUE])
              /\ UNCHANGED <<holder, compose, faults, explained>>
       ELSE \/ /\ compose' = tx[a].base
               /\ Finish(a, [tx[a] EXCEPT !.wrote = FALSE], "refused")
               /\ UNCHANGED <<faults, explained>>
            \/ /\ faults < MaxFaults /\ faults' = faults + 1
               /\ Finish(a, tx[a], "post") /\ explained' = TRUE
               /\ compose' \in {compose, tx[a].base}
    /\ UNCHANGED <<env, ext, container, loaded, default, requests, edits>>

Ending(a) == IF tx[a].post THEN "post" ELSE "failed"

\* _restore_compose_transaction and _recover_persisted_target_runtime write
\* the baseline back first.
RestoreFile(a) ==
    /\ pc[a] = "undo"
    /\ \/ /\ compose' = tx[a].base
          /\ Set(a, [tx[a] EXCEPT !.wrote = FALSE]) /\ Go(a, "undone")
          /\ UNCHANGED <<holder, faults, explained>>
       \/ /\ faults < MaxFaults /\ faults' = faults + 1
          /\ Finish(a, tx[a], Ending(a)) /\ explained' = TRUE
          /\ compose' \in {compose, tx[a].base}
    /\ UNCHANGED <<env, ext, container, loaded, default, requests, edits>>

\* A recovery that starts the container again without creating it: mutant.
RestoreRuntime_NoRecreate(a) ==
    /\ pc[a] = "undone"
    /\ Free(RecoveryLock(a), a)
    /\ container' = IF container = Nobody THEN Frozen(a) ELSE [container EXCEPT !.running = TRUE]
    /\ Finish(a, [tx[a] EXCEPT !.touched = TRUE], Ending(a))
    /\ UNCHANGED <<disk, loaded, default, requests, edits, faults, explained>>

\* ... then recreate from the frozen baseline, whatever the disk holds by now.
\* The report says when the container was not restored.
RestoreRuntime(a) ==
    /\ pc[a] = "undone"
    /\ \/ /\ Free(RecoveryLock(a), a)
          /\ container' = Frozen(a)
          /\ Finish(a, [tx[a] EXCEPT !.touched = TRUE], Ending(a))
          /\ UNCHANGED explained
       \/ /\ container' \in IF Free(RecoveryLock(a), a)
                              THEN {container, Nobody, Frozen(a)} ELSE {container}
          /\ Finish(a, tx[a], Ending(a)) /\ explained' = TRUE
    /\ UNCHANGED <<disk, loaded, default, requests, edits, faults>>

(***************************************************************************)
(* Everything else that happens on the host                                *)
(***************************************************************************)
\* A process dies: its locks are gone.  A backend that starts again loads
\* the .env and the default configuration of the host as they are by then.
Die(a) ==
    /\ pc[a] # "idle" \/ a \in Backends
    /\ faults < MaxFaults /\ faults' = faults + 1
    /\ Finish(a, tx[a], "none")
    /\ loaded' = [loaded EXCEPT ![a] = IF a \in Backends THEN env ELSE Nobody]
    /\ default' = [default EXCEPT ![a] = compose]
    /\ explained' = (explained \/ Inside(a))
    /\ UNCHANGED <<disk, container, requests, edits>>

\* A pinned command takes G, and later lets it go.
TakeG ==
    /\ holder["G"] = Nobody
    /\ holder' = [holder EXCEPT !["G"] = Outside]
    /\ UNCHANGED <<disk, container, loaded, default, pc, tx, requests, edits, faults, explained>>
GiveG ==
    /\ holder["G"] = Outside
    /\ holder' = [holder EXCEPT !["G"] = Nobody]
    /\ UNCHANGED <<disk, container, loaded, default, pc, tx, requests, edits, faults, explained>>

\* The operator edits the compose file or the mode: both may part the file
\* from the container, the second by letting two mutators in.
OperatorCompose ==
    /\ edits < MaxEdits /\ edits' = edits + 1
    /\ \E c \in Configs \ {compose} : compose' = c
    /\ explained' = TRUE
    /\ UNCHANGED <<env, ext, container, holder, loaded, default, pc, tx, requests, faults>>
OperatorMode ==
    /\ edits < MaxEdits /\ edits' = edits + 1
    /\ \E m \in Modes \ {env.mode} : env' = [env EXCEPT !.mode = m]
    /\ explained' = TRUE
    /\ UNCHANGED <<compose, ext, container, holder, loaded, default, pc, tx, requests, faults>>

\* ... or a value of the .env or of an external input.
OperatorValue ==
    /\ edits < MaxEdits /\ edits' = edits + 1
    /\ \/ env' = [env EXCEPT !.rev = 1 - env.rev] /\ UNCHANGED ext
       \/ ext' = 1 - ext /\ UNCHANGED env
    /\ UNCHANGED <<compose, container, holder, loaded, default, pc, tx, requests, faults, explained>>

Step(a) ==
    \/ Begin(a) \/ Acquire(a)
    \/ Control(a) \/ ControlMissing(a) \/ ReadConfig(a)
    \/ Baseline(a) \/ Candidate(a) \/ Write(a)
    \/ BoundaryBusy(a) \/ BoundaryRefused(a) \/ Recreated(a) \/ RecreateFailed(a) \/ InitStep(a)
    \/ ContractHandler(a) \/ RestoreFile(a) \/ RestoreRuntime(a)
    \/ Die(a)
Next ==
    \/ \E a \in Actors : Step(a)
    \/ TakeG \/ GiveG
    \/ OperatorCompose \/ OperatorMode \/ OperatorValue

Spec == Init /\ [][Next]_vars

(***************************************************************************)
(* Properties                                                              *)
(***************************************************************************)
\* Every variable stays in its type.
TypeOK ==
    /\ compose \in Configs /\ env \in EnvFiles /\ ext \in 0..1
    /\ container \in Containers \cup {Nobody}
    /\ holder \in [Locks -> Actors \cup {Nobody, Outside}]
    /\ loaded \in [Actors -> EnvFiles \cup {Nobody}]
    /\ default \in [Actors -> Configs]
    /\ pc \in [Actors -> Steps]
    /\ tx \in [Actors -> Transactions]
    /\ requests \in 0..MaxRequests /\ edits \in 0..MaxEdits /\ faults \in 0..MaxFaults
    /\ explained \in BOOLEAN

ActsInProduction(a) == Inside(a) /\ Effective(a, tx[a].env).mode = "production"

\* Whatever the .env is edited to while processes run, at most one mutator
\* acts in production at a time, and none beside a pinned command: the lock
\* is read from the file and the mode from the process, and they never part
\* in the lax direction.
OneProductionMutator ==
    \A a \in Actors : ActsInProduction(a) =>
        /\ holder["G"] # Outside
        /\ \A b \in Actors : ActsInProduction(b) => a = b

\* A contract error that is not the post-mutation one says that the host is
\* as the transaction found it: its candidate is not in the file, and Docker
\* was never given anything to do.  A refusal because another mutation is
\* active leaves the container alone, so that a retry is safe: the lock is met
\* again at every boundary, and only an edit of the mode makes it another lock
\* than the one that is held.
RefusalChangedNothing ==
    \A a \in Actors :
        /\ tx[a].outcome = "refused" => ~tx[a].wrote /\ ~tx[a].touched
        /\ tx[a].outcome = "busy" /\ tx[a].touched => explained

\* Between operations the container runs what the compose file says, unless
\* the operator edited the file or the mode, a process died, or an operation
\* reported that it could not restore.  A failed update, a failed init, an
\* edited value or a lost race for a lock does not part them.
DriftIsExplained ==
    (\A a \in Actors : ~Inside(a)) /\ container # Nobody /\ ~explained => container.config = compose

\* No container ever runs a document the rules refuse with the values it was
\* given, although the operator may put one into the files at any time and a
\* restoration checks nothing again.
OnlyAllowedRuns == container # Nobody => Allowed(container.config, container.env)

\* A start that creates a missing container takes its settings from the
\* compose file: it never writes other settings into it.
StartKeepsFile ==
    \A a \in Actors : tx[a].op = "create" /\ tx[a].wrote => tx[a].want = tx[a].base
=============================================================================
