---------------------------- MODULE PinnedDeploy ----------------------------
(***************************************************************************)
(* The migration-forward deploy of the pinned Map/PinVi pair:              *)
(* ComposeService.rebuild_pinned_runtime with begin_deploy, _deploy_forward*)
(* and commit_deploy, the one durable record deploy-status.json, and what  *)
(* outlives a Manager process that dies: databases, service containers,    *)
(* one-shot writer containers and the PinVi bootstrap credential directory.*)
(*                                                                         *)
(* One deploy runs at a time: the whole body holds the host mutation lock. *)
(* A process may be killed between any two steps (Crash).  A one-shot      *)
(* container is an actor of its own: it outlives the process that ran it.  *)
(*                                                                         *)
(* Abstracted: a database's identity (name, oid, system identifier) is one *)
(* number per role, 0 when the database does not exist; an image set is    *)
(* the pair it was built from and the build that produced it; reasons,     *)
(* times and run ids of the record are dropped.                            *)
(***************************************************************************)
EXTENDS Integers, FiniteSets

CONSTANTS
    Pairs,              \* the Map/PinVi revision pairs that can be pinned
    Builds,             \* distinguishable results of building one pair
    Ids,                \* database identities
    Head,               \* Head[r][p]: Alembic head of pair p's image for role r
    OperatorConcurrent, \* may an operator replace a database during a deploy?
    MaxFaults,          \* bound: failed steps, killed processes, lying one-shots
    MaxSwaps,           \* bound: databases replaced by an operator
    MaxReleases         \* bound: pin rotations and build input changes

Roles == {"map_application", "pinvi"}

ASSUME PairsAssumption == Pairs \subseteq Nat \ {0} /\ Builds \subseteq Nat \ {0}
ASSUME IdsAssumption == Ids \subseteq Nat \ {0}
ASSUME HeadAssumption == Head \in [Roles -> [Pairs -> Nat \ {0}]]
ASSUME BoundsAssumption == /\ OperatorConcurrent \in BOOLEAN
                           /\ MaxFaults \in Nat /\ MaxSwaps \in Nat /\ MaxReleases \in Nat

VARIABLES
    release,  \* the pair the registry pins and the build its inputs give
    status,   \* deploy-status.json
    db,       \* the two live databases
    up,       \* which image set each service container runs
    oneshots, \* one-shot writer containers that are running
    cred,     \* the bootstrap/<run id> directory: absent, empty or with its file
    pc,       \* the next step of the running deploy, "idle" when none runs
    mode,     \* how it was invoked
    cand,     \* its candidate image set
    wiped,    \* history: since the last commit no --restart reset finished, one
              \* was done, or one was done and marked on disk
    faults, swaps, releases

world == <<db, up, oneshots, cred>>
local == <<pc, mode, cand>>
budget == <<faults, swaps, releases>>
vars == <<release, status, world, local, wiped, budget>>

-----------------------------------------------------------------------------
Modes == {"plain", "restart", "adopt"}
Services == {"map_api", "map_ui", "pinvi_api", "pinvi_web"}
Kinds == {"role_bootstrap", "map_schema", "pinvi_bootstrap"}

Images == [pair : Pairs, build : Builds]
Down == [pair |-> 0, build |-> 0]
AllDown == [s \in Services |-> Down]

Database == [id : Ids \cup {0}, head : Nat, bootstrapped : BOOLEAN]
NoBaseline == [r \in Roles |-> 0]
NoDatabase == [id |-> 0, head |-> 0, bootstrapped |-> FALSE]

NoFile == [state |-> "none", pair |-> 0, build |-> 0, databases |-> NoBaseline,
           step |-> "none", restart |-> FALSE, adopted |-> FALSE]

\* _observe_deployed_databases: both identities, or nothing when one is missing.
Observed == IF \E r \in Roles : db[r].id = 0 THEN NoBaseline
            ELSE [r \in Roles |-> db[r].id]

AtHead(r, p) == db[r].id # 0 /\ db[r].head = Head[r][p]

\* An identity nothing remembers: PostgreSQL never hands out the live or the
\* recorded one again.  The least such number, so that runs stay comparable.
Fresh(r, i) == LET used == {db[r].id, status.databases[r]}
               IN  i \in Ids \ used /\ \A j \in Ids : j < i => j \in used

\* Mutant: a resuming run takes the restart record without asking for the step.
BeginDeploy_AnyStep(previous, c, m, observed) ==
    LET resumes == m = "plain" /\ previous.state = "in_progress"
    IN  [state |-> "in_progress", pair |-> c.pair, build |-> 0,
         databases |-> IF m = "adopt" THEN observed ELSE previous.databases,
         step |-> IF resumes THEN previous.step ELSE "none",
         restart |-> m = "restart" \/ (resumes /\ previous.restart),
         adopted |-> m = "adopt" \/ (resumes /\ previous.adopted)]

\* begin_deploy: the in_progress record written before the first change.
BeginDeploy(previous, c, m, observed) ==
    LET resumes == m = "plain" /\ previous.state = "in_progress"
        wasReset == resumes /\ previous.step = "reset"
    IN  [state |-> "in_progress", pair |-> c.pair, build |-> 0,
         databases |-> IF m = "adopt" THEN observed ELSE previous.databases,
         step |-> IF wasReset THEN "reset" ELSE "none",
         restart |-> m = "restart" \/ (wasReset /\ previous.restart),
         adopted |-> m = "adopt" \/ (resumes /\ previous.adopted)]

\* commit_deploy: what the finished deploy observed, in one record.
CommitDeploy(s, c, observed) ==
    [s EXCEPT !.state = "committed", !.build = c.build,
              !.databases = observed, !.step = "none"]

\* The steps of _deploy_forward, in its order: inside the try block.
ForwardSteps ==
    {"stop", "retire", "reconcile", "reconcile_rmdir",
     "drop_map", "drop_pinvi", "recreate_pinvi", "mark_reset",
     "create_pinvi", "ensure_map", "await_role_bootstrap",
     "map_schema", "await_map_schema", "map_head", "map_api", "map_ui",
     "cred_mkdir", "cred_file", "pinvi_bootstrap", "await_pinvi_bootstrap",
     "unlink_ok", "rmdir_ok", "unlink_err", "rmdir_err",
     "pinvi_head", "pinvi_api", "pinvi_web", "commit"}
CleanupSteps == {"cleanup_stop", "cleanup_retire", "cleanup_reconcile", "cleanup_rmdir"}
EarlySteps == {"judge", "begin"}
Steps == {"idle", "converge"} \cup EarlySteps \cup ForwardSteps \cup CleanupSteps

-----------------------------------------------------------------------------
Init ==
    /\ release \in Images
    /\ status = NoFile
    /\ db = [r \in Roles |-> NoDatabase]
    /\ up = AllDown
    /\ oneshots = {} /\ cred = "absent"
    /\ pc = "idle" /\ mode = "plain" /\ cand = Down
    /\ wiped = "no"
    /\ faults = 0 /\ swaps = 0 /\ releases = 0

Finish == pc' = "idle" /\ mode' = "plain" /\ cand' = Down
Goto(step) == pc' = step /\ UNCHANGED <<mode, cand>>

\* Admission and candidate: the release is read once, after the lock is taken;
\* sources, builds and attestation change none of the state kept here.
Start(m) ==
    /\ pc = "idle"
    /\ pc' = "judge" /\ mode' = m /\ cand' = release
    /\ UNCHANGED <<release, status, world, wiped, budget>>

\* The five conditions under which a plain run only converges.
Converges ==
    /\ mode = "plain" /\ status.state = "committed"
    /\ status.pair = cand.pair /\ status.build = cand.build
    /\ Observed = status.databases
    /\ \A r \in Roles : AtHead(r, status.pair)

\* Mutant: only a committed record guards the databases.
Refuses_CommittedOnly ==
    mode = "plain" /\ status.state = "committed" /\ Observed # status.databases

\* The refusals a run raises before it stops or writes anything: databases that
\* are not the recorded ones, and a Map database that was restored without its
\* owner, which the fresh-only role bootstrap could not take over.
Refuses ==
    \/ mode = "plain" /\ status.databases # NoBaseline /\ Observed # status.databases
    \/ LET m == db["map_application"]
       IN  mode # "restart" /\ m.id # 0 /\ ~m.bootstrapped /\ m.head # 0

Judge ==
    /\ pc = "judge"
    /\ \/ Converges /\ Goto("converge")
       \/ ~Converges /\ Refuses /\ Finish
       \/ ~Converges /\ ~Refuses /\ Goto("begin")
    /\ UNCHANGED <<release, status, world, wiped, budget>>

\* _converge_committed_runtime: containers only, no record is written.
Converge ==
    /\ pc = "converge"
    /\ up' = [s \in Services |-> cand]
    /\ Finish
    /\ UNCHANGED <<release, status, db, oneshots, cred, wiped, budget>>

Begin ==
    /\ pc = "begin"
    /\ status' = BeginDeploy(status, cand, mode, Observed)
    /\ wiped' = IF status.state = "in_progress" THEN wiped ELSE "no"
    /\ Goto("stop")
    /\ UNCHANGED <<release, world, budget>>

-----------------------------------------------------------------------------
(* Quiescence: runtime stopped, one-shots gone, orphaned credential gone.    *)

Stop ==
    /\ pc \in {"stop", "cleanup_stop"}
    /\ up' = AllDown
    /\ Goto(IF pc = "stop" THEN "retire" ELSE "cleanup_retire")
    /\ UNCHANGED <<release, status, db, oneshots, cred, wiped, budget>>

\* Mutant: the compose rm of left-over one-shots is dropped.
Retire_KeepsOneShots ==
    /\ pc \in {"retire", "cleanup_retire"}
    /\ Goto(IF pc = "retire" THEN "reconcile" ELSE "cleanup_reconcile")
    /\ UNCHANGED <<release, status, world, wiped, budget>>

Retire ==
    /\ pc \in {"retire", "cleanup_retire"}
    /\ oneshots' = {}
    /\ Goto(IF pc = "retire" THEN "reconcile" ELSE "cleanup_reconcile")
    /\ UNCHANGED <<release, status, db, up, cred, wiped, budget>>

AfterReconcile == IF mode = "restart" THEN Goto("drop_map") ELSE Goto("create_pinvi")

\* Mutant: a left-over credential is refused instead of removed.
Reconcile_RefusesLeftover ==
    /\ pc \in {"reconcile", "cleanup_reconcile"}
    /\ IF pc = "cleanup_reconcile" THEN Finish
       ELSE IF cred = "absent" THEN AfterReconcile ELSE Goto("cleanup_stop")
    /\ UNCHANGED <<release, status, world, wiped, budget>>

\* reconcile_orphaned_pinvi_bootstrap_credentials: every directory must hold
\* exactly its credential file, otherwise nothing is removed and it raises.
Reconcile ==
    /\ pc \in {"reconcile", "cleanup_reconcile"}
    /\ \/ /\ cred = "absent" /\ UNCHANGED cred
          /\ IF pc = "reconcile" THEN AfterReconcile ELSE Finish
       \/ /\ cred = "file" /\ cred' = "empty"
          /\ Goto(IF pc = "reconcile" THEN "reconcile_rmdir" ELSE "cleanup_rmdir")
       \/ /\ cred = "empty" /\ UNCHANGED cred
          /\ IF pc = "reconcile" THEN Goto("cleanup_stop") ELSE Finish
    /\ UNCHANGED <<release, status, db, up, oneshots, wiped, budget>>

ReconcileRmdir ==
    /\ pc \in {"reconcile_rmdir", "cleanup_rmdir"}
    /\ cred' = "absent"
    /\ IF pc = "reconcile_rmdir" THEN AfterReconcile ELSE Finish
    /\ UNCHANGED <<release, status, db, up, oneshots, wiped, budget>>

-----------------------------------------------------------------------------
(* --restart: reset_databases_for_application_300, then the mark.            *)

DropMap ==
    /\ pc = "drop_map"
    /\ db' = [db EXCEPT !["map_application"] = NoDatabase]
    /\ Goto("drop_pinvi")
    /\ UNCHANGED <<release, status, up, oneshots, cred, wiped, budget>>

DropPinvi ==
    /\ pc = "drop_pinvi"
    /\ db' = [db EXCEPT !["pinvi"] = NoDatabase]
    /\ Goto("recreate_pinvi")
    /\ UNCHANGED <<release, status, up, oneshots, cred, wiped, budget>>

RecreatePinvi ==
    /\ pc = "recreate_pinvi"
    /\ \E i \in Ids : /\ Fresh("pinvi", i)
                      /\ db' = [db EXCEPT !["pinvi"] =
                                  [id |-> i, head |-> 0, bootstrapped |-> TRUE]]
    /\ wiped' = IF wiped = "no" THEN "done" ELSE wiped
    /\ Goto("mark_reset")
    /\ UNCHANGED <<release, status, up, oneshots, cred, budget>>

MarkReset ==
    /\ pc = "mark_reset"
    /\ status' = [status EXCEPT !.databases = NoBaseline, !.step = "reset"]
    /\ wiped' = "marked"
    /\ Goto("create_pinvi")
    /\ UNCHANGED <<release, world, budget>>

-----------------------------------------------------------------------------
(* Migration forward.                                                        *)

\* Mutant: the PinVi database is created whether it exists or not.
CreatePinvi_Unconditional ==
    /\ pc = "create_pinvi"
    /\ \E i \in Ids : /\ Fresh("pinvi", i)
                      /\ db' = [db EXCEPT !["pinvi"] =
                                  [id |-> i, head |-> 0, bootstrapped |-> TRUE]]
    /\ Goto("ensure_map")
    /\ UNCHANGED <<release, status, up, oneshots, cred, wiped, budget>>

CreatePinvi ==
    /\ pc = "create_pinvi"
    /\ \/ db["pinvi"].id # 0 /\ UNCHANGED db
       \/ /\ db["pinvi"].id = 0
          /\ \E i \in Ids : /\ Fresh("pinvi", i)
                            /\ db' = [db EXCEPT !["pinvi"] =
                                        [id |-> i, head |-> 0, bootstrapped |-> TRUE]]
    /\ Goto("ensure_map")
    /\ UNCHANGED <<release, status, up, oneshots, cred, wiped, budget>>

\* ensure_map_application_database: create, bootstrap, keep or refuse.
EnsureMap ==
    LET m == db["map_application"]
    IN  /\ pc = "ensure_map"
        /\ \/ /\ m.id = 0
              /\ \E i \in Ids : /\ Fresh("map_application", i)
                                /\ db' = [db EXCEPT !["map_application"] =
                                            [id |-> i, head |-> 0, bootstrapped |-> FALSE]]
              /\ UNCHANGED <<local, oneshots>>
           \/ /\ m.id # 0 /\ ~m.bootstrapped /\ m.head = 0
              /\ oneshots' = oneshots \cup {[kind |-> "role_bootstrap", pair |-> cand.pair]}
              /\ Goto("await_role_bootstrap") /\ UNCHANGED db
           \/ m.id # 0 /\ ~m.bootstrapped /\ m.head # 0
              /\ Goto("cleanup_stop") /\ UNCHANGED <<db, oneshots>>
           \/ m.id # 0 /\ m.bootstrapped
              /\ Goto("map_schema") /\ UNCHANGED <<db, oneshots>>
        /\ UNCHANGED <<release, status, up, cred, wiped, budget>>

RunMapSchema ==
    /\ pc = "map_schema"
    /\ oneshots' = oneshots \cup {[kind |-> "map_schema", pair |-> cand.pair]}
    /\ Goto("await_map_schema")
    /\ UNCHANGED <<release, status, db, up, cred, wiped, budget>>

\* Mutant: an exit code of 0 is taken for the migration.
RequireHead_TrustsExitCode ==
    /\ \/ pc = "map_head" /\ Goto("map_api")
       \/ pc = "pinvi_head" /\ Goto("pinvi_api")
    /\ UNCHANGED <<release, status, world, wiped, budget>>

\* require_head: success is the head the Manager reads itself.
RequireHead ==
    /\ \/ /\ pc = "map_head"
          /\ Goto(IF AtHead("map_application", cand.pair) THEN "map_api" ELSE "cleanup_stop")
       \/ /\ pc = "pinvi_head"
          /\ Goto(IF AtHead("pinvi", cand.pair) THEN "pinvi_api" ELSE "cleanup_stop")
    /\ UNCHANGED <<release, status, world, wiped, budget>>

\* compose_up of one service group; the Map head is read again after map-api.
ComposeUp ==
    /\ \/ /\ pc = "map_api" /\ up' = [up EXCEPT !["map_api"] = cand]
          /\ Goto(IF AtHead("map_application", cand.pair) THEN "map_ui" ELSE "cleanup_stop")
       \/ pc = "map_ui" /\ up' = [up EXCEPT !["map_ui"] = cand] /\ Goto("cred_mkdir")
       \/ pc = "pinvi_api" /\ up' = [up EXCEPT !["pinvi_api"] = cand] /\ Goto("pinvi_web")
       \/ pc = "pinvi_web" /\ up' = [up EXCEPT !["pinvi_web"] = cand] /\ Goto("commit")
    /\ UNCHANGED <<release, status, db, oneshots, cred, wiped, budget>>

\* pinvi_bootstrap_credential_file: directory, file, one-shot, unlink, rmdir.
\* unlink and rmdir run after a failed one-shot too, which then stays a failure.
CreateCredential ==
    /\ \/ pc = "cred_mkdir" /\ cred' = "empty" /\ Goto("cred_file")
       \/ pc = "cred_file" /\ cred' = "file" /\ Goto("pinvi_bootstrap")
    /\ UNCHANGED <<release, status, db, up, oneshots, wiped, budget>>

RunPinviBootstrap ==
    /\ pc = "pinvi_bootstrap"
    /\ oneshots' = oneshots \cup {[kind |-> "pinvi_bootstrap", pair |-> cand.pair]}
    /\ Goto("await_pinvi_bootstrap")
    /\ UNCHANGED <<release, status, db, up, cred, wiped, budget>>

\* Mutant: the directory of a removed credential stays behind.
CleanupCredential_KeepsDirectory ==
    /\ \/ pc = "unlink_ok" /\ cred' = "empty" /\ Goto("pinvi_head")
       \/ pc = "unlink_err" /\ cred' = "empty" /\ Goto("cleanup_stop")
    /\ UNCHANGED <<release, status, db, up, oneshots, wiped, budget>>

CleanupCredential ==
    /\ \/ pc = "unlink_ok" /\ cred' = "empty" /\ Goto("rmdir_ok")
       \/ pc = "rmdir_ok" /\ cred' = "absent" /\ Goto("pinvi_head")
       \/ pc = "unlink_err" /\ cred' = "empty" /\ Goto("rmdir_err")
       \/ pc = "rmdir_err" /\ cred' = "absent" /\ Goto("cleanup_stop")
    /\ UNCHANGED <<release, status, db, up, oneshots, wiped, budget>>

\* The verified deploy observes the databases and writes its record.  A write
\* that fails leaves the runtime up and the record in_progress.
Commit ==
    /\ pc = "commit"
    /\ IF Observed = NoBaseline
       THEN Goto("cleanup_stop") /\ UNCHANGED status
       ELSE status' = CommitDeploy(status, cand, Observed) /\ Finish
    /\ UNCHANGED <<release, world, wiped, budget>>

-----------------------------------------------------------------------------
(* One-shot containers.  c does its work, refuses, or exits 0 without it.    *)

Waits(kind) == CASE kind = "role_bootstrap" -> "await_role_bootstrap"
                 [] kind = "map_schema" -> "await_map_schema"
                 [] kind = "pinvi_bootstrap" -> "await_pinvi_bootstrap"
OnSuccess(kind) == CASE kind = "role_bootstrap" -> "map_schema"
                     [] kind = "map_schema" -> "map_head"
                     [] kind = "pinvi_bootstrap" -> "unlink_ok"
OnFailure(kind) == IF kind = "pinvi_bootstrap" THEN "unlink_err" ELSE "cleanup_stop"

\* Only the process that started it learns its exit code.
Exit(c, step) == IF pc = Waits(c.kind) THEN Goto(step) ELSE UNCHANGED local

\* role bootstrap takes a fresh database only; Alembic moves forward only.
CanWork(c) ==
    LET m == db["map_application"]
    IN  \/ c.kind = "role_bootstrap" /\ m.id # 0 /\ ~m.bootstrapped /\ m.head = 0
        \/ c.kind = "map_schema" /\ m.id # 0 /\ m.bootstrapped
           /\ m.head <= Head["map_application"][c.pair]
        \/ c.kind = "pinvi_bootstrap" /\ db["pinvi"].id # 0
           /\ db["pinvi"].head <= Head["pinvi"][c.pair]

Work(c) ==
    CASE c.kind = "role_bootstrap" -> [db EXCEPT !["map_application"].bootstrapped = TRUE]
      [] c.kind = "map_schema" ->
            [db EXCEPT !["map_application"].head = Head["map_application"][c.pair]]
      [] c.kind = "pinvi_bootstrap" -> [db EXCEPT !["pinvi"].head = Head["pinvi"][c.pair]]

OneShot ==
    \E c \in oneshots :
        /\ oneshots' = oneshots \ {c}
        /\ \/ CanWork(c) /\ db' = Work(c) /\ Exit(c, OnSuccess(c.kind)) /\ UNCHANGED faults
           \/ ~CanWork(c) /\ UNCHANGED <<db, faults>> /\ Exit(c, OnFailure(c.kind))
           \/ /\ faults < MaxFaults /\ faults' = faults + 1 /\ UNCHANGED db
              /\ \/ Exit(c, OnFailure(c.kind))
                 \/ c.kind # "role_bootstrap" /\ Exit(c, OnSuccess(c.kind))
        /\ UNCHANGED <<release, status, up, cred, wiped, swaps, releases>>

-----------------------------------------------------------------------------
(* Failures.                                                                 *)

\* A step raises.  Before begin nothing is undone; inside the try block the
\* cleanup runs (the credential's own first, where one is held; the container of
\* a failed compose client may run on); a failed cleanup step or a failed commit
\* write just ends.  A failed converge may have brought any service up.
Fail ==
    /\ faults < MaxFaults /\ faults' = faults + 1
    /\ \/ pc \in EarlySteps \cup CleanupSteps \cup {"commit"} /\ Finish /\ UNCHANGED <<up, cred>>
       \/ /\ pc = "converge" /\ Finish /\ UNCHANGED cred
          /\ \E S \in SUBSET Services : up' = [s \in Services |-> IF s \in S THEN cand ELSE up[s]]
       \/ /\ pc \in ForwardSteps /\ UNCHANGED up
          /\ Goto(IF pc \in {"pinvi_bootstrap", "await_pinvi_bootstrap"}
                  THEN "unlink_err" ELSE "cleanup_stop")
          /\ cred' = IF pc = "cred_file" THEN "absent" ELSE cred
    /\ UNCHANGED <<release, status, db, oneshots, wiped, swaps, releases>>

\* The process is killed: containers, databases, files and the record stay.
Crash ==
    /\ pc # "idle" /\ faults < MaxFaults /\ faults' = faults + 1
    /\ Finish
    /\ UNCHANGED <<release, status, world, wiped, swaps, releases>>

-----------------------------------------------------------------------------
(* The environment of a deploy.                                              *)

\* pin rotate-pair, or a changed compose build input; both need the lock or
\* are frozen when the deploy takes it.
ChangeRelease ==
    /\ pc = "idle" /\ releases < MaxReleases /\ releases' = releases + 1
    /\ release' \in Images \ {release}
    /\ UNCHANGED <<status, world, local, wiped, faults, swaps>>

\* An operator drops a database, or drops and restores it: any schema head,
\* with or without the schema owner.
SwapDatabase ==
    /\ OperatorConcurrent \/ pc = "idle"
    /\ swaps < MaxSwaps /\ swaps' = swaps + 1
    /\ \E r \in Roles :
        \/ db' = [db EXCEPT ![r] = NoDatabase]
        \/ \E i \in Ids, h \in {0} \cup {Head[r][p] : p \in Pairs}, b \in BOOLEAN :
              /\ Fresh(r, i) /\ (r = "pinvi" => b)
              /\ db' = [db EXCEPT ![r] = [id |-> i, head |-> h, bootstrapped |-> b]]
    /\ UNCHANGED <<release, status, up, oneshots, cred, local, wiped, faults, releases>>

Advance ==
    \/ Judge \/ Converge \/ Begin \/ Stop \/ Retire \/ Reconcile \/ ReconcileRmdir
    \/ DropMap \/ DropPinvi \/ RecreatePinvi \/ MarkReset \/ CreatePinvi \/ EnsureMap
    \/ RunMapSchema \/ RequireHead \/ ComposeUp \/ CreateCredential \/ RunPinviBootstrap
    \/ CleanupCredential \/ Commit

Next == (\E m \in Modes : Start(m)) \/ Advance \/ OneShot \/ Fail \/ Crash
        \/ ChangeRelease \/ SwapDatabase

Spec == Init /\ [][Next]_vars

\* A process runs on, a container ends, and the operator reruns a deploy, in
\* the end with --restart.
FairSpec == /\ Spec
            /\ WF_vars(Advance) /\ WF_vars(OneShot)
            /\ SF_vars(Start("restart"))

-----------------------------------------------------------------------------
(* Properties.                                                               *)

Status == [state : {"none", "in_progress", "committed"}, pair : Pairs \cup {0},
           build : Builds \cup {0}, databases : [Roles -> Ids \cup {0}],
           step : {"none", "reset"}, restart : BOOLEAN, adopted : BOOLEAN]

\* The record, the databases, the containers and the program counter keep their
\* shape, whatever fails.
TypeOK ==
    /\ release \in Images
    /\ status \in Status
    /\ db \in [Roles -> Database]
    /\ up \in [Services -> Images \cup {Down}]
    /\ oneshots \subseteq [kind : Kinds, pair : Pairs]
    /\ cred \in {"absent", "empty", "file"}
    /\ pc \in Steps /\ mode \in Modes /\ cand \in Images \cup {Down}
    /\ (pc # "idle" => cand \in Images)
    /\ wiped \in {"no", "done", "marked"}
    /\ faults \in 0 .. MaxFaults /\ swaps \in 0 .. MaxSwaps /\ releases \in 0 .. MaxReleases

\* Nothing writes a database next to a one-shot: a killed deploy's container is
\* gone before the next one, before the runtime of that database and before a
\* reset drops anything (_retire_pinned_runtime_oneshot_writers).
WriterExclusion ==
    /\ \A c, d \in oneshots : c = d
    /\ \A c \in oneshots :
          IF c.kind = "pinvi_bootstrap" THEN up["pinvi_api"] = Down /\ up["pinvi_web"] = Down
          ELSE up["map_api"] = Down /\ up["map_ui"] = Down
    /\ pc \in {"drop_map", "drop_pinvi", "recreate_pinvi"} => oneshots = {} /\ up = AllDown

\* A committed record means that no killed deploy left anything behind: no
\* one-shot container runs and no credential directory is left (nothing but a
\* full deploy would ever look for them again, and a converging one does not).
CommittedIsQuiet == status.state = "committed" => oneshots = {} /\ cred = "absent"

\* A restart record that a commit keeps, or a resumed deploy carries, is of a
\* reset that really finished since the last commit (RESET_DONE_STEP).
RestartRecordIsTrue ==
    status.restart /\ (status.step = "reset" \/ status.state = "committed") => wiped # "no"

\* A deploy invoked without --restart only ever changes databases that are the
\* recorded ones, whatever was killed or restored since the record was written.
DeploysOnlyKnownDatabases ==
    ~OperatorConcurrent /\ mode # "restart" /\ pc \in ForwardSteps
        /\ status.databases # NoBaseline
        => Observed = status.databases

\* The recorded identity baseline moves only in a step whose record says an
\* operator decided it: no chain of plain, failed or killed deploys replaces it.
BaselineMovesByDecision ==
    [][ status.databases # NoBaseline /\ status'.databases # status.databases
        => status'.restart \/ status'.adopted ]_vars

\* A commit records what is true of the host at that moment: both databases at
\* the pair's heads, every service on the recorded images.
CommitIsWhatRuns ==
    [][ status'.state = "committed" /\ status' # status
        => /\ \A r \in Roles : AtHead(r, status'.pair)
           /\ Observed = status'.databases
           /\ \A s \in Services : up[s] = [pair |-> status'.pair, build |-> status'.build] ]_vars

\* Data is destroyed by the Manager only in a run invoked with --restart, and only
\* after its in_progress record is on disk with that decision in it.
DestroysOnlyWhenRestarting ==
    [][ \A r \in Roles : db[r].id # 0 /\ db'[r].id # db[r].id /\ swaps' = swaps
        => mode = "restart" /\ status.state = "in_progress" /\ status.restart ]_vars

\* Every deploy ends, and the rerun of a failed one gets through in the end, as
\* long as no process was killed between the two system calls that make or
\* remove a credential directory.
RerunCommits == []<>(status.state = "committed") \/ <>[](cred = "empty")

\* What the documentation says without that exception: every step can be run
\* again, so the rerun of a failed deploy gets through.
RerunAlwaysCommits == []<>(status.state = "committed")

=============================================================================
