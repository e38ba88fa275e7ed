# A TLA+ development of kor-travel-docker-manager

The Manager runs the containers, databases and pinned releases of a small travel
platform (Map, PinVi and their companions) on one host.  `ktdctl`, a root CLI, makes
the dangerous changes: it pins a pair of source revisions, deploys it migration
forward, blocks what failed.  A FastAPI backend shows the state of the host and runs a
few jobs.  What is hard about it is not data but order: commands that are killed
between two writes, one-shot containers that outlive the command that ran them,
observations that a mutation crossed, and records that later commands trust.

This directory holds the models of that part, the TLC instances that check them and
the TLAPS proofs about them.  Paths without a prefix are under
`src/backend/src/kor_travel_docker_manager/`.

## Inventory

| component | state it keeps | operations | what is hard | what makes it correct |
|---|---|---|---|---|
| pinned pair deploy (`services/compose_service.py`, `deploy_status.py`) | `deploy-status.json`, service containers | `rebuild_pinned_runtime` plain, `--restart`, `--adopt-live-databases` | kills at any step, reruns, cleanup that fails too | the record is true; nothing is destroyed or adopted without a recorded decision; reruns get through |
| tenant databases (`database_runtime.py`) | two PostgreSQL databases | reset, create, bootstrap, head and identity reads | an operator drops or restores one; a one-shot of an older pair still runs | a deploy writes only to databases it knows; heads are read, not assumed |
| bootstrap credential (`pinvi_bootstrap_credential.py`) | one directory and file per run | create, clean up, reconcile | kill between two system calls | nothing left behind after a commit; leftovers never block a deploy |
| pinned sources and candidate builds (`pinned_runtime_sources.py`, `pinned_runtime_rebuild.py`, `build_context_export.py`) | a cache of source trees, image tags | fetch a tree, prune, build or reuse an image | a rehearsal fills the same cache without the lock; power failure | a tree that is named is whole; what is committed was built from what is pinned |
| image retention (`c6c_image_retention.py`) | content references | keep before a deploy, reconcile after a commit | kill between commit and retention; Docker collects what has no name | never removes what a record names; nothing piles up |
| source pins v5 (`runtime_pin_registry.py`), execution pins v6 (`runtime_execution_registry.py`) | private file and public copy each, preserved copies | rotate, block, rollback, init, migrate, rebind, verify | several files per command | blocks are never forgotten; no rotation enters a blocked pair |
| pair rotation (`runtime_pair_rotation.py`) | the pending intent | rotate-pair, rotate, rollback and their resumption | kill between files, Manager install before the retry | half rotated only under an intent; the intent can be resolved |
| pending pin requests (`runtime_pin_request.py`) | one request file | create, apply, clear | no lock: posts, removals and an apply cross | what is applied is what was asked; a recorded request stays |
| status snapshot (`status_snapshot.py`) | cache, flight, mutation epoch | `get`, `@invalidates_status` | threads, joined callers, failing and hanging collections | no answer from before the last mutation; nobody held by a hanging leader |
| sessions and sockets (`auth_service.py`, `api/auth.py`, `api/websocket.py`) | session records, open sockets, admission count | login, logout, recheck, broadcast, log stream | a socket outlives its session; a recheck that is slow | a revoked session keeps a socket for one lease at most; admission places come back |
| admin password (`admin_password_service.py`) | one key of `.env` | change | the operator edits the file meanwhile | no edit is lost |
| job runner (`job_runner.py`), backups (`standalone_backup.py`) | job table, role lock, dumps, scratch databases | submit, finish, dump, retain, rehearse | cancellation leaves the worker running; `pg_dump` outlives its client | one dump per role; a published dump is complete; a verified rehearsal is true |
| off-box copy (`offbox_backup_sync.py`) | files on another host, status file | sync | no role lock: the directory changes under rsync | a verified copy recovers what the host had |
| isolated acceptance run (`scripts/run-m05-isolated-e2e-once`, `scripts/m05_isolated_e2e.py`, `m05_isolated_harness.py`) | ledger of claims, output leaf with claimed marker and receipt, blocks of the execution registry | preflight, claim, run the body, attest, clean up, burn | either process killed anywhere, a cleanup or a registry write that fails | a body runs once per execution; an execution is burned only when it was used; a verified receipt is final |
| container control (`docker_service.py`, `compose_service.py`, the locks of `c6c_deployment.py`) | compose file, container, two host locks | start, stop, restart, config update, reset, ensure | several processes, edits of the file and the `.env` under way, rollback that fails | one production mutator; a refusal changes nothing; file and container part only with a reported reason |
| candidate boundary (`compose_references.py`, rules of `c6c_deployment.py`, snapshots of `compose_service.py`) | what a transaction captured | judge as written, resolve, judge resolved, compare with the disk | secrets through renamed variables, env_files and mounts; last value wins in a command line | secrets stay at their sites; every PostgreSQL server that the rules can see is closed |
| trusted install (`scripts/install-ktdm-trusted-release`, `trusted_install.py`) | release trees and their marks, the install root, `.env` | install, reinstall, collect old releases | kill at any step; `.env` edited meanwhile; the backend runs from the root | the root names a complete release; no write of `.env` is lost |
| service release (`service_release.py`, `service_release_cli.py`, `service_release_compose.py`) | release markers of each service | adopt, recreate | containers change while they are looked at; the Compose child outlives its parent | a release ran together at one instant; what is recreated is current |
| shared Dagster plane (`scripts/dagster-shared-cutover.sh`, parts of `compose_service.py`) | two shared containers, own daemons, code servers, snapshots | cut over, resume, roll back, converge, rebuild | several containers per command; failures halfway; installs in between | one scheduler per location, on the instance it belongs to |
| metrics, readiness, source status, topology, C6c smoke, Concierge activation, console pages | reports and derived documents | read, render, probe | mostly data | not stated here |

The components interact through one global mutation lock (a file lock every mutating
command holds), through files that later commands read (the record, the registries,
the intent, the release markers), through PostgreSQL and Docker, and inside the backend
through the status epoch that every mutating method advances.

`PROJECT.json` lists every component with its status and every hazard with the
properties that would catch it.

## Modules

| module | models |
|---|---|
| `PinnedDeploy` | the deploy: record, databases, services, one-shots, credential |
| `CandidateImages` | where its images come from and which of them stay |
| `AtomicRotation` | what the pin commands promise: both registries as one document |
| `PairRotation` | the pin commands: two registries, public copies, intent; implements `AtomicRotation` |
| `PinRequests` | the pending request over `PairRotation` |
| `StatusSnapshot` | the shared container status |
| `ConsoleSessions` | sessions, WebSockets and the admin password over `StatusSnapshot` |
| `StandaloneBackup` | a role's backups: create, gc, the role lock, the job runner |
| `BackupRecovery` | the off-box copy and the rehearsal of a restore over `StandaloneBackup` |
| `IsolatedExecution` | the isolated acceptance run: launcher, driver, ledger, leaf, blocks |
| `ComposeTransaction` | changes of one container through the compose file, with their locks |
| `ComposeBoundary` | the rules a compose document must pass, and what runs when it does |
| `TrustedInstall` | the installer of Manager releases, `.env`, the backend that runs from them |
| `ServiceRelease` | adopt and recreate, over `TrustedInstall` |
| `DagsterPlane` | the shared Dagster plane and its locations, over `TrustedInstall` |
| `HostOperations` | the last three together, under the lock they share |

Each `MC...` module is the TLC instance of the module it names.  Eight modules hold the
theorems: `PinnedDeployProofs`, `CandidateImagesProofs`, `PairRotationProofs` (also about
`PinRequests`), `ConsoleSessionsProofs` (also about `StatusSnapshot`),
`BackupRecoveryProofs` (also about `StandaloneBackup`), `IsolatedExecutionProofs`,
`ComposeProofs` (about
`ComposeTransaction` and `ComposeBoundary`) and `HostOperationsProofs` (about the last
four).

### PinnedDeploy

`pc` is the next step of the one deploy that runs (`rebuild_pinned_runtime` holds the
global mutation lock from its admission to its end), and the actions are the calls of
`rebuild_pinned_runtime` and `_deploy_forward` in their order: `Start` (admission, the
candidate), `Judge` (the converge condition and the refusals), `Begin` (the
`in_progress` record), `Stop`, `Retire`, `Reconcile` and `ReconcileRmdir`, with
`--restart` `DropMap`, `DropPinvi`, `RecreatePinvi` and `MarkReset`, then
`CreatePinvi`, `EnsureMap`, `RunMapSchema`, `RequireHead`, `ComposeUp`,
`CreateCredential`, `RunPinviBootstrap`, `CleanupCredential`, `Commit`.  Every variable
except `pc`, `mode` and `cand` is on disk, in PostgreSQL or in Docker, and survives
`Crash`.  `Fail` is a step that raises: outside the `try` block nothing is undone,
inside it the cleanup steps run, and a cleanup step may fail as well.

A one-shot container is an actor of its own.  `Run...` starts it, `OneShot` is its end:
it works, refuses, or ends with an exit code that says something else; whoever waits
for it goes on, and when nobody does any more it works all the same.

A database is its identity, its Alembic head and whether its schema owner exists (the
Map role bootstrap takes a fresh database only).  `Fresh` gives a created database an
identity that neither the live nor the recorded one has.  An image set is the pair and
the build that produced it.  `wiped` is a history variable: what really happened to
the data since the last commit, which the record is compared with.

### CandidateImages

`Materialize` is what a rebuild does to get a source tree: look for it in the cache,
remove what has no record, fetch into a directory of its own, move it to its name, write
its record; `Prune...` removes the trees that the pins no longer name.  Both are done
step by step by two actors, the rebuild, which holds the mutation lock, and the
rehearsal of the isolated driver, which does not.  `BuildApp` and `BuildCompose` build
or reuse an image by its tag and label, with the arguments that the run froze when it
began; `Judge`, `Deploy`, `Converge` and `Commit` are the outline of the deploy that
`PinnedDeploy` details; `Ensure`, `Retain`, `Untag` and `Warn` are the retention before
and after it.  `Stop` ends an actor anywhere, `PowerFails` loses whatever was not synced.
Docker's collection takes the images nobody names.  An image is its slot, its tree, its
arguments, whether the tree was whole, and a digest that a second build need not
reproduce.  `crossed` and `drifted` record that a rehearsal ran beside a rebuild, and
that the tags of the committed pinset were built again.

### PairRotation

A command takes its decision in one step and does its writes one by one: `step` is the
next write, `target` what it writes.  That is faithful because every command holds the
mutation lock from its first read to its last write; what the lock does not prevent is
a command that dies in between (`Die`), and a trusted install before the next one
(`InstallManager`, which takes the lock but does not look at the intent).  `After`
gives the order of the writes: intent, preserved copy, v5 registry, v5 public copy,
v6 registry, v6 public copy, removal of the intent.  The three rotating commands
publish a pending intent of the same target from the start; all others are `Gated`.
A host without an execution registry rotates the source registry alone.

`reseeded` is a history variable: `pin init --force` sets the source pair and leaves
the execution registry as it is, on purpose.

`AtomicRotation` is the abstract specification: a reader of the pins sees one document,
in which a rotation is one step to a pair that is free and forgets no verdict.
`PairRotation` implements it (`RotatesAtOnce`), with the two private files seen through
the intent: while a rotation's intent is on disk, the document is already the one it
rotates to.  The creation of the intent is thus the commit point,
whichever command finishes the writes, and `HalfRotatedHasIntent` and
`NeverEntersBlocked` are consequences; both are still proved.

### PinRequests

The request file is its request and whether all of it was written.  A POST checks,
creates the file exclusively, writes and links it, and on a failure unlinks whatever has
the name; a removal reads the file, compares the id (or, with `--force`, does not) and
unlinks by name; `apply-pending` reads the request under the mutation lock, decides with
the registries (`MayApply`), runs the rotation of `PairRotation` and removes the file if
it still has that id.  POSTs and removals take no lock and cross each other and the
apply.  `overlapped` records that a removal ran between another one's read and unlink, or
beside the write of a POST.

### StatusSnapshot

Each caller of `get` is a thread with a program counter; `Ask`, `Publish`,
`CollectFails` and the settling read of the epoch are each one critical section of the
code.  The collection reads one container per step (`Read`), without a lock, while
mutating methods (`Begin`, `Change`, `End`) run beside it.  `Expire` is the two-second
cache lifetime, `TimeOut` the five-second deadline of a joined caller; both may happen
at any time they are possible.

### ConsoleSessions

A handler of the event loop is a status socket, a log socket or the broadcast; the first
and the last are callers of the snapshot.  A socket takes a place of the admission limit,
authorizes, gives the place back, collects a first frame, and then waits for a message,
for data or for its recheck deadline, whichever is first; the recheck asks for the
session in a thread and may take any time.  Time passes in ticks, and `Tick` waits for
the handlers that are due, because the event loop wakes them then.  Sessions are created,
revoked by logout or by a newer version, and expire.  `Restart` drops whatever is in
memory.  A password change takes its lock, reads `.env`, writes a file beside it, checks
that `.env` is still the file it read and replaces it; the operator edits it meanwhile.

### StandaloneBackup

The processes are the worker threads of the backend's jobs (`Jobs`) and `ktdctl` runs of
cron and operators (`Clis`); `proc` holds, of each, its step and what it remembers.  A
create is `LockToCreate`, `StartDump` (the look at `pg_stat_activity`, then the
`docker exec`), the end of the dump, `PlaceDump`, `WriteSha`, `WriteManifest`; a gc is
`LockToCollect`, `ListSurplus`, then for each surplus set `UnlinkDump`, `UnlinkSha`,
`UnlinkManifest`, and the same for the dumps without a manifest (`CollectOrphans`).
`TakeLock` is the non-blocking `flock`: who finds it held raises.  Any step may raise
and leave what is on disk (`CreateRaises`, `GcRaises`).

`server` is the actor that makes the lock insufficient: a `pg_dump` runs inside the
container, and goes on when its client is killed or gives up (`DumpTimesOut`).  The next
create finds it in `pg_stat_activity`, once it has connected (`Connect`).  `blind` is a
history variable for the one case where it cannot: the client was killed before that.

The role moves between instances (`MoveRole`): commands read the environment they start
in, a backend keeps the one it started with (`served`), so both may be at work with two
instances in one directory.

The job runner is `Submit` (single flight per role), `Finish` (the event loop takes a
thread's result), `Shutdown`, `Cancel` (the task ends and its record fails, the thread
runs on), `Restart` and `KillBackend`.

### BackupRecovery

`CopyStep` is the off-box sync: the list of names, the checksum of each, the transfer
file by file of what rsync finds when it reads the directory again, the check of the
list on the other host, the status file.  It takes no role lock, so that the creates and
collections of `StandaloneBackup` cross it.  A rehearsal plans outside the lock, sweeps
stale scratch databases, takes the role lock, copies the dump in, creates a database,
restores, checks, drops, reads back.  The `pg_restore` is an actor of its own, which
outlives a rehearsal that is killed or gives up.

### IsolatedExecution

The launcher holds the host lock and its driver inherits the descriptor; a rehearsal is
started by hand and takes none.  `launcher` is the step of the script, `pc` that of the
driver.  Before the claim: `Admit`, `MaterializeSources`, `SetUp`, `Render`; then
`Claim` (the ledger's O_EXCL files), `Mark` (the claimed marker), `Configure`,
`MapRuntime`, `Subscribe`, `PinviRuntime`, `Provenance`; the body from `EnterBody` to
`Attest`; and on every way out `Cleanup`, one of the `Record` steps, `WriteReceipt`,
`DriverExits`.  The cleanup keeps the code's two flags apart: `run.failed` is
`cleanup_failed`, which the receipt carries; an error that is no `_PhaseError` takes the
success back (`TakesBack`) and leaves no other trace in the model than the history
variable `surprised`.  `Raise` is a step that raises, with the class of its phase.  The
launcher reads the leaf (`Judge`), asks the registry (`Probe`) and burns the execution
if it must (`Burn`).  `KillDriver` and `KillLauncher` may fall between any two steps,
and registry reads and writes may fail (`FailToWriteBlocks`).  The operator installs
another Manager, rotates the pinset, rebinds, deploys.

The body's own actors are Map's decision (`Decide`), which rewrites references, and
PinVi's reconciliation (`PinviReconciles`), which runs when it likes; `AwaitReceipt`
passes only when both are done.  The history variables count bodies, faults and lost
launchers per execution identity, so that the invariants can say what each of them is
allowed to cost.

### ComposeTransaction

One container, its section of the Manager's compose file, and the actors that may change
them: backends, which loaded the `.env` into their environment when they started, CLIs,
which did not, and another holder of the global lock.  An operation is `Begin`, the
locks (chosen from the file, checked against the effective mode), the base it captures,
the write of the candidate, Docker's initialisation and contract checks, and the
undo with its own checks.  A check of the boundary and the Docker command it
admits are one step, because Docker is given the frozen inputs on its standard input.
The operator edits the compose file, the `.env` and the external inputs between any two
steps.  The rules themselves are a set of refused documents here; `ComposeBoundary`
spells them out.

Bind sources that exist already are part of the external inputs.  A subprocess that
survives the kill of its parent is not modelled.  There is one home lock, that of one
user.

### ComposeBoundary

A document is its services; a service, the variables each environment key, the command
and all other fields refer to, what it mounts and loads, what it spells out, and, if it
is a PostgreSQL server, what its command runs and sets.  A value is two sets of secrets,
those its text contains as they are (`plain`) and those it contains percent-encoded
(`coded`).  Rules that look for a password as it is see the first set (`Carried`), rules
that decode, and whoever reads the container, both (`Revealed`).  A server's program is
what the command says first (`postgres`), the word of a shell's payload that the rules
read (`shell`), what its image runs without a command (`image`), or none of these
(`hidden`): started by an entrypoint, by `env postgres` or `docker-entrypoint.sh postgres`,
or by a later word of a shell's payload.  `RawAllowed`
is the validation of the document as written, `ValuesAllowed` that of the document with its
variables substituted; each is a conjunction of the code's rules in their order.
`Capture`, `Resolve`, `Up` and `Refuse` are the steps of a transaction, which the
operator's edits cross.

What Docker and PostgreSQL make of an admitted document is defined apart from the rules
(`Running`, `ListensOn`, `AsksPasswords`, `Revealed`), so that the
properties compare two independent readings: the code's, which refuses by syntax, and the
server's, where the last of several settings wins and an absent one has a default.
Top-level secrets, build contexts and the paths of env_files are the release's;
`docker-targets.yml` can be read.

### TrustedInstall, ServiceRelease, DagsterPlane, HostOperations

`G` is the set of processes that have the locked description open: one command, or a
command and the Compose child that inherited it.  The installer is `Discard`, `Build`,
`Mark`, `WriteReference`, `CopyEnv`, `Check`, `StopBackend`, `Flip`, `StartBackend`,
`VerifyInstall`, `Collect`, and may die between any two.  The number of a write stands
for what `.env` shows.

`adopt` looks at each container of a service (`Observe`), decides, looks again
(`ObserveAgain`) and publishes; `recreate` verifies the markers of all services and
starts one `docker compose up`, whose containers are made one by one (`UpRecreates`) and
which goes on when its parent is killed.

The plane is two containers, each with the workspace it was created for and the one it
has mounted: a flip of the install root changes what the next start mounts.  The places
of `task` are the steps of the cutover script (forward, resume and rollback of one
location), of `dagster-plane converge`, and of the Dagster part of a pinned rebuild;
`Fails` does what the script undoes on a failure, `TaskDies` is a kill, and the two
containers start and stop by themselves.  `deviated` records that the operator left the
documented procedure.

`HostOperations` composes the three by interleaving; they meet in `G` and in the
install root.

## Runs

| run | question | instance |
|---|---|---|
| `pinned_deploy` | is the record true, who writes beside whom, does the rerun of a failed deploy commit | two pairs, two builds, three identities per database, two faults, one swap, one release change, fairness: 1.3 million states |
| `pinned_deploy_wedge` | "every step may be run again" | violated with one kill |
| `candidate_images` | what is built from what, which images stay | three rebuilds, one rehearsal, one edit of the arguments, two pinsets that share a source, one paired and one Compose slot: 2.2 million states |
| `pair_rotation` | one-step rotation, blocks, terminal candidates, resumption | two revisions of each source, one of the pairs blocked by the code, two Manager revisions, one kill, one install: 1.4 million states |
| `pin_requests` | is what is applied what was asked, do recorded requests stay | two posters, one remover, two requests, one fault: 1.1 million states |
| `console_sessions` | freshness of the status, hanging leaders, sockets that outlive a session, edits of `.env` | four callers, a status and a log socket, two sessions, two password changes, two edits, fairness: 375 thousand states |
| `standalone_backup` | what is listed, what gc takes, what a copy or a rehearsal proves | one job, one `ktdctl`, two instances, three creates, keep 1 or 2, one kill, one move; or one sync or two rehearsals: 3.6 million states |
| `isolated_execution` | how often a body runs, what is burned, what a verified receipt says | two pinsets, two Manager revisions, three claims per execution, one fault, two operator commands: 6 million states |
| `compose_transaction` | what a refusal or a failure leaves behind | a backend and a CLI, three configurations, two requests, two edits, two faults: 4.2 million states |
| `compose_start` | "a start leaves the compose file as it is" | violated by one failed read |
| `compose_boundary` | where secrets end up, which servers run and how | a release of six services with two servers and an env_file, every single edit of a section from a list of about 90, twelve `.env`, four env_files, two edits: 1.1 million states |
| `host_operations` | which releases can be run, what becomes of `.env`, what a marker stands for, who schedules a location | three revisions with workspaces {}, {a} and {a, b}, two kills, two writes of `.env`; two commands, two services, three roles, two images; two locations: 3.8 million states |

### The properties

PinnedDeploy.  `WriterExclusion`: a one-shot shares no database with a service or
another one-shot, and a reset is alone.  `RestartRecordIsTrue`: a restart record that is
carried or committed stands for a reset that finished.  `DeploysOnlyKnownDatabases`: the
recorded identity of the databases is the one a deploy without `--restart` works on.
`CommitIsWhatRuns`: heads, identities and images are at the commit what the record says.
`RerunCommits`: liveness of reruns.

CandidateImages.  `RuntimeImagesAreKept`: what a container or a committed record names
has a reference of its own.  `CommittedIsAsPinned`: what is committed was built from the
pinned trees with the frozen arguments.  `RerunFindsItsImages`: a rerun finds the images
it committed.  `NothingPilesUp`: without a warning only the images of the record are
left.

PairRotation.  `RotatesAtOnce`: the four files are one document to whoever reads them
through the intent.  `IntentResolves`: an intent can go, and goes.  `BlocksSurvive`: a
stale target of a resumed command forgets no block.  `TerminalLeftByPair`: a candidate
that either registry calls terminal is left by a declared pair, a rollback or a reseed,
never by a rotation of one role.

PinRequests.  `AppliesWhatWasAsked`: after an apply every registry and copy names the
proposed pair, also when the rotation it completed was begun earlier.  `RecordedIsKept`:
a request that was recorded stays until it is applied or cancelled by its id.

ConsoleSessions.  `AnswersAreFresh`: what `get` returns, from the cache or not, shows
everything that was done before the last mutation ended.  `CallersNotHeld`: a hanging
collection holds its leader only.  `LeaseHolds`: a session that has ended keeps a socket
for one recheck interval at most.  `EnvKeepsEveryChange`: `.env` has every edit and the
password that was written last.

StandaloneBackup and BackupRecovery.  `NewestIsWhole`: the newest listed backup of an
instance, which a restore picks, has its dump and its checksum.  `PublishedIsWhole`: a
create publishes a whole backup, nobody having collected its dump as an orphan
meanwhile.  `GcKeepsNewest`: a whole backup is broken only by a gc of its own instance
that leaves at least `--keep` newer whole ones.  `OneDump`: one `pg_dump` at a time loads
a database.  `VerifiedCopyRecovers`: since a verified sync the other host has, of each
instance, a whole backup no older than the newest that was listed when the sync began.
`VerifiedRehearsalIsTrue`: a verified rehearsal restored its backup to the end, the
backup is still there, and nothing of the rehearsal is left in the container.

IsolatedExecution.  `BodyAtMostOnce`: an execution's body is entered once, and once more
only for each failed registry access or killed launcher.  `BurnIsEarned`: an execution is
burned only by use (its body, a full ledger, a failed access, a driver killed after its
claim), never by a failure before the claim or of the infrastructure after it.
`VerifiedLeafIsFinal`: a leaf that passes the verification shows a reference really
rewritten, and its execution cannot run again unless recording that failed.
`LeftoversAreReported`: a run that left a project or a private file behind is not called
passed, and its receipt has `cleanup_failed` (a rehearsal's also its failed status), unless
the cleanup caught an error that is no `_PhaseError`.

ComposeTransaction.  `RefusalChangedNothing`: an operation that ends as refused or busy
has touched neither the file nor the container.  `DriftIsExplained`: the file and the
container part only by an edit, a kill or a failure that was reported.

ComposeBoundary.  `SecretsStayPut`: a secret, as it is or percent-encoded, reaches a
container only the way the release hands it over.  `ServersAreClosed`: every server that
runs is declared, on the loopback alone, asks for passwords, and its administrator's
password is as it is in no container beside it but one-shots.  It leaves out, by name
(`Unseen`), the servers that no rule sees; a service that is declared cannot hide.

HostOperations.  `ReleasesStand`: the install root and the way back name whole, marked
releases.  `EnvSurvivesInstalls`: a flip takes no write of `.env` back.  `BackendIsOfApp`:
the backend does not run on while the root moves under it.  `AdoptedTogether`: what adopt
records ran at one instant.  `RecreatesCurrent`: what an `up` starts is current when it
starts it.  `OneScheduler`: the plane loads no location whose own daemon runs.
`OwnDaemonOwnInstance`: an own daemon never schedules against the shared instance.

These properties are proved and no longer run, because the ones above imply them, or
because a theorem says all that a run would: `TypeOK` of every module with a proof,
`CommittedIsQuiet` (nothing of a killed deploy is left at a commit),
`BaselineMovesByDecision`, `DestroysOnlyWhenRestarting`, `HalfRotatedHasIntent`,
`NeverEntersBlocked`, `ClearsWhenPublished`, `FlightHasLeader`, `CacheIsCurrent`,
`PlacesAreGivenBack`, `RunningHasThread`, `SucceededIsTrue`, `OneProductionMutator`,
`OnlyAllowedRuns`, `NamedSourcesAreWhole`.  That the DSNs' port is that of one server
alone is not stated: `DsnInstance` counts the servers whose command states a port, and
`PGPORT` or a configuration file may put another one there.

### Bounds, and why they are enough

`MaxFaults = 2` in the deploy gives the kill of a run and a failure or another kill of
the run that resumes it; the records and leftovers of a third run are those of the
second, since a run keeps nothing else.  Three identities are the live one, the
recorded one and a new one.  Two pairs have different Map heads and the same PinVi
head, so that both a migration and a no-op happen.  `MaxSwaps` and `MaxReleases` bound
what the operator does between two runs.

In `CandidateImages` three rebuilds are one that commits, one of another pinset that
leaves its images, and one that reuses, judges or cleans up after both.

In `PairRotation` a second kill adds a resumption of the same intent, which writes the
same files in the same order; the block lists are bounded by one entry each, so that the
refusal at the limit happens; `Floor` names a pair that rotations reach.  In
`PinRequests`, `Scope` admits two rotations beside one request, or one rotation of the
source registry beside two: the hazards of the file need two requests, those of the
registries an intent of an earlier command.

In `ConsoleSessions` the epoch bound admits two whole mutations, overlapping or in a row,
and lets every mutation that began end.  `Scope` separates the parts that share nothing
but the snapshot: requests and mutations; a status socket and the broadcast over a
snapshot without mutations; a log socket; the password.  `Lease` 2 and `Interval` 1 with
`MaxTime` 2 let a lease end, a recheck be early and a slow recheck be late.

In `StandaloneBackup` three creates give a backup that is kept, one that is collected and
one that is broken between them; `--keep` 1 and 2 differ in whether a broken newest set
is counted; one kill leaves a half unlinked set or a `pg_dump` without a client, and the
processes meet the leftovers of both; the instances are interchangeable, hence the
symmetry.  A sync only reads and a rehearsal changes no backup, so `Scope` lets a sync or
two rehearsals run beside one `ktdctl` process with two creates, and one kill or one move.

In `IsolatedExecution` the ledger takes two claims where the code's takes 32
(`_LEDGER_CLAIM_ATTEMPT_LIMIT`), so that it fills up; two pinsets and two Managers give
a run that meets another execution's leaf, and one fault per run is what tells a run
that was used from one that was not.  Two
faults of two runs touch different identities or add up in the same counter.

In `ComposeTransaction` a backend and a CLI are the two kinds of processes; the
configurations are the installed one, an allowed and a refused one; two requests give a
conflict or a repair, two edits an edit before and an edit during a transaction.  In
`ComposeBoundary` the rules look at one section against the release or at two sections
against each other, so two edits reach every case of theirs, and the list of variants has
one entry per clause of a rule.

In `HostOperations` the three parts meet only in `G` and in the install root; `Scope`
lets whole installs run while services and plane rest, release commands while the
installer only takes and releases `G`, and the plane between installs that succeed.
What that leaves out, the theorems cover.  Three revisions give an install, a way back
and a collection; two kills an interrupted install and its interrupted repetition.  The
three workspaces move one location per release, one of them of the pinned pair.

### Fairness

`PinnedDeploy!FairSpec`: a process that is not killed takes its next step, a container
that was started ends (`--wait-timeout` and the one-shots' own ends), and the operator
repeats `--restart` for ever; strong fairness, because starting is possible only
between runs.  Faults are bounded and need no fairness.  `PairRotation!FairSpec`: a
command does its next write, and the operator repeats `rotate-pair` with the revisions
of the pending intent.  `ConsoleSessions!FairConsole`: a caller's own steps are taken and
its deadline passes; a collection, and a mutation, may hang for ever.  The other
specifications have no fairness: their properties are about what may happen, and the
code promises no backup, acceptance or install by any time.

## Findings

1. A kill between the two system calls that make, or remove, the credential directory
   wedges all later deploys (`pinned_deploy_wedge`): the reconciler refuses an empty
   directory.  `RerunCommits` is the property that does hold.
2. A start whose read of the compose file fails creates a section without ports,
   environment and networks and writes it (`compose_start`), although a start is said
   to leave the file as it is.

The models also show these limits of the code.  The properties state them as exceptions
(a history variable, or a condition on the operator) rather than hide them.

- Deploy.  The databases are compared before the deploy starts only: an operator who
  swaps one before the commit (`compose_service.py:5549`) has it adopted
  (`OperatorConcurrent`).  A reset that is marked on disk and then finished by a plain
  run is recorded without the restart.
- Pins.  `pin init --force` may part the two registries and enter a blocked pair.  An
  interrupted rollback refuses its own retry after a trusted install; `rotate-pair` with
  the intent's revisions resumes it.  `pin verify` only reads, although messages say that
  it refreshes the public copy.
- Requests.  A removal compares the id and then unlinks by name; `--force` removes a file
  that is being written; a POST that fails unlinks whatever has the name.  The docstring
  of `clear_runtime_pin_request` says that a request which arrives in between must not be
  removed.  A POST also records a request that an apply must refuse, because only v6
  knows the candidate as terminal.
- Sources.  `_read_source` looks for the record, then for the tree, then removes the
  tree: beside a rehearsal it may remove one that was placed in between, and the prune
  may delete a directory a rehearsal is filling (`crossed`); the docstrings of
  `pinned_runtime_sources.py` call making a tree again always safe.
- Backups.  A `pg_dump` whose client was killed before it connected is seen by nobody
  (`blind`).  The comment of `scripts/run-offbox-sync.sh` that the role lock refuses
  overlapping copies is not so: `offbox_backup_sync.py` takes none.  The sweep of a
  rehearsal lets a `TimeoutExpired` through, reports a database whose `dropdb` failed as
  dropped, and may drop the database of a rehearsal that is older than six hours.
- Console.  The docstring of `admin_password_service.py` speaks of a step that is gone,
  and the process environment is set outside the lock.  A status socket gets broadcasts
  while it still collects its first frame, before its first recheck deadline is set.
- Acceptance.  A cleanup step that fails with an error of the system, say an `OSError` of
  an unlink or of a subprocess (`m05_isolated_e2e.py:1064`, `1073`), leaves a project or a
  private file behind while the receipt says `cleanup_failed: false` (`4236`).  The run is
  not called passed, but a rehearsal is called rehearsed and exits with 0 (`4258`, `4270`).
  Only stderr tells.  The comment at `4188` says that `cleanup_failed` carries the signal
  of the cleanup; it carries that of `_PhaseError`s.
- Compose boundary.  `_service_holds_admin_secret` asks `password in value`
  (`c6c_deployment.py:2239`): an administrator's password that is percent-encoded in a
  variable which the release hands to a container is let pass.  Of a service that
  `docker-targets.yml` does not declare,
  `_service_witnesses_a_postgres_server` (`1559`) reads the first word of the command, the
  first word of a shell's payload and the one after `exec`: a server that is started
  otherwise, be it by its image, on a service that names no cluster's password, is seen
  by no rule.  Both
  edits need the operator's own hand on the compose file or the `.env`.
- Installs.  `prod-deployment.md:224` says that each install returns
  `docker-compose.yml` to the release; reinstalling a release that is still there and
  marked keeps the edits made to it.
- Dagster plane.  `_require_shared_plane_releases_own_targets` asks the webserver alone.
  The script's `compose up` of the plane checks its own location only, where converge
  checks all.  A cutover killed between the first `docker stop` and the write of
  `fence_ts` can be neither repeated nor resumed.  Converge may load a fenced location
  whose code server still writes to the old instance.


## Proofs

The proof modules state, for every value of the constants, what the runs check on their
instances.  They assume only the named assumptions beside the constants: that a file
that does not exist is no document (`AbsentAssumption`), that nobody is no process and
nothing is no document, that pairs and identities are numbers, that callers are finitely
many and the bounds natural numbers.  The bounds on faults, installs, swaps and epochs
stay in the guards, so a theorem covers runs of any length with any number of faults.
Where an instance has a `Scope`, the theorem has none.

`PinnedDeployProofs` builds its invariant in four layers on the type invariant.
`RecordInv` says what the record is worth at each program counter: none of the
properties is inductive alone, because whether a carried `reset` marker is true depends
on which mode is running and how far it is.  `QuietInv` says which one-shots can run at
which step, and that an uncommitted record is the only place to leave a leftover;
`WriterExclusion` and `CommittedIsQuiet` follow.  `BaselineInv`, under
`~OperatorConcurrent`, says that from the admission to the commit the databases are
those the deploy compared; `DeploysOnlyKnownDatabases` and `BaselineMovesByDecision`
follow.  `DestructionOnlyByRestart` needs the record layer only.  `DeployedInv` says, for
each step past a check, that what was checked is still so: a one-shot of an earlier
deploy could migrate a database after its head was read, and `QuietInv` is why none runs
then.  `CommitIsWhatRuns` follows, under `~OperatorConcurrent` as in the run: an operator
who replaces a database between the last look and the commit makes it false (TLC shows
the trace when the constant is set).

`CandidateImagesProofs` has two layers.  `SourcesInv` says that a tree under a name is
whole once it has its record, and which of the two actors owns the directory it fills;
the part that only holds while nobody crosses is stated under `~crossed`.  `DeployInv`
says that a tag is what was built under it, how far the run's images are known, and that
what the retention reports is so; it has the four properties of the run as conjuncts,
because each of them is what another step relies on.

`PairRotationProofs` first shows that every command starts in one of four ways
(`CommandStart`): it resumes the intent, begins one, writes the source registry alone
or the execution registry alone.  The invariant then says what a target is worth to the
files as they are (`RotationInv`).  `Sound` is its heart: a rotation forgets no block,
and either its pair is pinned already or may be entered and the current one left.  It
has to be stated about the intent on disk as well as about a running command, because a
kill turns the one into the other, and it has to admit "its pair is pinned already",
because a resumption starts from the first write again.  `Publishes` records which
files have been written by which step, from which `ClearsWhenPublished` follows.  All
safety properties of the run are proved, and so is the refinement: `RotatesInOneStep`
shows that the initial states are the abstract ones and that every step is an abstract
step or leaves both documents as they are.  `Sound` is what makes the step that
publishes an intent a legal rotation, and `Publishes` what makes the later writes
stutter.

The same module lifts this to `PinRequests` (`RequestsInvariant`): a step of the
requests is a step of the pins, or a fault beside them (`StepOfPins`), so every invariant
of the pins holds under `RequestsSpec` too.  `AskInv` says where the rotation of an apply
goes: to the proposed pair, by an intent or over the source registry alone, and that it
is everywhere once the rotation rests.  It needs `RotationInv`, because the apply may
complete an intent that an earlier command left half written.  `FileInv` says whose file
is under the name: as long as nothing ran beside a removal (`KeptInv`), a POST that
writes finds its own file, a half written file was never recorded, a removal takes what
it decided about, and each recorded request is applied, cancelled or there.

`ConsoleSessionsProofs` proves the facts of the snapshot under `Spec` and lifts them to
`ConsoleSpec`, across a restart of the backend.  It needs `EpochInv`, that the mutations
under way still fit below the epoch bound, and `FreshInv`, that a collection which began
at some epoch holds, for every container, a value at least as new as every change that
ended before that epoch.  `LeaseInv` gives `LeaseHolds`: a loop's deadline is at most a
lease away, and after the end of its session neither the deadline nor the clock is past
the end of the lease, since a tick waits for the handlers that are due.  `PasswordInv`
says that the change which is inside holds the lock, and that what it read is what
`.env` says as long as the file is the same.  `ConsoleAssumption` keeps nobody, the
clock, the changers and the broadcaster apart.

`BackupRecoveryProofs` assumes that processes are jobs or `ktdctl` runs and not both
(`ProcessesAssumption`), that `--keep` is positive and that the bounds are naturals.
`LockInv` says that whoever is under the role lock holds it; it makes every step under
the lock a step of one process (`OneActs`), and all other steps leave the files alone
(`FilesKept`).  `DumpInv` says that a `pg_dump` nobody sees yet has its client, who is
under the lock: hence `OneDump`, with lock and `pg_stat_activity` each covering what the
other cannot.  `SetInv` is why a kill between two unlinks is harmless: of an instance's
backups the broken ones are older than the whole ones (`DiskInv`), and what a gc still
has to unlink is a lower end of them with `--keep` newer ones for each
(`CollectingInv`).
These, and the other three properties of the component, are theorems of `Spec`, the role
by itself.  In `RecoverySpec` every step of a sync or a rehearsal is `Beside` the role:
it changes none of its files, processes or records, and its lock only when no process has
it.  The invariant of the role (`RoleInv`) therefore still holds there, and the four
properties of the role that the run checks are theorems of `RecoverySpec` too.

`VerifiedCopy` follows one backup through a sync.  What a second that has passed left
behind can only be lost (`Settled`): nobody makes a backup of it again, and its manifest
never changes what it says (`OffsiteInv`).  Until rsync lists the directory, a whole
backup at least as new as the newest one of the beginning is still here (`StillHere`),
since gc takes one only when it leaves a newer one; from the listing on, each of its
three files has been copied or is a name rsync still has (`OnItsWay`), or the sync has
lost a file and does not verify.  Which backup it is changes while the list is made, so
the lemma `Largest`, by well-founded induction on the numbers, picks the newest.

`VerifiedRehearsal` rests on what a rehearsal knew before it held the lock: a listed
backup that was settled when it was planned is, as long as its dump is there, still
listed and of the planned instance (`PlanInv`), because a gc unlinks the dump first
(`DumpFirst`).  Under the lock no create or gc writes (`LockedOut`), so that a dump found
there stays to the end; run numbers keep two rehearsals, and a `pg_restore` that outlives
its client, apart (`RunsInv`); and each clean-up step has what it claims unless it set
`blocked` (`DoneInv`).  `RehearsersAssumption` keeps rehearsers apart from the other
processes.

`IsolatedExecutionProofs` has one invariant of five parts (`RunInvariant`).  `CourseInv`
says where driver and launcher stand and what they know of the run; its last line, that
an admitted identity stays free of terminal blocks until the driver records one, is what
the others rest on.  `BodiesInv` is the accounting: a body that is over left a terminal
block, a fault or a killed launcher, where `Owed` is the run whose block is still to be
written and `Ahead` the run that will enter the body without a launcher beside it.
`CauseInv` says that burns have a cause and that the exit of the driver is what its
receipt says (`Truthful`).  `EvidenceInv`: an attested leaf stands for a reference that
was rewritten, and a run that is done is consumed or had a fault.  `ResourceInv`: a
project is under its handle before it is up, and what a cleanup leaves is known to the
receipt, or to `surprised`.

`ComposeProofs` assumes that no actor is a backend and a CLI at once, that nobody and
the outside holder are no actors, and that the installed configuration is allowed.
`LockInv` says who holds which lock at which step; it does not yet give
`OneProductionMutator`, because the lock is chosen from the file and the mode from the
effective environment.  `ModeInv` closes that gap: until the operator edits the mode,
every process sees the one of the file.  `FlagInv` says what a transaction has done at
each of its steps, and that the code's `mutated` flag covers what Docker did, from which
`RefusalChangedNothing` follows; `RuleInv` which documents the rules have been asked
about at each step, from which `OnlyAllowedRuns` follows; `FileInv` what file and
container hold at each step while nothing has happened that may part them, from which
`DriftIsExplained` follows.  The part about `ComposeBoundary` is a proof about rules.
Its invariant (`VerdictInv`) only says that a captured document was judged as written,
and what runs was judged both ways; the work is in two lemmas about arbitrary
documents: `OnlyWhereTheReleaseRefers` (a variable with a secret in it, at a site of an
admitted document, stands where the release has it) and `RunningIsKnown` (every server
that runs, and is not `Unseen`, is one the rules count).

`HostOperationsProofs` proves one invariant of the three parts together
(`HostInvariant`), with no scope: installs, release commands and plane commands
interleave, and the operator may deviate.  It assumes that the processes that hold `G`
have different names (`NamesAssumption`, `PlaneNameAssumption`), that each role has an
owner and each release a workspace (`OwnerAssumption`, `PlaneAssumption`).  `LockInv`
says who has `G` open: one command, or a command and its child.  `InstallInv`: a mark
stands for a whole tree, and at each place the installer has made what the place says.
`AdoptInv`: what a look has seen of a container holds until the container is started
again, and the second look compares the starts, so that all of it held at the decision.
`UpInv`: what the child has still to start is current, since nobody else can publish
while it has `G` open.  `TaskInv`, `OwnInv` and `ScheduleInv` say, for each place of a
plane command, which location it is about, which daemons are fenced, where the code
servers are and what the two containers may have loaded; `ScheduleInv` also has to speak
about what a container would load if it were started again, because anything may start
it.  `OneScheduler` holds until the operator deviates; `OwnDaemonOwnInstance` always.

What only TLC checks: the liveness properties `RerunCommits`, `IntentResolves` and
`CallersNotHeld` (liveness is out of the prover's reach) and the violations.  Every other property of
a passing run is a theorem.

## What is not modelled, and why

- Files that cannot be read or parsed: the code refuses before its first write.
- In `PinnedDeploy`: the C6c smoke and its probe (steps that can only fail), isolation of
  foreign connections and ownership checks (preconditions that may fail), and
  `--adopt-live-databases` where a database is missing.  Exports, builds and retention
  are in `CandidateImages`, the Dagster part in `DagsterPlane`.  Of what a killed rebuild
  leaves behind, the one-shot containers go on; a `docker compose` client that survives
  its parent, and may still start services, is not modelled there (it is in
  `ServiceRelease`, where the inherited lock descriptor stops what comes next).
- In `PairRotation`: the seed bootstrap of a host without a source registry (the model
  starts from its result), blocks with a phase in the execution registry, which decide
  nothing here, and the bounded history.
- The lock file itself: that one mutating command runs at a time is built into
  `PinnedDeploy`, `CandidateImages` and `PairRotation`.  The locks of the backups, the
  containers, the launcher and the host operations are modelled.
- In the backups: the job runner's eviction, `latest` and its limit on the jobs of all
  roles; two creates within one second and a clock that steps back (the model gives
  every create a later second); permissions of the files; display (it only reads).
- In `ConsoleSessions`: the login throttle, the audit rows, the public API keys, cookie
  signatures and origins.
- In `ComposeBoundary`: the rules on mounts, host privileges, Concierge, credential
  formats and scoped candidates, and the port of a server that does not state it.
- `scripts/run-pinned-rebuild-once` and `rotate-pinned-pair`: their claim and their
  blocks are those of the acceptance launcher, without a driver of their own.
- In `DagsterPlane`: runs and ticks, consumers, Concierge's plane activation, the
  preparation of the instance file.  In the installs: ownership checks, the host's
  files under `/etc`, and a kill in the middle of the `cp` of `.env`, which is one step.
- Readiness, source status, topology and posture: functions from documents to documents,
  without steps to interleave.  Metrics: samples written to a database.  The console's
  pages: they render what the API answers.

## Plan

1. Refinements worth stating: a set of published backups per instance that is changed
   atomically, implemented by `StandaloneBackup`; a deploy whose commit is one step,
   implemented by `PinnedDeploy`; a linearizable status, implemented by `StatusSnapshot`.
2. Model extensions: `run-pinned-rebuild-once` composed with `PinnedDeploy` and
   `PairRotation!ExecutionBlock`; the job runner's eviction and limit; the rules on
   mounts and host privileges of `ComposeBoundary`.
