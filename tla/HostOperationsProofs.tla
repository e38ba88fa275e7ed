-------------------------- MODULE HostOperationsProofs --------------------------
(***************************************************************************)
(* Proofs about HostOperations: who may hold the lock G, what an install    *)
(* leaves behind, what a release marker stands for and which daemon         *)
(* schedules a location, for any releases, commands, services, locations,   *)
(* faults and writes.                                                       *)
(***************************************************************************)
EXTENDS HostOperations, TLAPS

-----------------------------------------------------------------------------
(* What the variables range over.                                            *)

BuildPlaces == {"tree", "build", "mark"}
Prepared == {"checks", "stop", "flip"}
Flipped == {"start", "verify", "collect"}
InstallPlaces == {"idle", "reference", "env"} \cup BuildPlaces \cup Prepared \cup Flipped

Installers == [at : InstallPlaces, sha : Revisions, cli : BOOLEAN, prev : Revisions]

InstallTypes ==
    /\ tree \in [Revisions -> {"none", "partial", "whole"}]
    /\ marked \subseteq Revisions /\ reference \subseteq Revisions
    /\ env \in [Revisions -> Nat \cup {None}]
    /\ app \in Revisions /\ backend \in Revisions \cup {None}
    /\ install \in Installers
    /\ previous \in Revisions \cup {None} /\ written \in Nat
    /\ raced \in BOOLEAN /\ meddled \in BOOLEAN

Containers == [image : Images, started : Nat, healthy : BOOLEAN]
Looks == [role : Roles, is : Containers]
CommandPlaces == {"idle", "observe", "again", "verify", "wait"}
CommandRecords == [at : CommandPlaces, of : Services \cup {None}, replace : BOOLEAN,
                   seen : SUBSET Looks, look : SUBSET Looks,
                   ran : {None} \cup UNION {[R -> Images] : R \in SUBSET Roles}]
Children == [left : SUBSET Roles, images : UNION {[R -> Images] : R \in SUBSET Roles}]

CurrentTypes ==
    /\ DOMAIN current = Services
    /\ \A s \in Services : current[s] = None \/ current[s] \in [RolesOf(s) -> Images]

ServiceTypes ==
    /\ container \in [Roles -> Containers] /\ clock \in Nat
    /\ CurrentTypes
    /\ DOMAIN command = Commands
    /\ \A p \in Commands : command[p] \in CommandRecords
    /\ up # None => up \in Children

Kinds == {"none", "converge", "rebuild"} \cup Cutover
CutoverPlaces == {"fence", "stop", "record", "drain", "switch", "plane", "verify", "retire", "old",
                  "rebuild"}
SlotPlaces == {"slots_down", "slots_up", "converge", "up_slots", "finish"}
PlanePlaces == {"idle", "check", "up", "health", "failed"} \cup CutoverPlaces \cup SlotPlaces
Tasks == [at : PlanePlaces, kind : Kinds, of : Locations \cup {None}, todo : SUBSET Both,
          fenced : BOOLEAN]

PlaneTypes ==
    /\ plane \in [Both -> [on : BOOLEAN, made : SUBSET Locations, loads : SUBSET Locations]]
    /\ own \in [Locations -> {"running", "stopped", "gone"}]
    /\ code \in [Locations -> {"own", "shared", "down"}]
    /\ task \in Tasks
    /\ deviated \in BOOLEAN

-----------------------------------------------------------------------------
(* The inductive invariants.                                                 *)

\* The holders of G: one command at a time, or a command that waits and its child.
LockInv ==
    /\ install.at # "idle" => G = {"installer"}
    /\ task.at # "idle" => G = {"plane"}
    /\ \A p \in Commands : /\ command[p].at # "idle" => p \in G
                           /\ command[p].at \in {"observe", "again", "verify"} => G = {p}
    /\ up # None => "up" \in G

\* A mark stands for a whole tree, and the installer has made what its place says.
InstallInv ==
    /\ ReleasesStand /\ EnvSurvivesInstalls /\ BackendIsOfApp
    /\ \A r \in marked : tree[r] = "whole"
    /\ install.at = "mark" => tree[install.sha] = "whole"
    /\ install.at \in {"reference", "env"} \cup Prepared \cup Flipped => install.sha \in marked
    /\ install.at \in {"env"} \cup Prepared \cup Flipped => install.sha \in reference
    /\ install.at \in Prepared \cup Flipped => env[install.sha] # None
    /\ install.at \in {"reference", "env"} \cup BuildPlaces \cup Prepared => install.prev = app
    /\ install.at \in Flipped => /\ app = install.sha
                                 /\ install.prev # install.sha => previous = install.prev
    /\ ~raced /\ install.at \in Prepared => env[install.sha] = written
    /\ ~meddled /\ install.at = "flip" => backend = None

\* What a look has seen of a container holds as long as that container is not started again.
StillTrue(look) ==
    /\ look.is.started <= container[look.role].started
    /\ container[look.role].started = look.is.started => container[look.role].image = look.is.image

Watched(p) ==
    LET c == command[p] IN
    /\ c.of \in Services
    /\ \A look \in c.seen : look.role \in RolesOf(c.of) /\ StillTrue(look)
    /\ \A a, b \in c.seen : a.role = b.role => a = b

\* At the second look, what ran at the decision is what was seen of an unchanged container.
Confirmed(p) ==
    LET c == command[p] IN
    /\ Watched(p)
    /\ Seen(p) = RolesOf(c.of) /\ c.ran \in [RolesOf(c.of) -> Images]
    /\ \A look \in c.seen :
          container[look.role].started = look.is.started => c.ran[look.role] = look.is.image
    /\ c.look \subseteq c.seen /\ \A look \in c.look : c.ran[look.role] = look.is.image

AdoptInv ==
    /\ AdoptedTogether
    /\ \A r \in Roles : container[r].started <= clock
    /\ \A p \in Commands : /\ command[p].at = "observe" => Watched(p) /\ command[p].look = {}
                           /\ command[p].at = "again" => Confirmed(p)
                           /\ command[p].at = "verify" =>
                                 command[p].of \in Services /\ \A s \in Services : current[s] # None

\* What the child has still to start is the release that is current.
UpInv == up # None => /\ up.left \subseteq DOMAIN up.images
                      /\ \A r \in up.left : up.images[r] = current[Owner[r]][r]

\* Where a command of the plane stands, which location it is about.
TaskInv ==
    /\ task.at = "idle" => task = NoTask
    /\ task.at # "idle" => task.kind # "none"
    /\ task.kind \in Cutover => task.of \in Locations
    /\ task.at \notin {"up", "up_slots", "failed"} => task.todo = {}
    /\ task.at = "up" => task.kind # "rebuild"
    /\ task.at \in CutoverPlaces => task.kind \in Cutover
    /\ task.at \notin {"idle", "check"} =>
          /\ task.kind \in {"forward", "resume"} => task.of \in Installed
          /\ task.kind = "rollback" => task.of \notin Installed

\* Fenced locations stay fenced, and code servers are where the place says.
OwnInv ==
    /\ OwnDaemonOwnInstance
    /\ task.kind \in {"forward", "resume"} /\ task.at \notin {"check", "fence", "stop"} =>
          own[task.of] # "running"
    /\ task.kind = "rollback" /\ task.at = "old" => code[task.of] = "own"
    /\ task.at \in SlotPlaces => \A t \in Pinned \cap Installed : own[t] # "running"
    /\ task.at \in {"converge", "up_slots", "finish"} => \A t \in Returned : code[t] = "own"

\* Outside a torn `up' the two containers load the same list, and neither loads what is
\* about to get its own daemon back.
Apart == \A t \in Locations :
            own[t] = "running" => ~(plane["daemon"].on /\ t \in plane["daemon"].loads)

Orderly ==
    LET daemon == plane["daemon"] IN
    /\ Apart
    /\ task.todo \in {{}, Both} /\ (\A s \in Both : plane[s].on) =>
          daemon.loads = plane["webserver"].loads
    /\ task.at \in {"up", "up_slots"} =>
          \A s \in Both \ task.todo : plane[s].on => plane[s].loads = Installed
    /\ task.at = "up_slots" \/ (task.at = "up" /\ task.kind = "converge") => OwnersFenced
    /\ task.kind \in Cutover => \A u \in Installed \ {task.of} : own[u] # "running"
    /\ task.kind = "rollback" /\ task.at \in {"verify", "switch", "old"} /\ daemon.on =>
          task.of \notin daemon.loads
    /\ task.at \in SlotPlaces /\ daemon.on => daemon.loads \cap Returned = {}

ScheduleInv == ~deviated => Orderly

-----------------------------------------------------------------------------
(* The steps: of the installer, of the release commands, of the plane.       *)

LEMMA Steps ==
    ASSUME [HostNext]_hostVars
    PROVE  \/ InstallNext /\ UNCHANGED <<serviceVars, planeVars>>
           \/ ServiceNext /\ UNCHANGED <<releases, backend, install, history, planeVars>>
           \/ PlaneNext /\ UNCHANGED <<releases, backend, install, history, serviceVars>>
           \/ UNCHANGED hostVars
BY DEF HostNext, ReleaseNext, hostVars, releaseVars, installVars

LEMMA InstallSteps ==
    ASSUME InstallNext
    PROVE  \/ \E sha \in Revisions, cli \in BOOLEAN : BeginInstall(sha, cli)
           \/ Discard \/ Build \/ Mark \/ WriteReference \/ CopyEnv \/ Check \/ StopBackend \/ Flip
           \/ StartBackend \/ VerifyInstall \/ Collect \/ InstallerDies
           \/ ChangePassword \/ EditLiveEnv \/ OperatorStarts \/ OperatorStops
BY DEF InstallNext

LEMMA ServiceSteps ==
    ASSUME ServiceNext
    PROVE  \/ \E p \in Commands, s \in Services, replace \in BOOLEAN : AdoptBegins(p, s, replace)
           \/ \E p \in Commands, s \in Services : RecreateBegins(p, s)
           \/ \E p \in Commands, r \in Roles : Observe(p, r) \/ ObserveAgain(p, r) \/ Verify(p, r)
           \/ \E p \in Commands : Decide(p) \/ Publish(p) \/ StartUp(p) \/ Return(p) \/ CommandDies(p)
           \/ \E r \in Roles : UpRecreates(r) \/ HealthChanges(r)
           \/ \E r \in Roles, image \in Images : ReplacedByHand(r, image)
           \/ UpEnds
BY DEF ServiceNext

LEMMA PlaneSteps ==
    ASSUME PlaneNext
    PROVE  \/ \E t \in Locations, kind \in Cutover : Begin(kind, t)
           \/ \E kind \in {"converge", "rebuild"} : Begin(kind, None)
           \/ ForwardCheck \/ Fence \/ StopOld \/ RecordFence \/ Drain \/ ResumeCheck
           \/ SwitchCode \/ JudgePlane \/ UpDone \/ VerifyForward \/ Retire
           \/ RollbackCheck \/ VerifyRollback \/ OldCode \/ OldStart
           \/ ConvergeCheck \/ ConvergeReport
           \/ RebuildCheck \/ SlotsDown \/ SlotsUp \/ ConvergePlane \/ FinishSlots
           \/ StopFailedSlots
           \/ \E s \in Both : UpPlane(s) \/ UpSlots(s) \/ PlaneStarts(s) \/ PlaneStops(s)
           \/ Fails \/ TaskDies
BY DEF PlaneNext

-----------------------------------------------------------------------------
(* Types.                                                                    *)

LEMMA InitTypes ==
    ASSUME HostInit
    PROVE  InstallTypes /\ ServiceTypes /\ PlaneTypes
<1>1. InstallTypes
  BY RevisionsAssumption, WritesAssumption
  DEF HostInit, ReleaseInit, InstallInit, InstallTypes, Installers, NotInstalling, InstallPlaces,
      BuildPlaces, Prepared, Flipped
<1>2. ServiceTypes
  <2>1. container \in [Roles -> Containers] /\ clock \in Nat
    BY DEF HostInit, ReleaseInit, Containers
  <2>2. PICK i \in [Roles -> Images] : current \in [Services -> {None}] \cup
                         {[s \in Services |-> [r \in RolesOf(s) |-> i[r]]]}
    BY DEF HostInit, ReleaseInit
  <2>3. CurrentTypes
    BY <2>2 DEF CurrentTypes, RolesOf
  <2>4. /\ DOMAIN command = Commands
        /\ \A p \in Commands : command[p] = NoCommand
    BY DEF HostInit, ReleaseInit
  <2> QED
    BY <2>1, <2>3, <2>4 DEF HostInit, ReleaseInit, ServiceTypes, NoCommand, CommandRecords,
        CommandPlaces
<1>3. PlaneTypes
  <2>1. Installed \subseteq Locations
    BY PlaneAssumption, <1>1 DEF Installed, InstallTypes
  <2> QED
    BY <2>1 DEF HostInit, PlaneInit, PlaneTypes, Tasks, NoTask, PlanePlaces, Kinds
<1> QED BY <1>1, <1>2, <1>3

LEMMA Going ==
    ASSUME install \in Installers
    PROVE  /\ \A where \in InstallPlaces : GoTo(where) =>
                 /\ install' \in Installers /\ install'.at = where
                 /\ install'.sha = install.sha /\ install'.prev = install.prev /\ G' = G
           /\ Quit => install' \in Installers /\ install'.at = "idle" /\ G' = G \ {"installer"}
<1>1. ASSUME NEW where \in InstallPlaces, GoTo(where)
      PROVE  /\ install' \in Installers /\ install'.at = where
             /\ install'.sha = install.sha /\ install'.prev = install.prev /\ G' = G
  BY <1>1 DEF GoTo, Installers
<1>2. ASSUME Quit
      PROVE  install' \in Installers /\ install'.at = "idle" /\ G' = G \ {"installer"}
  BY <1>2, RevisionsAssumption
  DEF Quit, NotInstalling, Installers, InstallPlaces
<1> QED BY <1>1, <1>2

LEMMA PlacesOfInstall ==
    {"idle", "tree", "build", "mark", "reference", "env", "checks", "stop", "flip", "start",
     "verify", "collect"} = InstallPlaces
BY DEF InstallPlaces, BuildPlaces, Prepared, Flipped

LEMMA InstallTypesKept ==
    ASSUME InstallTypes, InstallNext
    PROVE  InstallTypes'
<1> USE Going, PlacesOfInstall DEF InstallTypes, releases, history, At
<1>1. ASSUME NEW sha \in Revisions, NEW cli \in BOOLEAN, BeginInstall(sha, cli)
      PROVE InstallTypes'
  BY <1>1 DEF BeginInstall, Installers
<1>2. CASE Discard
  BY <1>2 DEF Discard, Installers
<1>3. CASE Build
  BY <1>3 DEF Build, Installers
<1>4. CASE Mark \/ WriteReference
  BY <1>4 DEF Mark, WriteReference, Installers
<1>5. CASE CopyEnv
  BY <1>5 DEF CopyEnv, Installers
<1>6. CASE Check \/ StopBackend \/ StartBackend \/ VerifyInstall
  BY <1>6 DEF Check, StopBackend, StartBackend, VerifyInstall
<1>7. CASE Flip
  BY <1>7 DEF Flip, Installers
<1>8. CASE Collect
  BY <1>8 DEF Collect, Old
<1>9. CASE InstallerDies \/ OperatorStops
  BY <1>9 DEF InstallerDies, OperatorStops
<1>10. CASE OperatorStarts
  <2>1. meddled' \in BOOLEAN
    BY <1>10, Zenon DEF OperatorStarts
  <2> QED BY <1>10, <2>1 DEF OperatorStarts
<1>11. CASE ChangePassword
  BY <1>11, WritesAssumption DEF ChangePassword, WriteEnv
<1>12. CASE EditLiveEnv
  <2>1. raced' \in BOOLEAN
    BY <1>12, Zenon DEF EditLiveEnv
  <2> QED BY <1>12, <2>1, WritesAssumption DEF EditLiveEnv, WriteEnv
<1> QED
  BY InstallSteps, <1>1, <1>2, <1>3, <1>4, <1>5, <1>6, <1>7, <1>8, <1>9, <1>10, <1>11, <1>12

\* What a command may become, and what it has seen.
LEMMA CommandForms ==
    ASSUME ServiceTypes, NEW p \in Commands
    PROVE  /\ NoCommand \in CommandRecords
           /\ \A s \in Services, replace \in BOOLEAN :
                 [NoCommand EXCEPT !.at = "observe", !.of = s, !.replace = replace]
                    \in CommandRecords
           /\ \A s \in Services, where \in CommandPlaces :
                 [NoCommand EXCEPT !.at = where, !.of = s] \in CommandRecords
           /\ \A r \in Roles :
                 /\ Look(r) \in Looks
                 /\ [command[p] EXCEPT !.seen = @ \cup {Look(r)}] \in CommandRecords
                 /\ [command[p] EXCEPT !.look = @ \cup {Look(r)}] \in CommandRecords
           /\ \A s \in Services :
                 /\ Running(s) \in [RolesOf(s) -> Images]
                 /\ [command[p] EXCEPT !.at = "again", !.ran = Running(s)] \in CommandRecords
<1>1. NoCommand \in CommandRecords
  BY DEF NoCommand, CommandRecords, CommandPlaces
<1>2. ASSUME NEW r \in Roles
      PROVE  Look(r) \in Looks
  BY <1>2 DEF Look, Looks, ServiceTypes
<1>3. ASSUME NEW s \in Services
      PROVE  Running(s) \in [RolesOf(s) -> Images] /\ RolesOf(s) \in SUBSET Roles
  BY <1>3 DEF Running, RolesOf, ServiceTypes, Containers
<1>4. \A s \in Services : Running(s) \in UNION {[R -> Images] : R \in SUBSET Roles}
  BY <1>3
<1>5. command[p] \in CommandRecords
  BY DEF ServiceTypes
<1>6. \A s \in Services, replace \in BOOLEAN :
         [NoCommand EXCEPT !.at = "observe", !.of = s, !.replace = replace] \in CommandRecords
  BY <1>1 DEF CommandRecords, CommandPlaces
<1>7. \A s \in Services, where \in CommandPlaces :
         [NoCommand EXCEPT !.at = where, !.of = s] \in CommandRecords
  BY <1>1 DEF CommandRecords
<1>8. \A r \in Roles : /\ [command[p] EXCEPT !.seen = @ \cup {Look(r)}] \in CommandRecords
                      /\ [command[p] EXCEPT !.look = @ \cup {Look(r)}] \in CommandRecords
  BY <1>2, <1>5 DEF CommandRecords
<1>9. \A s \in Services :
         [command[p] EXCEPT !.at = "again", !.ran = Running(s)] \in CommandRecords
  BY <1>4, <1>5 DEF CommandRecords, CommandPlaces
<1> QED BY <1>1, <1>2, <1>3, <1>6, <1>7, <1>8, <1>9

\* Which actions change what.
LEMMA Writers ==
    ASSUME ServiceNext
    PROVE  /\ \/ UNCHANGED <<container, clock>>
              \/ \E r \in Roles : UpRecreates(r) \/ HealthChanges(r)
              \/ \E r \in Roles, image \in Images : ReplacedByHand(r, image)
           /\ UNCHANGED <<current, adopted>> \/ \E p \in Commands : Publish(p)
           /\ \/ UNCHANGED up \/ UpEnds
              \/ \E p \in Commands : StartUp(p)
              \/ \E r \in Roles : UpRecreates(r)
           /\ \/ UNCHANGED <<command, G>> \/ UpEnds
              \/ \E p \in Commands, s \in Services, replace \in BOOLEAN : AdoptBegins(p, s, replace)
              \/ \E p \in Commands, s \in Services : RecreateBegins(p, s)
              \/ \E p \in Commands, r \in Roles : Observe(p, r) \/ ObserveAgain(p, r) \/ Verify(p, r)
              \/ \E p \in Commands : \/ Decide(p) \/ Publish(p) \/ StartUp(p)
                                     \/ Return(p) \/ CommandDies(p)
           /\ UNCHANGED command \/ ~UpEnds
BY ServiceSteps
DEF AdoptBegins, RecreateBegins, Observe, ObserveAgain, Verify, Decide, Publish, StartUp, Return,
    CommandDies, UpRecreates, HealthChanges, ReplacedByHand, UpEnds, Start

LEMMA SeenImagesType ==
    ASSUME ServiceTypes, NEW p \in Commands, Confirmed(p)
    PROVE  /\ SeenImages(p) \in [RolesOf(command[p].of) -> Images]
           /\ \A look \in command[p].seen : SeenImages(p)[look.role] = look.is.image
<1> DEFINE Sight(r) == CHOOSE look \in command[p].seen : look.role = r
<1>1. command[p].seen \subseteq Looks
  BY DEF ServiceTypes, CommandRecords
<1>2. ASSUME NEW r \in RolesOf(command[p].of)
      PROVE  Sight(r) \in command[p].seen /\ Sight(r).role = r
  <2>1. \E look \in command[p].seen : look.role = r
    BY DEF Confirmed, Seen
  <2> QED BY <2>1
<1>3. \A r \in RolesOf(command[p].of) : Sight(r).is.image \in Images
  BY <1>1, <1>2 DEF Looks, Containers
<1>4. SeenImages(p) = [r \in RolesOf(command[p].of) |-> Sight(r).is.image]
  BY DEF SeenImages
<1>5. ASSUME NEW look \in command[p].seen
      PROVE  SeenImages(p)[look.role] = look.is.image
  <2>1. look.role \in RolesOf(command[p].of)
    BY DEF Confirmed, Watched
  <2>2. Sight(look.role) = look
    BY <2>1, <1>2 DEF Confirmed, Watched
  <2> QED BY <1>4, <2>1, <2>2
<1> QED BY <1>3, <1>4, <1>5

LEMMA ServiceTypesKept ==
    ASSUME ServiceTypes, AdoptInv, UpInv, ServiceNext
    PROVE  ServiceTypes'
<1>1. DOMAIN command' = Commands /\ \A p \in Commands : command'[p] \in CommandRecords
  <2> USE DEF Leave
  <2>1. ASSUME NEW p \in Commands, NEW c \in CommandRecords, Become(p, c)
        PROVE  DOMAIN command' = Commands /\ \A q \in Commands : command'[q] \in CommandRecords
    BY <2>1 DEF Become, ServiceTypes
  <2>2. ASSUME NEW p \in Commands, NEW s \in Services, NEW replace \in BOOLEAN,
               AdoptBegins(p, s, replace)
        PROVE  \E c \in CommandRecords : Become(p, c)
    BY <2>2, CommandForms DEF AdoptBegins
  <2>3. ASSUME NEW p \in Commands, NEW s \in Services, RecreateBegins(p, s)
        PROVE  \E c \in CommandRecords : Become(p, c)
    BY <2>3, CommandForms DEF RecreateBegins, CommandPlaces
  <2>4. ASSUME NEW p \in Commands, NEW r \in Roles,
               Observe(p, r) \/ ObserveAgain(p, r) \/ Verify(p, r)
        PROVE  \E c \in CommandRecords : Become(p, c)
    BY <2>4, CommandForms DEF Observe, ObserveAgain, Verify
  <2>5. ASSUME NEW p \in Commands, Decide(p) \/ StartUp(p)
        PROVE  \E c \in CommandRecords : Become(p, c)
    <3>1. command[p].of \in Services
      BY <2>5 DEF Decide, StartUp, Here, AdoptInv, Watched
    <3> QED BY <2>5, <3>1, CommandForms DEF Decide, StartUp, CommandPlaces
  <2>6. ASSUME NEW p \in Commands, Publish(p) \/ Return(p) \/ CommandDies(p)
        PROVE  \E c \in CommandRecords : Become(p, c)
    BY <2>6, CommandForms DEF Publish, Return, CommandDies
  <2> QED BY Writers, <2>1, <2>2, <2>3, <2>4, <2>5, <2>6 DEF ServiceTypes
<1>2. container' \in [Roles -> Containers] /\ clock' \in Nat
  <2>1. ASSUME NEW r \in Roles, NEW image \in Images, NEW healthy \in BOOLEAN,
               Start(r, image, healthy)
        PROVE  container' \in [Roles -> Containers] /\ clock' \in Nat
    BY <2>1 DEF Start, ServiceTypes, Containers
  <2>2. ASSUME NEW r \in Roles, NEW image \in Images, ReplacedByHand(r, image)
        PROVE  container' \in [Roles -> Containers] /\ clock' \in Nat
    BY <2>1, <2>2 DEF ReplacedByHand
  <2>3. ASSUME NEW r \in Roles, UpRecreates(r)
        PROVE  container' \in [Roles -> Containers] /\ clock' \in Nat
    <3>1. up \in Children /\ r \in up.left /\ up.left \subseteq DOMAIN up.images
      BY <2>3 DEF UpRecreates, ServiceTypes, UpInv
    <3>2. up.images[r] \in Images
      BY <3>1 DEF Children
    <3> QED BY <2>1, <2>3, <3>2 DEF UpRecreates
  <2>4. ASSUME NEW r \in Roles, HealthChanges(r)
        PROVE  container' \in [Roles -> Containers] /\ clock' \in Nat
    <3>1. container[r] \in Containers /\ (~container[r].healthy) \in BOOLEAN
      BY DEF ServiceTypes
    <3>2. container' = [container EXCEPT ![r] = [container[r] EXCEPT !.healthy = ~container[r].healthy]]
      BY <2>4, Zenon DEF HealthChanges
    <3>3. [container[r] EXCEPT !.healthy = ~container[r].healthy] \in Containers
      BY <3>1 DEF Containers
    <3> QED BY <3>2, <3>3, <2>4 DEF ServiceTypes, HealthChanges
  <2> QED BY Writers, <2>2, <2>3, <2>4 DEF ServiceTypes
<1>3. CurrentTypes'
  <2>1. ASSUME NEW p \in Commands, Publish(p)
        PROVE  CurrentTypes'
    <3>1. SeenImages(p) \in [RolesOf(command[p].of) -> Images]
      BY <2>1, SeenImagesType DEF Publish, Here, AdoptInv
    <3>2. current' = [current EXCEPT ![command[p].of] = SeenImages(p)]
      BY <2>1 DEF Publish
    <3> QED BY <3>1, <3>2 DEF CurrentTypes, ServiceTypes, RolesOf
  <2> QED BY Writers, <2>1 DEF ServiceTypes, CurrentTypes
<1>4. up' # None => up' \in Children
  <2>1. ASSUME NEW p \in Commands, StartUp(p), up' # up
        PROVE  up' \in Children
    <3>1. command[p].of \in Services /\ current[command[p].of] # None
      BY <2>1 DEF StartUp, Here, AdoptInv
    <3>2. current[command[p].of] \in [RolesOf(command[p].of) -> Images]
      BY <3>1 DEF ServiceTypes, CurrentTypes
    <3>3. RolesOf(command[p].of) \in SUBSET Roles
      BY DEF RolesOf
    <3>4. current[command[p].of] \in UNION {[R -> Images] : R \in SUBSET Roles}
      BY <3>2, <3>3
    <3>5. up' = [left |-> RolesOf(command[p].of), images |-> current[command[p].of]]
      BY <2>1 DEF StartUp
    <3> QED BY <3>3, <3>4, <3>5 DEF Children
  <2>2. ASSUME NEW r \in Roles, UpRecreates(r)
        PROVE  up' \in Children
    <3>1. up \in Children /\ up' = [up EXCEPT !.left = @ \ {r}]
      BY <2>2 DEF UpRecreates, ServiceTypes
    <3> QED BY <3>1 DEF Children
  <2> QED BY Writers, <2>1, <2>2 DEF ServiceTypes, UpEnds
<1> QED BY <1>1, <1>2, <1>3, <1>4 DEF ServiceTypes

\* What becomes of the task.
LEMMA Moves ==
    ASSUME task \in Tasks
    PROVE  /\ \A where \in PlanePlaces : Proceed(where) =>
                 /\ task' \in Tasks /\ task'.at = where /\ task'.kind = task.kind
                 /\ task'.of = task.of /\ task'.todo = task.todo /\ task'.fenced = task.fenced
           /\ \A where \in PlanePlaces, todo \in SUBSET Both : Raise(where, todo) =>
                 /\ task' \in Tasks /\ task'.at = where /\ task'.kind = task.kind
                 /\ task'.of = task.of /\ task'.todo = todo /\ task'.fenced = task.fenced
           /\ Release =>
                 /\ task' \in Tasks /\ task' = NoTask /\ task'.at = "idle" /\ task'.kind = "none"
                 /\ task'.todo = {}
<1>1. ASSUME NEW where \in PlanePlaces, Proceed(where)
      PROVE  /\ task' \in Tasks /\ task'.at = where /\ task'.kind = task.kind
             /\ task'.of = task.of /\ task'.todo = task.todo /\ task'.fenced = task.fenced
  BY <1>1 DEF Proceed, Tasks
<1>2. ASSUME NEW where \in PlanePlaces, NEW todo \in SUBSET Both, Raise(where, todo)
      PROVE  /\ task' \in Tasks /\ task'.at = where /\ task'.kind = task.kind
             /\ task'.of = task.of /\ task'.todo = todo /\ task'.fenced = task.fenced
  BY <1>2 DEF Raise, Tasks
<1>3. ASSUME Release
      PROVE  /\ task' \in Tasks /\ task' = NoTask /\ task'.at = "idle" /\ task'.kind = "none"
             /\ task'.todo = {}
  BY <1>3 DEF Release, NoTask, Tasks, PlanePlaces, Kinds
<1> QED BY <1>1, <1>2, <1>3

LEMMA PlacesOfPlane ==
    {"idle", "check", "up", "health", "failed", "fence", "stop", "record", "drain", "switch",
     "plane", "verify", "retire", "old", "rebuild", "slots_down", "slots_up", "converge",
     "up_slots", "finish"} = PlanePlaces
BY DEF PlanePlaces, CutoverPlaces, SlotPlaces

LEMMA Switches == \A t \in Locations : Switching(t) \in {"switch", "rebuild"}
BY DEF Switching

LEMMA PlaneWriters ==
    ASSUME PlaneNext
    PROVE  /\ \/ UNCHANGED own \/ StopOld \/ Retire \/ OldStart
              \/ SlotsDown \/ FinishSlots \/ StopFailedSlots \/ Fails
           /\ UNCHANGED code \/ SwitchCode \/ OldCode \/ SlotsDown \/ SlotsUp \/ StopFailedSlots
           /\ \/ UNCHANGED plane
              \/ \E s \in Both : UpPlane(s) \/ UpSlots(s) \/ PlaneStarts(s) \/ PlaneStops(s)
           /\ \/ UNCHANGED deviated \/ Fails \/ TaskDies
              \/ \E t \in Locations \cup {None}, kind \in Kinds : Begin(kind, t)
              \/ \E s \in Both : PlaneStarts(s)
<1>1. ASSUME NEW t, NEW kind, Begin(kind, t)
      PROVE  UNCHANGED <<plane, own, code>>
  BY <1>1 DEF Begin
<1>2. \/ ~(\E t \in Locations, kind \in Cutover : Begin(kind, t))
         /\ ~(\E kind \in {"converge", "rebuild"} : Begin(kind, None))
      \/ \E t \in Locations \cup {None}, kind \in Kinds : Begin(kind, t)
  BY DEF Kinds
<1>3. ASSUME NEW s \in Both
      PROVE  /\ UpPlane(s) \/ UpSlots(s) => UNCHANGED <<own, code, deviated>>
             /\ PlaneStarts(s) => UNCHANGED <<own, code>>
             /\ PlaneStops(s) => UNCHANGED <<own, code, deviated>>
  BY DEF UpPlane, UpSlots, PlaneStarts, PlaneStops
<1>4. /\ ForwardCheck \/ Fence \/ RecordFence \/ Drain \/ ResumeCheck \/ JudgePlane \/ UpDone
          \/ VerifyForward \/ RollbackCheck \/ VerifyRollback \/ ConvergeCheck \/ ConvergeReport
          \/ RebuildCheck \/ ConvergePlane
            => UNCHANGED <<plane, own, code, deviated>>
      /\ StopOld \/ Retire \/ OldStart \/ FinishSlots => UNCHANGED <<plane, code, deviated>>
      /\ SwitchCode \/ OldCode \/ SlotsUp => UNCHANGED <<plane, own, deviated>>
      /\ SlotsDown \/ StopFailedSlots => UNCHANGED <<plane, deviated>>
      /\ Fails => UNCHANGED <<plane, code>>
      /\ TaskDies => UNCHANGED <<plane, own, code>>
  BY DEF ForwardCheck, Fence, RecordFence, Drain, ResumeCheck, JudgePlane, UpDone, VerifyForward,
         RollbackCheck, VerifyRollback, ConvergeCheck, ConvergeReport, RebuildCheck, ConvergePlane,
         StopOld, Retire, OldStart, FinishSlots, SwitchCode, OldCode, SlotsUp, SlotsDown,
         StopFailedSlots, Fails, TaskDies
<1> QED BY PlaneSteps, <1>1, <1>2, <1>3, <1>4

LEMMA PlaneTypesKept ==
    ASSUME PlaneTypes, TaskInv, app \in Revisions, PlaneNext
    PROVE  PlaneTypes'
<1>1. task' \in Tasks
  <2> USE Moves, PlacesOfPlane, Switches DEF PlaneTypes
  <2>1. ASSUME NEW t \in Locations \cup {None}, NEW kind \in Kinds, Begin(kind, t)
        PROVE  task' \in Tasks
    BY <2>1 DEF Begin, NoTask, Tasks
  <2>2. CASE ForwardCheck \/ StopOld \/ RecordFence \/ Drain
    BY <2>2 DEF ForwardCheck, StopOld, RecordFence, Drain, Doing, TaskInv, Cutover
  <2>3. CASE Fence \/ ResumeCheck
    BY <2>3 DEF Fence, ResumeCheck, Doing, Tasks, TaskInv, Cutover
  <2>4. CASE SwitchCode \/ JudgePlane \/ UpDone \/ VerifyForward \/ Retire
    BY <2>4 DEF SwitchCode, JudgePlane, UpDone, VerifyForward, Retire
  <2>5. CASE RollbackCheck \/ VerifyRollback \/ OldCode \/ OldStart
    BY <2>5 DEF RollbackCheck, VerifyRollback, OldCode, OldStart, Doing, TaskInv, Cutover
  <2>6. CASE ConvergeCheck \/ ConvergeReport \/ RebuildCheck \/ SlotsDown \/ SlotsUp
    BY <2>6 DEF ConvergeCheck, ConvergeReport, RebuildCheck, SlotsDown, SlotsUp
  <2>7. CASE ConvergePlane
    BY <2>7 DEF ConvergePlane, Both
  <2>8. CASE FinishSlots \/ StopFailedSlots \/ Fails \/ TaskDies
    BY <2>8 DEF FinishSlots, StopFailedSlots, Fails, TaskDies
  <2>9. ASSUME NEW s \in Both, UpPlane(s)
        PROVE  task' \in Tasks
    <3>1. task.todo \ {s} \in SUBSET Both
      BY DEF Tasks
    <3> QED BY <2>9, <3>1 DEF UpPlane
  <2>10. ASSUME NEW s \in Both, UpSlots(s)
        PROVE  task' \in Tasks
    <3>1. task.todo \ {s} \in SUBSET Both
      BY DEF Tasks
    <3> QED BY <2>10, <3>1 DEF UpSlots
  <2>11. ASSUME NEW s \in Both, PlaneStarts(s) \/ PlaneStops(s)
        PROVE  task' \in Tasks
    BY <2>11 DEF PlaneStarts, PlaneStops
  <2> QED BY PlaneSteps, <2>1, <2>2, <2>3, <2>4, <2>5, <2>6, <2>7, <2>8, <2>9, <2>10, <2>11 DEF Kinds
<1>2. own' \in [Locations -> {"running", "stopped", "gone"}]
  <2>1. CASE StopOld
    BY <2>1 DEF StopOld, PlaneTypes
  <2>2. CASE Retire
    BY <2>2 DEF Retire, PlaneTypes
  <2>3. CASE OldStart
    BY <2>3 DEF OldStart, PlaneTypes
  <2>4. CASE SlotsDown
    BY <2>4 DEF SlotsDown, PlaneTypes
  <2>5. CASE FinishSlots
    BY <2>5 DEF FinishSlots, PlaneTypes
  <2>6. CASE StopFailedSlots
    BY <2>6 DEF StopFailedSlots, PlaneTypes
  <2>7. CASE Fails
    BY <2>7 DEF Fails, PlaneTypes
  <2> QED BY PlaneWriters, <2>1, <2>2, <2>3, <2>4, <2>5, <2>6, <2>7 DEF PlaneTypes
<1>3. code' \in [Locations -> {"own", "shared", "down"}]
  <2>1. CASE SwitchCode \/ OldCode
    BY <2>1 DEF SwitchCode, OldCode, PlaneTypes
  <2>2. CASE SlotsDown \/ StopFailedSlots
    BY <2>2 DEF SlotsDown, StopFailedSlots, PlaneTypes
  <2>3. CASE SlotsUp
    BY <2>3 DEF SlotsUp, PlaneTypes
  <2> QED BY PlaneWriters, <2>1, <2>2, <2>3 DEF PlaneTypes
<1>4. plane' \in [Both -> [on : BOOLEAN, made : SUBSET Locations, loads : SUBSET Locations]]
  <2> DEFINE Frames == [on : BOOLEAN, made : SUBSET Locations, loads : SUBSET Locations]
  <2>1. Installed \in SUBSET Locations
    BY PlaneAssumption DEF Installed
  <2>2. ASSUME NEW s \in Both, UpPlane(s) \/ UpSlots(s)
        PROVE  plane' \in [Both -> Frames]
    <3>1. plane' = [plane EXCEPT ![s] = [on |-> TRUE, made |-> Installed, loads |-> Installed]]
      BY <2>2 DEF UpPlane, UpSlots
    <3>2. [on |-> TRUE, made |-> Installed, loads |-> Installed] \in Frames
      BY <2>1
    <3> QED BY <3>1, <3>2 DEF PlaneTypes
  <2>3. ASSUME NEW s \in Both, PlaneStarts(s)
        PROVE  plane' \in [Both -> Frames]
    <3>1. plane' = [plane EXCEPT ![s] = [plane[s] EXCEPT !.on = TRUE, !.loads = Installed]]
      BY <2>3 DEF PlaneStarts, PlaneTypes
    <3>2. [plane[s] EXCEPT !.on = TRUE, !.loads = Installed] \in Frames
      BY <2>1 DEF PlaneTypes
    <3> QED BY <3>1, <3>2 DEF PlaneTypes
  <2>4. ASSUME NEW s \in Both, PlaneStops(s)
        PROVE  plane' \in [Both -> Frames]
    <3>1. plane' = [plane EXCEPT ![s] = [plane[s] EXCEPT !.on = FALSE]]
      BY <2>4 DEF PlaneStops, PlaneTypes
    <3>2. [plane[s] EXCEPT !.on = FALSE] \in Frames
      BY DEF PlaneTypes
    <3> QED BY <3>1, <3>2 DEF PlaneTypes
  <2> QED BY PlaneWriters, <2>2, <2>3, <2>4 DEF PlaneTypes
<1>5. deviated' \in BOOLEAN
  BY PlaneWriters, Zenon DEF PlaneTypes, Begin, Fails, TaskDies, PlaneStarts
<1> QED BY <1>1, <1>2, <1>3, <1>4, <1>5 DEF PlaneTypes

-----------------------------------------------------------------------------
(* The lock.                                                                 *)

LEMMA InstallHolds ==
    ASSUME install \in Installers, InstallNext
    PROVE  \/ UNCHANGED G /\ (install'.at # "idle" => install.at # "idle")
           \/ G = {} /\ G' = {"installer"}
           \/ install.at # "idle" /\ install'.at = "idle" /\ G' = G \ {"installer"}
<1> USE Going, PlacesOfInstall DEF At
<1>1. ASSUME NEW sha \in Revisions, NEW cli \in BOOLEAN, BeginInstall(sha, cli)
      PROVE  G = {} /\ G' = {"installer"}
  BY <1>1 DEF BeginInstall
<1>2. CASE Discard \/ Build \/ Mark \/ WriteReference \/ CopyEnv \/ Check
  BY <1>2 DEF Discard, Build, Mark, WriteReference, CopyEnv, Check
<1>3. CASE StopBackend \/ Flip \/ StartBackend \/ VerifyInstall \/ InstallerDies
  BY <1>3 DEF StopBackend, Flip, StartBackend, VerifyInstall, InstallerDies
<1>4. CASE Collect
  BY <1>4 DEF Collect
<1>5. CASE ChangePassword \/ EditLiveEnv \/ OperatorStarts \/ OperatorStops
  BY <1>5 DEF ChangePassword, EditLiveEnv, WriteEnv, OperatorStarts, OperatorStops
<1> QED BY InstallSteps, <1>1, <1>2, <1>3, <1>4, <1>5

LEMMA PlaneHolds ==
    ASSUME task \in Tasks, TaskInv, PlaneNext
    PROVE  \/ UNCHANGED G /\ (task'.at # "idle" => task.at # "idle")
           \/ G = {} /\ G' = {"plane"}
           \/ task.at # "idle" /\ task'.at = "idle" /\ G' = G \ {"plane"}
<1> USE Moves, PlacesOfPlane, Switches DEF Doing
<1>1. ASSUME NEW t \in Locations \cup {None}, NEW kind \in Kinds, Begin(kind, t)
      PROVE  G = {} /\ G' = {"plane"}
  BY <1>1 DEF Begin
<1>2. CASE ForwardCheck \/ Fence \/ StopOld \/ RecordFence \/ Drain \/ ResumeCheck
  BY <1>2 DEF ForwardCheck, Fence, StopOld, RecordFence, Drain, ResumeCheck
<1>3. CASE SwitchCode \/ JudgePlane \/ UpDone \/ VerifyForward
  BY <1>3 DEF SwitchCode, JudgePlane, UpDone, VerifyForward
<1>4. CASE RollbackCheck \/ VerifyRollback \/ OldCode \/ ConvergeCheck
  BY <1>4 DEF RollbackCheck, VerifyRollback, OldCode, ConvergeCheck
<1>5. CASE RebuildCheck \/ SlotsDown \/ SlotsUp \/ ConvergePlane \/ StopFailedSlots
  BY <1>5 DEF RebuildCheck, Rebuilding, SlotsDown, SlotsUp, ConvergePlane, StopFailedSlots
<1>6. CASE Retire \/ OldStart \/ ConvergeReport \/ Fails \/ TaskDies
  BY <1>6 DEF Retire, OldStart, ConvergeReport, Fails, TaskDies, Release
<1>7. CASE FinishSlots
  BY <1>7 DEF FinishSlots, Release
<1>8. ASSUME NEW s \in Both, UpPlane(s) \/ UpSlots(s) \/ PlaneStarts(s) \/ PlaneStops(s)
      PROVE  UNCHANGED G /\ (task'.at # "idle" => task.at # "idle")
  BY <1>8 DEF UpPlane, UpSlots, PlaneStarts, PlaneStops
<1> QED BY PlaneSteps, <1>1, <1>2, <1>3, <1>4, <1>5, <1>6, <1>7, <1>8 DEF Kinds

\* A step of one command: it takes G, goes on under it, shares it or gives it back.
Grip(p) ==
    /\ \A q \in Commands \ {p} : command'[q] = command[q]
    /\ \/ G = {} /\ G' = {p} /\ UNCHANGED up
       \/ command[p].at \in {"observe", "again", "verify"} /\ UNCHANGED <<G, up>>
       \/ command[p].at = "verify" /\ command'[p].at = "wait" /\ G' = G \cup {"up"}
       \/ command[p].at # "idle" /\ command'[p].at = "idle" /\ G' = G \ {p} /\ UNCHANGED up

LEMMA ServiceHolds ==
    ASSUME ServiceTypes, ServiceNext
    PROVE  \/ UNCHANGED <<command, G>> /\ (up' # None => up # None)
           \/ up' = None /\ UNCHANGED command /\ G' = G \ {"up"}
           \/ \E p \in Commands : Grip(p)
<1>1. ASSUME NEW p \in Commands, NEW c, Become(p, c)
      PROVE  command'[p] = c /\ \A q \in Commands \ {p} : command'[q] = command[q]
  BY <1>1 DEF Become, ServiceTypes
<1>2. ASSUME NEW p \in Commands, Leave(p), command[p].at # "idle", UNCHANGED up
      PROVE  Grip(p)
  BY <1>1, <1>2 DEF Leave, NoCommand, Grip
<1>3. ASSUME NEW p \in Commands, NEW s \in Services, NEW replace \in BOOLEAN,
             AdoptBegins(p, s, replace) \/ RecreateBegins(p, s)
      PROVE  Grip(p)
  BY <1>1, <1>3 DEF AdoptBegins, RecreateBegins, Grip
<1>4. ASSUME NEW p \in Commands, NEW r \in Roles,
             Observe(p, r) \/ ObserveAgain(p, r) \/ Verify(p, r)
      PROVE  Grip(p)
  BY <1>1, <1>2, <1>4 DEF Observe, ObserveAgain, Verify, Here, Grip
<1>5. ASSUME NEW p \in Commands, Decide(p) \/ Publish(p) \/ Return(p) \/ CommandDies(p)
      PROVE  Grip(p)
  BY <1>1, <1>2, <1>5 DEF Decide, Publish, Return, CommandDies, Here, Grip
<1>6. ASSUME NEW p \in Commands, StartUp(p)
      PROVE  Grip(p)
  <2>1. command[p].at = "verify"
    BY <1>6 DEF StartUp, Here
  <2>2. CASE Leave(p) /\ UNCHANGED up
    BY <1>2, <2>1, <2>2
  <2>3. CASE Become(p, [NoCommand EXCEPT !.at = "wait", !.of = command[p].of]) /\ G' = G \cup {"up"}
    <3>1. command'[p] = [NoCommand EXCEPT !.at = "wait", !.of = command[p].of]
      BY <1>1, <2>3
    <3>2. command'[p].at = "wait"
      BY <3>1 DEF NoCommand
    <3> QED BY <1>1, <2>1, <2>3, <3>2 DEF Grip
  <2> QED BY <1>6, <2>2, <2>3 DEF StartUp
<1>7. ASSUME \E r \in Roles : UpRecreates(r) \/ HealthChanges(r)
      PROVE  UNCHANGED <<command, G>> /\ (up' # None => up # None)
  BY <1>7 DEF UpRecreates, HealthChanges
<1>8. ASSUME \E r \in Roles, image \in Images : ReplacedByHand(r, image)
      PROVE  UNCHANGED <<command, G>> /\ (up' # None => up # None)
  BY <1>8 DEF ReplacedByHand
<1>9. CASE UpEnds
  BY <1>9 DEF UpEnds
<1> QED BY ServiceSteps, <1>3, <1>4, <1>5, <1>6, <1>7, <1>8, <1>9

LEMMA LockKept ==
    ASSUME InstallTypes, ServiceTypes, PlaneTypes, TaskInv, LockInv, [HostNext]_hostVars
    PROVE  LockInv'
<1> USE DEF LockInv, serviceVars, planeVars
<1>1. CASE InstallNext /\ UNCHANGED <<serviceVars, planeVars>>
  BY <1>1, InstallHolds, NamesAssumption DEF InstallTypes
<1>2. CASE ServiceNext /\ UNCHANGED <<releases, backend, install, history, planeVars>>
  BY <1>2, ServiceHolds, NamesAssumption, PlaneNameAssumption DEF Grip
<1>3. CASE PlaneNext /\ UNCHANGED <<releases, backend, install, history, serviceVars>>
  BY <1>3, PlaneHolds, PlaneNameAssumption DEF PlaneTypes
<1>4. CASE UNCHANGED hostVars
  BY <1>4 DEF hostVars, releaseVars, installVars
<1> QED BY Steps, <1>1, <1>2, <1>3, <1>4

-----------------------------------------------------------------------------
(* The installer and .env.                                                   *)

LEMMA InstallKept ==
    ASSUME InstallTypes, InstallTypes', LockInv, InstallInv, InstallNext
    PROVE  InstallInv'
<1> USE Going, PlacesOfInstall
    DEF InstallInv, ReleasesStand, EnvSurvivesInstalls, BackendIsOfApp, Stands, InstallTypes, At,
        releases, history, BuildPlaces, Prepared, Flipped
<1>1. ASSUME NEW sha \in Revisions, NEW cli \in BOOLEAN, BeginInstall(sha, cli)
      PROVE  InstallInv'
  BY <1>1 DEF BeginInstall
<1>2. CASE Discard
  BY <1>2 DEF Discard
<1>3. CASE Build
  <2>1. UNCHANGED <<marked, reference, env, app, backend, previous, written, raced, meddled>>
    BY <1>3 DEF Build
  <2>2. CASE tree' = [tree EXCEPT ![install.sha] = "whole"] /\ GoTo("mark")
    <3>1. \A r \in Revisions : tree'[r] = tree[r] \/ tree'[r] = "whole"
      BY <2>2
    <3>2. tree'[install'.sha] = "whole" /\ install'.at = "mark" /\ install'.prev = app
      BY <1>3, <2>2 DEF Build, Installers
    <3> QED BY <2>1, <3>1, <3>2
  <2>3. CASE UNCHANGED tree /\ Quit
    BY <2>1, <2>3
  <2> QED BY <1>3, <2>2, <2>3 DEF Build
<1>4. CASE Mark
  BY <1>4 DEF Mark
<1>5. CASE WriteReference
  BY <1>5 DEF WriteReference
<1>6. CASE CopyEnv
  BY <1>6 DEF CopyEnv, Installers
<1>7. CASE Check
  BY <1>7 DEF Check
<1>8. CASE StopBackend
  BY <1>8 DEF StopBackend
<1>9. CASE Flip
  BY <1>9 DEF Flip, Installers
<1>10. CASE StartBackend \/ VerifyInstall
  BY <1>10 DEF StartBackend, VerifyInstall
<1>11. CASE Collect
  BY <1>11 DEF Collect, Old
<1>12. CASE InstallerDies
  BY <1>12 DEF InstallerDies
<1>13. CASE ChangePassword
  BY <1>13, WritesAssumption DEF ChangePassword, WriteEnv, LockInv
<1>14. CASE EditLiveEnv
  BY <1>14, WritesAssumption DEF EditLiveEnv, WriteEnv, Installers
<1>15. CASE OperatorStarts \/ OperatorStops
  BY <1>15, RevisionsAssumption DEF OperatorStarts, OperatorStops
<1> QED
  BY InstallSteps, <1>1, <1>2, <1>3, <1>4, <1>5, <1>6, <1>7, <1>8, <1>9, <1>10, <1>11, <1>12, <1>13,
     <1>14, <1>15
-----------------------------------------------------------------------------
(* The release markers.                                                      *)

\* A container that is not what it was has been started since.
Fresher ==
    /\ clock' >= clock
    /\ \A r \in Roles :
          /\ container'[r].started <= clock'
          /\ \/ /\ container'[r].started = container[r].started
                /\ container'[r].image = container[r].image
             \/ container'[r].started > clock

LEMMA ContainersAge ==
    ASSUME ServiceTypes, \A r \in Roles : container[r].started <= clock, ServiceNext
    PROVE  Fresher
<1> USE DEF ServiceTypes, Containers, Fresher
<1>1. ASSUME NEW r \in Roles, NEW image, NEW healthy, Start(r, image, healthy)
      PROVE  Fresher
  BY <1>1 DEF Start
<1>2. ASSUME NEW r \in Roles, HealthChanges(r)
      PROVE  Fresher
  BY <1>2 DEF HealthChanges
<1>3. ASSUME NEW r \in Roles, NEW image \in Images, UpRecreates(r) \/ ReplacedByHand(r, image)
      PROVE  Fresher
  BY <1>1, <1>3 DEF UpRecreates, ReplacedByHand
<1>4. ASSUME NEW r \in Roles, UpRecreates(r)
      PROVE  Fresher
  BY <1>1, <1>4 DEF UpRecreates
<1>5. CASE UNCHANGED <<container, clock>>
  BY <1>5
<1> QED BY Writers, <1>2, <1>3, <1>4, <1>5

LEMMA LooksAge ==
    ASSUME ServiceTypes, ServiceTypes', Fresher, \A r \in Roles : container[r].started <= clock,
           NEW p \in Commands, command'[p] = command[p]
    PROVE  /\ Watched(p) => Watched(p)'
           /\ Confirmed(p) => Confirmed(p)'
<1>1. ASSUME NEW look \in command[p].seen, look.role \in Roles, StillTrue(look)
      PROVE  /\ StillTrue(look)'
             /\ container'[look.role].started = look.is.started =>
                   container[look.role].started = look.is.started
  <2>1. look \in Looks
    BY DEF ServiceTypes, CommandRecords
  <2>2. /\ look.is.started \in Nat /\ clock \in Nat /\ clock' \in Nat
        /\ container[look.role].started \in Nat /\ container'[look.role].started \in Nat
    BY <2>1 DEF ServiceTypes, Looks, Containers
  <2> QED BY <1>1, <2>2 DEF StillTrue, Fresher
<1>2. ASSUME Watched(p)
      PROVE  Watched(p)'
  BY <1>1, <1>2 DEF Watched, RolesOf
<1>3. ASSUME Confirmed(p)
      PROVE  Confirmed(p)'
  BY <1>1, <1>2, <1>3 DEF Confirmed, Watched, RolesOf, Seen
<1> QED BY <1>2, <1>3

\* The steps of one command.
LEMMA LooksAreTrue ==
    ASSUME ServiceTypes, AdoptInv, NEW p \in Commands,
           NEW r \in Roles, Observe(p, r), command'[p].at = "observe"
    PROVE  Watched(p)' /\ command'[p].look = {}
<1>1. /\ command[p].at = "observe" /\ Watched(p) /\ command[p].look = {}
      /\ r \in RolesOf(command[p].of) /\ r \notin Seen(p)
      /\ UNCHANGED <<container, clock>>
  BY DEF Observe, Here, AdoptInv
<1>2. command' = [command EXCEPT ![p] = [command[p] EXCEPT !.seen = @ \cup {Look(r)}]]
  BY DEF Observe, Become, Leave, NoCommand, ServiceTypes
<1>3. /\ command'[p].of = command[p].of /\ command'[p].look = command[p].look
      /\ command'[p].seen = command[p].seen \cup {Look(r)}
  BY <1>2 DEF ServiceTypes, CommandRecords
<1>4. Look(r).role = r /\ StillTrue(Look(r)) /\ container[r].started \in Nat
  BY DEF Look, StillTrue, ServiceTypes, Containers
<1>5. \A look \in command'[p].seen : StillTrue(look)
  BY <1>1, <1>3, <1>4 DEF Watched
<1>6. \A a, b \in command'[p].seen : a.role = b.role => a = b
  BY <1>1, <1>3, <1>4 DEF Watched, Seen
<1> QED BY <1>1, <1>3, <1>4, <1>5, <1>6 DEF Watched, StillTrue, RolesOf

LEMMA DecidesOnWhatRuns ==
    ASSUME ServiceTypes, AdoptInv, NEW p \in Commands, Decide(p), command'[p].at = "again"
    PROVE  Confirmed(p)'
<1> DEFINE s == command[p].of
<1>1. /\ command[p].at = "observe" /\ Watched(p) /\ command[p].look = {} /\ Seen(p) = RolesOf(s)
      /\ UNCHANGED <<container, clock>>
  BY DEF Decide, Here, AdoptInv
<1>2. command' = [command EXCEPT ![p] = [command[p] EXCEPT !.at = "again", !.ran = Running(s)]]
  BY DEF Decide, Become, Leave, NoCommand, ServiceTypes
<1>3. /\ command'[p].of = s /\ command'[p].look = {} /\ command'[p].seen = command[p].seen
      /\ command'[p].ran = Running(s)
  BY <1>1, <1>2 DEF ServiceTypes, CommandRecords
<1>4. Running(s) \in [RolesOf(s) -> Images]
  BY <1>1, CommandForms DEF Watched
<1>5. Watched(p)'
  BY <1>1, <1>3 DEF Watched, StillTrue, RolesOf
<1>6. ASSUME NEW look \in command[p].seen, container[look.role].started = look.is.started
      PROVE  Running(s)[look.role] = look.is.image
  BY <1>1, <1>6 DEF Watched, StillTrue, Running
<1>7. Seen(p)' = RolesOf(s)'
  BY <1>1, <1>3 DEF Seen, RolesOf
<1> QED BY <1>1, <1>3, <1>4, <1>5, <1>6, <1>7 DEF Confirmed, RolesOf

LEMMA SecondLooksConfirm ==
    ASSUME ServiceTypes, AdoptInv, NEW p \in Commands,
           NEW r \in Roles, ObserveAgain(p, r), command'[p].at = "again"
    PROVE  Confirmed(p)'
<1>1. /\ command[p].at = "again" /\ Confirmed(p) /\ UNCHANGED <<container, clock>>
  BY DEF ObserveAgain, Here, AdoptInv
<1>2. /\ Look(r) \in command[p].seen
      /\ command' = [command EXCEPT ![p] = [command[p] EXCEPT !.look = @ \cup {Look(r)}]]
  BY DEF ObserveAgain, Become, Leave, NoCommand, ServiceTypes
<1>3. /\ command'[p].of = command[p].of /\ command'[p].seen = command[p].seen
      /\ command'[p].ran = command[p].ran
      /\ command'[p].look = command[p].look \cup {Look(r)}
  BY <1>2 DEF ServiceTypes, CommandRecords
<1>4. command[p].ran[r] = Look(r).is.image /\ Look(r).role = r
  BY <1>1, <1>2 DEF Look, Confirmed
<1>5. Watched(p)' /\ Seen(p)' = RolesOf(command'[p].of)
  BY <1>1, <1>3 DEF Confirmed, Watched, StillTrue, RolesOf, Seen
<1> QED BY <1>1, <1>2, <1>3, <1>4, <1>5 DEF Confirmed, RolesOf

LEMMA PublishesWhatRan ==
    ASSUME ServiceTypes, AdoptInv, NEW p \in Commands, Publish(p)
    PROVE  SeenImages(p) = command[p].ran
<1>1. Confirmed(p) /\ {look.role : look \in command[p].look} = RolesOf(command[p].of)
  BY DEF Publish, Here, AdoptInv
<1>2. SeenImages(p) \in [RolesOf(command[p].of) -> Images]
  BY <1>1, SeenImagesType
<1>3. ASSUME NEW r \in RolesOf(command[p].of)
      PROVE  SeenImages(p)[r] = command[p].ran[r]
  <2>1. PICK look \in command[p].look : look.role = r
    BY <1>1
  <2> QED BY <1>1, <2>1, SeenImagesType DEF Confirmed
<1> QED BY <1>1, <1>2, <1>3 DEF Confirmed

LEMMA AdoptKept ==
    ASSUME ServiceTypes, ServiceTypes', LockInv, AdoptInv, ServiceNext
    PROVE  AdoptInv'
<1>1. Fresher
  BY ContainersAge DEF AdoptInv
<1>2. \A r \in Roles : container'[r].started <= clock'
  BY <1>1 DEF Fresher
<1>3. AdoptedTogether'
  <2>1. ASSUME NEW p \in Commands, Publish(p)
        PROVE  AdoptedTogether'
    BY <2>1, PublishesWhatRan DEF Publish, AdoptInv, AdoptedTogether
  <2> QED BY Writers, <2>1 DEF AdoptInv, AdoptedTogether
<1> DEFINE Fine(p) == /\ command[p].at = "observe" => Watched(p) /\ command[p].look = {}
                      /\ command[p].at = "again" => Confirmed(p)
                      /\ command[p].at = "verify" =>
                            command[p].of \in Services /\ \A s \in Services : current[s] # None
<1>4. ASSUME NEW p \in Commands, command'[p] = command[p]
      PROVE  Fine(p)'
  <2>1. command[p].at = "verify" => UNCHANGED current
    <3>1. ASSUME NEW q \in Commands, Publish(q), command[p].at = "verify"
          PROVE  FALSE
      <4>1. G = {p} /\ G = {q}
        BY <3>1 DEF Publish, Here, LockInv
      <4> QED BY <3>1, <4>1 DEF Publish, Here
    <3> QED BY <3>1, Writers
  <2> QED BY <1>1, <1>4, <2>1, LooksAge DEF AdoptInv
<1>5. ASSUME NEW p \in Commands, command'[p] # command[p]
      PROVE  Fine(p)'
  <2> USE DEF ServiceTypes
  <2>1. ASSUME NEW q \in Commands, NEW c, Become(q, c)
        PROVE  q = p /\ command'[p] = c
    BY <1>5, <2>1 DEF Become
  <2>2. ASSUME NEW q \in Commands, Leave(q)
        PROVE  Fine(p)'
    BY <2>1, <2>2 DEF Leave, NoCommand
  <2>3. ASSUME NEW q \in Commands, NEW s \in Services, NEW replace \in BOOLEAN,
               AdoptBegins(q, s, replace)
        PROVE  Fine(p)'
    <3>1. command'[p] = [NoCommand EXCEPT !.at = "observe", !.of = s, !.replace = replace]
      BY <2>1, <2>3 DEF AdoptBegins
    <3>2. /\ command'[p].at = "observe" /\ command'[p].of = s /\ command'[p].seen = {}
          /\ command'[p].look = {}
      BY <3>1 DEF NoCommand
    <3> QED BY <3>2 DEF Watched
  <2>4. ASSUME NEW q \in Commands, NEW s \in Services, RecreateBegins(q, s)
        PROVE  Fine(p)'
    <3>1. command'[p] = [NoCommand EXCEPT !.at = "verify", !.of = s]
      BY <2>1, <2>4 DEF RecreateBegins
    <3>2. command'[p].at = "verify" /\ command'[p].of = s
      BY <3>1 DEF NoCommand
    <3> QED BY <3>2, <2>4 DEF RecreateBegins
  <2>5. ASSUME NEW q \in Commands, NEW r \in Roles, Observe(q, r)
        PROVE  Fine(p)'
    <3>1. CASE Become(q, [command[q] EXCEPT !.seen = @ \cup {Look(r)}])
      <4>1. q = p /\ command'[p].at = "observe"
        BY <2>1, <2>5, <3>1 DEF Observe, Here, CommandRecords
      <4> QED BY <4>1, <2>5, LooksAreTrue
    <3> QED BY <2>2, <2>5, <3>1 DEF Observe
  <2>6. ASSUME NEW q \in Commands, NEW r \in Roles, ObserveAgain(q, r)
        PROVE  Fine(p)'
    <3>1. CASE Become(q, [command[q] EXCEPT !.look = @ \cup {Look(r)}])
      <4>1. q = p /\ command'[p].at = "again"
        BY <2>1, <2>6, <3>1 DEF ObserveAgain, Here, CommandRecords
      <4> QED BY <4>1, <2>6, SecondLooksConfirm
    <3> QED BY <2>2, <2>6, <3>1 DEF ObserveAgain
  <2>7. ASSUME NEW q \in Commands, NEW r \in Roles, Verify(q, r)
        PROVE  Fine(p)'
    <3>1. CASE Become(q, [command[q] EXCEPT !.seen = @ \cup {Look(r)}])
      <4>1. q = p /\ command'[p].at = "verify" /\ command'[p].of = command[p].of
        BY <2>1, <2>7, <3>1 DEF Verify, Here, CommandRecords
      <4> QED BY <4>1, <2>7 DEF Verify, Here, AdoptInv
    <3> QED BY <2>2, <2>7, <3>1 DEF Verify
  <2>8. ASSUME NEW q \in Commands, Decide(q)
        PROVE  Fine(p)'
    <3>1. CASE Become(q, [command[q] EXCEPT !.at = "again", !.ran = Running(command[q].of)])
      <4>1. q = p
        BY <2>1, <3>1
      <4>2. command'[p] = [command[q] EXCEPT !.at = "again", !.ran = Running(command[q].of)]
        BY <2>1, <3>1
      <4>3. command'[p].at = "again"
        BY <4>2 DEF CommandRecords
      <4> QED BY <4>1, <4>3, <2>8, DecidesOnWhatRuns
    <3> QED BY <2>2, <2>8, <3>1 DEF Decide
  <2>9. ASSUME NEW q \in Commands, StartUp(q)
        PROVE  Fine(p)'
    <3>1. CASE Become(q, [NoCommand EXCEPT !.at = "wait", !.of = command[q].of])
      <4>1. command'[p] = [NoCommand EXCEPT !.at = "wait", !.of = command[q].of]
        BY <2>1, <3>1
      <4>2. command'[p].at = "wait"
        BY <4>1 DEF NoCommand
      <4> QED BY <4>2
    <3> QED BY <2>2, <2>9, <3>1 DEF StartUp
  <2>10. ASSUME NEW q \in Commands, Publish(q) \/ Return(q) \/ CommandDies(q)
        PROVE  Fine(p)'
    BY <2>2, <2>10 DEF Publish, Return, CommandDies
  <2> QED BY <1>5, Writers, <2>3, <2>4, <2>5, <2>6, <2>7, <2>8, <2>9, <2>10
<1> QED BY <1>2, <1>3, <1>4, <1>5 DEF AdoptInv

LEMMA UpKept ==
    ASSUME ServiceTypes, LockInv, AdoptInv, UpInv, ServiceNext
    PROVE  UpInv'
<1>1. up # None => UNCHANGED current
  <2>1. ASSUME NEW q \in Commands, Publish(q), up # None
        PROVE  FALSE
    BY <2>1, NamesAssumption DEF Publish, Here, LockInv
  <2> QED BY <2>1, Writers
<1>2. CASE UNCHANGED up
  BY <1>1, <1>2 DEF UpInv
<1>3. ASSUME NEW p \in Commands, StartUp(p), up' # up
      PROVE  UpInv'
  <2>1. command[p].of \in Services /\ current[command[p].of] # None
    BY <1>3 DEF StartUp, Here, AdoptInv
  <2>2. /\ up' = [left |-> RolesOf(command[p].of), images |-> current[command[p].of]]
        /\ UNCHANGED current
    BY <1>3 DEF StartUp
  <2>3. DOMAIN current[command[p].of] = RolesOf(command[p].of)
    BY <2>1 DEF ServiceTypes, CurrentTypes
  <2> QED BY <2>2, <2>3 DEF UpInv, RolesOf
<1>4. ASSUME NEW r \in Roles, UpRecreates(r)
      PROVE  UpInv'
  <2>1. up # None /\ up' = [up EXCEPT !.left = @ \ {r}] /\ up \in Children /\ UNCHANGED current
    BY <1>4 DEF UpRecreates, ServiceTypes
  <2>2. up'.left \subseteq up.left /\ up'.images = up.images
    BY <2>1 DEF Children
  <2> QED BY <2>1, <2>2 DEF UpInv
<1>5. CASE UpEnds
  BY <1>5 DEF UpEnds, UpInv
<1> QED BY Writers, <1>2, <1>3, <1>4, <1>5

\* What the child starts.
LEMMA ChildStartsCurrent ==
    ASSUME ServiceTypes, LockInv, UpInv, ServiceNext, up # None, up' # None, up'.left # up.left,
           NEW r \in Roles, container'[r] # container[r]
    PROVE  container'[r].image = current[Owner[r]][r]
<1>1. \A p \in Commands : ~StartUp(p)
  BY NamesAssumption DEF StartUp, Here, LockInv
<1>2. PICK q \in Roles : UpRecreates(q)
  BY <1>1, Writers DEF UpEnds
<1>3. q \in up.left /\ container' = [container EXCEPT ![q] =
                        [image |-> up.images[q], started |-> clock', healthy |-> FALSE]]
  BY <1>2 DEF UpRecreates, Start
<1>4. r = q /\ container'[r].image = up.images[r]
  BY <1>3 DEF ServiceTypes
<1> QED BY <1>3, <1>4 DEF UpInv
-----------------------------------------------------------------------------
(* The plane.                                                                *)

LEMMA TaskKept ==
    ASSUME PlaneTypes, TaskInv, PlaneNext, UNCHANGED app
    PROVE  TaskInv'
<1> USE Moves, PlacesOfPlane, Switches
    DEF TaskInv, Doing, Installed, CutoverPlaces, Cutover, PlaneTypes
<1>1. ASSUME NEW t \in Locations, NEW kind \in Cutover, Begin(kind, t)
      PROVE  TaskInv'
  BY <1>1 DEF Begin, NoTask
<1>2. ASSUME NEW kind \in {"converge", "rebuild"}, Begin(kind, None)
      PROVE  TaskInv'
  BY <1>2 DEF Begin, NoTask
<1>3. CASE ForwardCheck \/ StopOld \/ RecordFence \/ Drain
  BY <1>3 DEF ForwardCheck, StopOld, RecordFence, Drain
<1>4. CASE Fence
  BY <1>4 DEF Fence, Tasks
<1>5. CASE ResumeCheck
  BY <1>5 DEF ResumeCheck, Tasks
<1>6. CASE SwitchCode \/ JudgePlane \/ UpDone \/ VerifyForward
  BY <1>6 DEF SwitchCode, JudgePlane, UpDone, VerifyForward
<1>7. CASE RollbackCheck \/ VerifyRollback \/ OldCode
  BY <1>7 DEF RollbackCheck, VerifyRollback, OldCode
<1>8. CASE ConvergeCheck \/ RebuildCheck \/ SlotsDown \/ SlotsUp
  BY <1>8 DEF ConvergeCheck, RebuildCheck, Rebuilding, SlotsDown, SlotsUp
<1>9. CASE ConvergePlane
  BY <1>9 DEF ConvergePlane, Both
<1>10. CASE FinishSlots \/ StopFailedSlots
  BY <1>10 DEF FinishSlots, StopFailedSlots, NoTask
<1>11. CASE Retire \/ OldStart \/ ConvergeReport \/ Fails \/ TaskDies
  BY <1>11 DEF Retire, OldStart, ConvergeReport, Fails, TaskDies, NoTask
<1>12. ASSUME NEW s \in Both, UpPlane(s)
       PROVE  TaskInv'
  <2>1. task.todo \ {s} \in SUBSET Both
    BY DEF Tasks
  <2> QED BY <1>12, <2>1 DEF UpPlane
<1>13. ASSUME NEW s \in Both, UpSlots(s)
       PROVE  TaskInv'
  <2>1. task.todo \ {s} \in SUBSET Both /\ (task.todo = {s} => task.todo \ {s} = {})
    BY DEF Tasks
  <2> QED BY <1>13, <2>1 DEF UpSlots
<1>14. ASSUME NEW s \in Both, PlaneStarts(s) \/ PlaneStops(s)
       PROVE  TaskInv'
  BY <1>14 DEF PlaneStarts, PlaneStops
<1> QED
  BY PlaneSteps, <1>1, <1>2, <1>3, <1>4, <1>5, <1>6, <1>7, <1>8, <1>9, <1>10, <1>11, <1>12, <1>13,
     <1>14

LEMMA OwnKept ==
    ASSUME PlaneTypes, TaskInv, OwnInv, PlaneNext, UNCHANGED app
    PROVE  OwnInv'
<1> USE Moves, PlacesOfPlane, Switches
    DEF TaskInv, OwnInv, OwnDaemonOwnInstance, Doing, Installed, Returned, CutoverPlaces, SlotPlaces,
        Cutover, PlaneTypes
<1>1. ASSUME NEW t \in Locations \cup {None}, NEW kind \in Kinds, Begin(kind, t)
      PROVE  OwnInv'
  BY <1>1 DEF Begin, NoTask
<1>2. CASE ForwardCheck \/ RecordFence \/ Drain
  BY <1>2 DEF ForwardCheck, RecordFence, Drain
<1>3. CASE StopOld
  BY <1>3 DEF StopOld
<1>4. CASE Fence
  BY <1>4 DEF Fence, Tasks
<1>5. CASE ResumeCheck
  BY <1>5 DEF ResumeCheck, Tasks
<1>6. CASE SwitchCode
  BY <1>6 DEF SwitchCode
<1>7. CASE JudgePlane \/ UpDone \/ VerifyForward
  BY <1>7 DEF JudgePlane, UpDone, VerifyForward
<1>8. CASE RollbackCheck \/ VerifyRollback
  BY <1>8 DEF RollbackCheck, VerifyRollback
<1>9. CASE OldCode
  BY <1>9 DEF OldCode
<1>10. CASE OldStart
  BY <1>10 DEF OldStart
<1>11. CASE ConvergeCheck \/ ConvergeReport \/ TaskDies
  BY <1>11 DEF ConvergeCheck, ConvergeReport, TaskDies
<1>12. CASE RebuildCheck
  BY <1>12 DEF RebuildCheck, Rebuilding, RetiredStopped
<1>13. CASE SlotsDown
  <2>1. \A t \in Locations : /\ own'[t] \in {own[t], "stopped"}
                             /\ code'[t] \in {code[t], "down"}
    BY <1>13 DEF SlotsDown
  <2>2. task.at = "slots_down" /\ Proceed("slots_up")
    BY <1>13 DEF SlotsDown
  <2> QED BY <2>1, <2>2, PlaneAssumption
<1>14. CASE SlotsUp
  <2>1. \A t \in Locations :
           code'[t] = IF t \notin Pinned THEN code[t] ELSE IF t \in Installed THEN "shared" ELSE "own"
    BY <1>14 DEF SlotsUp
  <2>2. task.at = "slots_up" /\ Proceed("converge") /\ UNCHANGED own
    BY <1>14 DEF SlotsUp
  <2> QED BY <2>1, <2>2, PlaneAssumption
<1>15. CASE ConvergePlane
  BY <1>15 DEF ConvergePlane, Both
<1>16. CASE FinishSlots
  BY <1>16 DEF FinishSlots, NoTask
<1>17. CASE StopFailedSlots
  BY <1>17 DEF StopFailedSlots
<1>18. CASE Retire
  BY <1>18 DEF Retire
<1>19. CASE Fails
  BY <1>19 DEF Fails
<1>20. ASSUME NEW s \in Both, UpPlane(s)
       PROVE  OwnInv'
  <2>1. task.todo \ {s} \in SUBSET Both
    BY DEF Tasks
  <2> QED BY <1>20, <2>1 DEF UpPlane
<1>21. ASSUME NEW s \in Both, UpSlots(s)
       PROVE  OwnInv'
  <2>1. task.todo \ {s} \in SUBSET Both
    BY DEF Tasks
  <2> QED BY <1>21, <2>1 DEF UpSlots
<1>22. ASSUME NEW s \in Both, PlaneStarts(s) \/ PlaneStops(s)
       PROVE  OwnInv'
  BY <1>22 DEF PlaneStarts, PlaneStops
<1> QED
  BY PlaneSteps, <1>1, <1>2, <1>3, <1>4, <1>5, <1>6, <1>7, <1>8, <1>9, <1>10, <1>11, <1>12, <1>13,
     <1>14, <1>15, <1>16, <1>17, <1>18, <1>19, <1>20, <1>21, <1>22 DEF Kinds

\* The operator does not come back to the runbook.
LEMMA Deviations ==
    ASSUME deviated \in BOOLEAN, PlaneNext, ~deviated'
    PROVE  ~deviated
BY PlaneWriters, Zenon DEF Begin, Fails, TaskDies, PlaneStarts

\* Both containers load the same list when nothing is half done.
LEMMA Alike ==
    ASSUME Orderly, task.todo = {}, plane["daemon"].on, plane["webserver"].on
    PROVE  plane["daemon"].loads = plane["webserver"].loads
BY DEF Orderly, Both

LEMMA InstalledType ==
    ASSUME app \in Revisions
    PROVE  Installed \subseteq Locations /\ Returned \subseteq Locations
BY PlaneAssumption DEF Installed, Returned

LEMMA ScheduleKept ==
    ASSUME PlaneTypes, TaskInv, TaskInv', OwnInv, ScheduleInv, PlaneNext,
           app \in Revisions, UNCHANGED app
    PROVE  ScheduleInv'
<1> SUFFICES ASSUME ~deviated'
             PROVE  Orderly'
  BY DEF ScheduleInv
<1>0. ~deviated /\ Orderly
  BY Deviations DEF ScheduleInv, PlaneTypes
<1> USE Moves, PlacesOfPlane, Switches, <1>0
    DEF TaskInv, Orderly, Apart, Doing, Installed, Returned, SlotPlaces, CutoverPlaces, Cutover, OwnersFenced,
        PlaneTypes, Both
<1>1. ASSUME NEW t \in Locations, NEW kind \in Cutover, Begin(kind, t)
      PROVE  Orderly'
  <2>1. ~Others(t)
    BY <1>1, Zenon DEF Begin
  <2> QED BY <1>1, <2>1 DEF Begin, NoTask, Others
<1>2. ASSUME NEW kind \in {"converge", "rebuild"}, Begin(kind, None)
      PROVE  Orderly'
  BY <1>2 DEF Begin, NoTask
<1>3. CASE ForwardCheck \/ RecordFence \/ Drain
  BY <1>3 DEF ForwardCheck, RecordFence, Drain
<1>4. CASE StopOld
  BY <1>4 DEF StopOld
<1>5. CASE Fence
  BY <1>5 DEF Fence, Tasks
<1>6. CASE ResumeCheck
  BY <1>6 DEF ResumeCheck, Tasks
<1>7. CASE SwitchCode \/ OldCode
  BY <1>7 DEF SwitchCode, OldCode
<1>8. CASE JudgePlane
  BY <1>8 DEF JudgePlane
<1>9. CASE UpDone
  BY <1>9 DEF UpDone
<1>10. CASE VerifyForward \/ VerifyRollback
  BY <1>10 DEF VerifyForward, VerifyRollback
<1>11. CASE RollbackCheck
  BY <1>11 DEF RollbackCheck
<1>12. CASE OldStart
  BY <1>12 DEF OldStart, NoTask
<1>13. CASE ConvergeCheck
  BY <1>13 DEF ConvergeCheck
<1>14. CASE ConvergeReport
  BY <1>14 DEF ConvergeReport, NoTask
<1>15. CASE RebuildCheck
  BY <1>15 DEF RebuildCheck, Rebuilding, PlaneReleases
<1>16. CASE SlotsDown
  <2>1. \A t \in Locations : own'[t] = "running" => own[t] = "running"
    BY <1>16 DEF SlotsDown
  <2>2. task.at = "slots_down" /\ Proceed("slots_up") /\ UNCHANGED plane
    BY <1>16 DEF SlotsDown
  <2> QED BY <2>1, <2>2, InstalledType
<1>17. CASE SlotsUp
  BY <1>17 DEF SlotsUp
<1>18. CASE ConvergePlane
  BY <1>18 DEF ConvergePlane, Tasks
<1>19. CASE FinishSlots
  <2>1. \A t \in Locations : own'[t] = "running" => own[t] = "running" \/ t \in Returned
    BY <1>19 DEF FinishSlots
  <2>2. task.at = "finish" /\ UNCHANGED plane /\ (Release \/ Proceed("plane"))
    BY <1>19 DEF FinishSlots
  <2>3. Apart'
    BY <2>1, <2>2
  <2>4. \A u \in Installed \ {task.of} : own[u] # "running" => own'[u] # "running"
    BY <2>1, InstalledType
  <2> QED BY <2>2, <2>3, <2>4, InstalledType DEF NoTask
<1>20. CASE StopFailedSlots
  <2>1. \A t \in Locations : own'[t] = "running" => own[t] = "running"
    BY <1>20 DEF StopFailedSlots
  <2>2. Proceed("failed") /\ UNCHANGED plane
    BY <1>20 DEF StopFailedSlots
  <2> QED BY <2>1, <2>2, InstalledType
<1>21. CASE Retire
  BY <1>21 DEF Retire, NoTask
<1>22. CASE Fails
  BY <1>22 DEF Fails, Torn, PlaneClean, NoTask
<1>23. CASE TaskDies
  BY <1>23 DEF TaskDies, Torn, NoTask
<1>24. ASSUME NEW s \in Both, UpPlane(s)
       PROVE  Orderly'
  <2>1. task.todo \ {s} \in SUBSET Both
    BY DEF Tasks
  <2>2. task.at = "up" /\ s \in task.todo /\ Raise("up", task.todo \ {s}) /\ UNCHANGED own
    BY <1>24 DEF UpPlane
  <2>3. /\ plane'[s].on /\ plane'[s].loads = Installed
        /\ \A u \in Both \ {s} : plane'[u] = plane[u]
    BY <1>24 DEF UpPlane
  <2>4. task.kind \in Cutover \/ task.kind = "converge"
    BY <2>2 DEF Tasks, Kinds
  <2>5. \A t \in Installed : t # task.of => own[t] # "running"
    BY <2>2, <2>4
  <2>6. \A t \in Installed : own[t] # "running"
    BY <2>2, <2>4, <2>5 DEF OwnInv
  <2>7. Apart'
    BY <2>2, <2>3, <2>6
  <2>8. \A u \in Both \ task'.todo : plane'[u].on => plane'[u].loads = Installed
    BY <2>1, <2>2, <2>3
  <2>9. task'.todo \in {{}, Both} => task'.todo = {}
    BY <2>1, <2>2
  <2>10. task'.todo \in {{}, Both} /\ (\A u \in Both : plane'[u].on) =>
            plane'["daemon"].loads = plane'["webserver"].loads
    BY <2>8, <2>9
  <2>11. task'.at = "up" /\ task'.kind = task.kind /\ task'.of = task.of
    <3> HIDE DEF TaskInv, Orderly, Apart, OwnersFenced
    <3> QED BY <2>1, <2>2
  <2>12. OwnersFenced' /\ \A t \in Installed' : t # task'.of => own'[t] # "running"
    BY <2>2, <2>6
  <2> HIDE DEF TaskInv, OwnersFenced, PlaneTypes
  <2> QED BY <2>7, <2>8, <2>10, <2>11, <2>12
<1>25. ASSUME NEW s \in Both, UpSlots(s)
       PROVE  Orderly'
  BY <1>25 DEF UpSlots, Tasks
<1>26. ASSUME NEW s \in Both, PlaneStarts(s)
       PROVE  Orderly'
  <2>1. /\ OwnersFenced
        /\ \A u \in Both \ {s} : plane[u].on => plane[u].loads = Installed
    BY <1>26, Zenon DEF PlaneStarts
  <2>2. /\ plane'[s].on /\ plane'[s].loads = Installed
        /\ \A u \in Both \ {s} : plane'[u] = plane[u]
        /\ UNCHANGED <<own, task>>
    BY <1>26 DEF PlaneStarts
  <2>3. Apart'
    BY <2>1, <2>2
  <2> QED BY <2>1, <2>2, <2>3
<1>27. ASSUME NEW s \in Both, PlaneStops(s)
       PROVE  Orderly'
  BY <1>27 DEF PlaneStops
<1> QED
  BY PlaneSteps, <1>1, <1>2, <1>3, <1>4, <1>5, <1>6, <1>7, <1>8, <1>9, <1>10, <1>11, <1>12, <1>13,
     <1>14, <1>15, <1>16, <1>17, <1>18, <1>19, <1>20, <1>21, <1>22, <1>23, <1>24, <1>25, <1>26, <1>27

-----------------------------------------------------------------------------
(* Together.                                                                 *)

PlaneInv == PlaneTypes /\ TaskInv /\ OwnInv /\ ScheduleInv

HostInv ==
    /\ LockInv
    /\ InstallTypes /\ InstallInv
    /\ ServiceTypes /\ AdoptInv /\ UpInv
    /\ PlaneInv

LEMMA InitHolds ==
    ASSUME HostInit
    PROVE  HostInv
<1>1. InstallTypes /\ ServiceTypes /\ PlaneTypes
  BY InitTypes
<1>2. LockInv /\ UpInv /\ AdoptInv
  BY <1>1 DEF HostInit, ReleaseInit, InstallInit, PlaneInit, LockInv, UpInv, AdoptInv, AdoptedTogether,
              NoCommand, NotInstalling, NoTask
<1>3. InstallInv
  BY WritesAssumption, RevisionsAssumption
  DEF HostInit, ReleaseInit, InstallInit, InstallInv, ReleasesStand, EnvSurvivesInstalls,
      BackendIsOfApp, Stands, NotInstalling, BuildPlaces, Prepared, Flipped
<1>4. TaskInv /\ OwnInv
  BY DEF HostInit, PlaneInit, TaskInv, OwnInv, OwnDaemonOwnInstance, NoTask, Cutover, CutoverPlaces,
         SlotPlaces
<1>5. ScheduleInv
  BY <1>1 DEF HostInit, PlaneInit, ScheduleInv, Orderly, Apart, NoTask, Cutover, SlotPlaces, Both,
              PlaneTypes
<1> QED BY <1>1, <1>2, <1>3, <1>4, <1>5 DEF HostInv, PlaneInv

\* A flip changes what is installed while no command of the plane runs.
LEMMA FlipsRest ==
    ASSUME LockInv, InstallTypes, InstallNext, task.at # "idle"
    PROVE  UNCHANGED app
<1>1. install.at = "idle"
  BY DEF LockInv
<1> QED
  BY <1>1, InstallSteps
  DEF BeginInstall, Discard, Build, Mark, WriteReference, CopyEnv, Check, StopBackend, Flip,
      StartBackend, VerifyInstall, Collect, InstallerDies, ChangePassword, EditLiveEnv, WriteEnv,
      OperatorStarts, OperatorStops, At, releases

\* The parts that a step leaves alone.
LEMMA ServicesRest ==
    ASSUME UNCHANGED serviceVars, ServiceTypes, AdoptInv, UpInv
    PROVE  ServiceTypes' /\ AdoptInv' /\ UpInv'
<1> USE DEF serviceVars
<1>1. ServiceTypes' /\ UpInv'
  BY DEF ServiceTypes, CurrentTypes, UpInv
<1>2. ASSUME NEW p \in Commands
      PROVE  /\ Watched(p) => Watched(p)'
             /\ Confirmed(p) => Confirmed(p)'
  BY DEF Watched, StillTrue, Confirmed, Seen
<1>3. AdoptInv'
  BY <1>2 DEF AdoptInv, AdoptedTogether
<1> QED BY <1>1, <1>3

LEMMA InstallRests ==
    ASSUME UNCHANGED <<releases, backend, install, history>>, InstallTypes, InstallInv
    PROVE  InstallTypes' /\ InstallInv'
BY DEF releases, history, InstallTypes, InstallInv, ReleasesStand, EnvSurvivesInstalls,
       BackendIsOfApp, Stands

LEMMA PlaneRests ==
    ASSUME UNCHANGED planeVars, PlaneInv, app' = app \/ task.at = "idle"
    PROVE  PlaneInv'
<1> USE DEF planeVars, PlaneInv
<1>1. PlaneTypes'
  BY DEF PlaneTypes
<1>2. task.at = "idle" => task = NoTask /\ task.kind = "none" /\ task.todo = {}
  BY DEF TaskInv, NoTask
<1>3. app' = app => Installed' = Installed /\ Returned' = Returned
  BY DEF Installed, Returned
<1>4. TaskInv'
  BY <1>2, <1>3 DEF TaskInv, Cutover, CutoverPlaces
<1>5. OwnInv'
  BY <1>2, <1>3 DEF OwnInv, OwnDaemonOwnInstance, SlotPlaces
<1>6. Orderly => Orderly'
  BY <1>2, <1>3 DEF Orderly, Apart, OwnersFenced, Cutover, SlotPlaces
<1>7. ScheduleInv'
  BY <1>6 DEF ScheduleInv
<1> QED BY <1>1, <1>4, <1>5, <1>7

LEMMA StepHolds ==
    ASSUME HostInv, [HostNext]_hostVars
    PROVE  HostInv'
<1> USE DEF HostInv
<1>1. LockInv'
  BY LockKept DEF PlaneInv
<1>2. CASE InstallNext /\ UNCHANGED <<serviceVars, planeVars>>
  <2>1. InstallTypes' /\ InstallInv'
    BY <1>2, InstallTypesKept, InstallKept
  <2>2. PlaneInv'
    BY <1>2, FlipsRest, PlaneRests
  <2> QED BY <1>1, <1>2, <2>1, <2>2, ServicesRest
<1>3. CASE ServiceNext /\ UNCHANGED <<releases, backend, install, history, planeVars>>
  <2>1. ServiceTypes'
    BY <1>3, ServiceTypesKept
  <2>2. AdoptInv' /\ UpInv'
    BY <1>3, <2>1, AdoptKept, UpKept
  <2>3. PlaneInv'
    BY <1>3, PlaneRests DEF releases
  <2> QED BY <1>1, <1>3, <2>1, <2>2, <2>3, InstallRests
<1>4. CASE PlaneNext /\ UNCHANGED <<releases, backend, install, history, serviceVars>>
  <2>1. UNCHANGED app /\ app \in Revisions
    BY <1>4 DEF releases, InstallTypes
  <2>2. PlaneTypes' /\ TaskInv' /\ OwnInv'
    BY <1>4, <2>1, PlaneTypesKept, TaskKept, OwnKept DEF PlaneInv
  <2>3. ScheduleInv'
    BY <1>4, <2>1, <2>2, ScheduleKept DEF PlaneInv
  <2> QED BY <1>1, <1>4, <2>2, <2>3, ServicesRest, InstallRests DEF PlaneInv
<1>5. CASE UNCHANGED hostVars
  BY <1>1, <1>5, ServicesRest, InstallRests, PlaneRests
  DEF hostVars, releaseVars, installVars, releases
<1> QED BY Steps, <1>2, <1>3, <1>4, <1>5

-----------------------------------------------------------------------------
(* The theorems.                                                             *)

\* Whatever the installer, the release commands, the plane's commands, the console, the
\* operator and Docker do, and wherever they are killed, the state keeps its shape, G has
\* the holders that the commands' places say, and each part keeps its invariant.
THEOREM HostInvariant == HostSpec => []HostInv
<1>1. HostInit => HostInv
  BY InitHolds
<1>2. HostInv /\ [HostNext]_hostVars => HostInv'
  BY StepHolds
<1> QED BY <1>1, <1>2, PTL DEF HostSpec

\* The install root of install-ktdm-trusted-release points to a finished release, and so
\* does the way back, wherever installs and their collections are killed.
THEOREM ReleasesAlwaysStand == HostSpec => []ReleasesStand
<1>1. HostInv => ReleasesStand
  BY DEF HostInv, InstallInv
<1> QED BY <1>1, HostInvariant, PTL

\* An install takes no change of .env back (cp of the live .env, flip), unless the
\* operator edited it between the two.
THEOREM EnvSurvives == HostSpec => []EnvSurvivesInstalls
<1>1. HostInv => EnvSurvivesInstalls
  BY DEF HostInv, InstallInv
<1> QED BY <1>1, HostInvariant, PTL

\* A backend runs the release that the install root points to, unless the operator starts
\* it in the instant before the flip.
THEOREM BackendRunsApp == HostSpec => []BackendIsOfApp
<1>1. HostInv => BackendIsOfApp
  BY DEF HostInv, InstallInv
<1> QED BY <1>1, HostInvariant, PTL

\* What adopt_release records ran at one instant, although it looks twice at one container
\* after the other.
THEOREM AdoptsOneInstant == HostSpec => []AdoptedTogether
<1>1. HostInv => AdoptedTogether
  BY DEF HostInv, AdoptInv
<1> QED BY <1>1, HostInvariant, PTL

\* The Compose child of recreate_current starts what is current when it starts it, because
\* it holds the inherited lock after its parent was killed.
THEOREM RecreatesOnlyCurrent == HostSpec => RecreatesCurrent
<1>1. ASSUME HostInv, [HostNext]_hostVars
      PROVE  [\A r \in Roles : up # None /\ up' # None /\ up'.left # up.left /\ container'[r] # container[r]
                  => container'[r].image = current[Owner[r]][r]]_releaseVars
  BY <1>1, Steps, ChildStartsCurrent DEF HostInv, serviceVars, hostVars, releaseVars
<1> QED BY <1>1, HostInvariant, PTL DEF HostSpec, RecreatesCurrent

\* No schedule is fired by the plane and by a location's own daemon, as long as the
\* operator keeps to the runbook of dagster-shared-cutover.sh.
THEOREM OneSchedulerOnly == HostSpec => []OneScheduler
<1>1. HostInv => OneScheduler
  BY DEF HostInv, PlaneInv, ScheduleInv, Orderly, Apart, OneScheduler
<1> QED BY <1>1, HostInvariant, PTL

\* A location's own daemon never schedules against a code server of the shared instance,
\* whatever the operator does.
THEOREM OwnInstanceOnly == HostSpec => []OwnDaemonOwnInstance
<1>1. HostInv => OwnDaemonOwnInstance
  BY DEF HostInv, PlaneInv, OwnInv
<1> QED BY <1>1, HostInvariant, PTL
=============================================================================
