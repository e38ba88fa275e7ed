---------------------------- MODULE ServiceRelease ----------------------------
(***************************************************************************)
(* The release markers of the services (service-release): `adopt' records   *)
(* the images a service's containers run as its current release, `recreate' *)
(* lets Docker Compose make the containers of one service anew from the     *)
(* images recorded for every service of the project.                        *)
(*                                                                          *)
(* Both run under G, the lock of the installer (TrustedInstall), and look   *)
(* at one container after the other; the containers restart, change health  *)
(* and are replaced by hand meanwhile.  `recreate' gives its descriptor of  *)
(* G to the Compose child, which outlives a parent that is killed.          *)
(*                                                                          *)
(* One Compose project with one group per service.  One-shot images, paths, *)
(* ownership and the format of the manifest are left out.                   *)
(***************************************************************************)
EXTENDS TrustedInstall

CONSTANTS
    Commands,            \* processes that run `ktdctl service-release'
    Services, Roles,     \* services; the Compose services, each run as one container
    Owner,               \* the service that owns a role
    Images,
    MaxStarts            \* bound: container starts

ASSUME OwnerAssumption == Owner \in [Roles -> Services]
ASSUME NamesAssumption == Commands \cap {"installer", "up"} = {} /\ MaxStarts \in Nat

VARIABLES
    container,  \* of each role: its image, when it was started, whether it is running and healthy
    clock,      \* the starts so far, the last of them the latest StartedAt
    current,    \* of each service: the images of its current release by role, or None
    command,    \* of each process: where it is, what it has seen
    up,         \* the `docker compose up' child: the roles left and their images, or None
    adopted     \* history: what ran when the current release was decided on

serviceVars == <<container, clock, current, command, up, adopted>>
releaseVars == <<installVars, serviceVars>>

RolesOf(s) == {r \in Roles : Owner[r] = s}
Running(s) == [r \in RolesOf(s) |-> container[r].image]
NoCommand == [at |-> "idle", of |-> None, replace |-> FALSE, seen |-> {}, look |-> {}, ran |-> None]

ReleaseInit ==
    /\ InstallInit
    /\ \E i \in [Roles -> Images] :
          /\ container = [r \in Roles |-> [image |-> i[r], started |-> 0, healthy |-> TRUE]]
          /\ current \in [Services -> {None}] \cup
                         {[s \in Services |-> [r \in RolesOf(s) |-> i[r]]]}
    /\ clock = 0 /\ command = [p \in Commands |-> NoCommand] /\ up = None /\ adopted = current

-----------------------------------------------------------------------------
Here(p, where) == command[p].at = where
Become(p, record) == command' = [command EXCEPT ![p] = record]
Leave(p) == Become(p, NoCommand) /\ G' = G \ {p}
Seen(p) == {look.role : look \in command[p].seen}
Look(r) == [role |-> r, is |-> container[r]]
SeenImages(p) == [r \in RolesOf(command[p].of) |->
                    (CHOOSE look \in command[p].seen : look.role = r).is.image]

\* adopt: under G, over the release recorded so far.
AdoptBegins(p, s, replace) ==
    /\ Here(p, "idle") /\ G = {}
    /\ Become(p, [NoCommand EXCEPT !.at = "observe", !.of = s, !.replace = replace])
    /\ G' = {p}
    /\ UNCHANGED <<container, clock, current, up, adopted>>

\* _observe, one container at a time; one that is not healthy fails the command.
Observe(p, r) ==
    /\ Here(p, "observe") /\ r \in RolesOf(command[p].of) \ Seen(p)
    /\ \/ /\ container[r].healthy
          /\ Become(p, [command[p] EXCEPT !.seen = @ \cup {Look(r)}]) /\ UNCHANGED G
       \/ ~container[r].healthy /\ Leave(p)
    /\ UNCHANGED <<container, clock, current, up, adopted>>

\* Another release needs --replace-current; the new leaf is written before the second look.
Decide(p) ==
    LET s == command[p].of IN
    /\ Here(p, "observe") /\ Seen(p) = RolesOf(s)
    /\ \/ /\ current[s] \in {None, SeenImages(p)} \/ command[p].replace
          /\ Become(p, [command[p] EXCEPT !.at = "again", !.ran = Running(s)]) /\ UNCHANGED G
       \/ /\ current[s] \notin {None, SeenImages(p)} /\ ~command[p].replace
          /\ Leave(p)
    /\ UNCHANGED <<container, clock, current, up, adopted>>

\* Mutant: the second look compares the images only.
ObserveAgain_ImagesOnly(p, r) ==
    LET now == Look(r) IN
    /\ Here(p, "again") /\ r \in RolesOf(command[p].of) \ {look.role : look \in command[p].look}
    /\ IF now.is.healthy /\ now.is.image = SeenImages(p)[r]
       THEN Become(p, [command[p] EXCEPT !.look = @ \cup {now}]) /\ UNCHANGED G
       ELSE Leave(p)
    /\ UNCHANGED <<container, clock, current, up, adopted>>

\* The second look must find the same containers, started when they were.
ObserveAgain(p, r) ==
    LET now == Look(r) IN
    /\ Here(p, "again") /\ r \in RolesOf(command[p].of) \ {look.role : look \in command[p].look}
    /\ IF now \in command[p].seen
       THEN Become(p, [command[p] EXCEPT !.look = @ \cup {now}]) /\ UNCHANGED G
       ELSE Leave(p)
    /\ UNCHANGED <<container, clock, current, up, adopted>>

\* The pointer moves to the new leaf, or stays where it names the same images.
Publish(p) ==
    LET s == command[p].of IN
    /\ Here(p, "again") /\ {look.role : look \in command[p].look} = RolesOf(s)
    /\ current' = [current EXCEPT ![s] = SeenImages(p)]
    /\ adopted' = [adopted EXCEPT ![s] = command[p].ran]
    /\ Leave(p)
    /\ UNCHANGED <<container, clock, up>>

\* recreate (and resolve): every service of the project has a release.
RecreateBegins(p, s) ==
    /\ Here(p, "idle") /\ G = {} /\ \A t \in Services : current[t] # None
    /\ Become(p, [NoCommand EXCEPT !.at = "verify", !.of = s]) /\ G' = {p}
    /\ UNCHANGED <<container, clock, current, up, adopted>>

\* verify_release_manifest over all of them: nothing has drifted and nothing is ill.
Verify(p, r) ==
    /\ Here(p, "verify") /\ r \in Roles \ Seen(p)
    /\ IF container[r].healthy /\ container[r].image = current[Owner[r]][r]
       THEN Become(p, [command[p] EXCEPT !.seen = @ \cup {Look(r)}]) /\ UNCHANGED G
       ELSE Leave(p)
    /\ UNCHANGED <<container, clock, current, up, adopted>>

\* Mutant: the child does not inherit G.
StartUp_WithoutLock(p) ==
    LET s == command[p].of IN
    /\ Here(p, "verify") /\ Seen(p) = Roles
    /\ \/ /\ up' = [left |-> RolesOf(s), images |-> current[s]]
          /\ Become(p, [NoCommand EXCEPT !.at = "wait", !.of = s]) /\ UNCHANGED G
       \/ Leave(p) /\ UNCHANGED up
    /\ UNCHANGED <<container, clock, current, adopted>>

\* The resolved configuration must name the recorded images, and is pinned to them; the
\* child that gets it holds G too.  `resolve' stops here.
StartUp(p) ==
    LET s == command[p].of IN
    /\ Here(p, "verify") /\ Seen(p) = Roles
    /\ \/ /\ up' = [left |-> RolesOf(s), images |-> current[s]]
          /\ Become(p, [NoCommand EXCEPT !.at = "wait", !.of = s]) /\ G' = G \cup {"up"}
       \/ Leave(p) /\ UNCHANGED up
    /\ UNCHANGED <<container, clock, current, adopted>>

\* The second verification is reported and changes nothing.
Return(p) ==
    /\ Here(p, "wait") /\ up = None /\ Leave(p)
    /\ UNCHANGED <<container, clock, current, up, adopted>>

-----------------------------------------------------------------------------
(* Docker, and whoever uses it without the Manager.                          *)

Start(r, image, healthy) ==
    /\ clock < MaxStarts /\ clock' = clock + 1
    /\ container' = [container EXCEPT ![r] =
                        [image |-> image, started |-> clock', healthy |-> healthy]]

\* --force-recreate of one role; the new container is not healthy yet.
UpRecreates(r) ==
    /\ up # None /\ r \in up.left
    /\ Start(r, up.images[r], FALSE)
    /\ up' = [up EXCEPT !.left = @ \ {r}]
    /\ UNCHANGED <<G, current, command, adopted>>

\* It is done, has failed or has timed out.
UpEnds ==
    /\ up # None /\ up' = None /\ G' = G \ {"up"}
    /\ UNCHANGED <<container, clock, current, command, adopted>>

ReplacedByHand(r, image) ==
    /\ Start(r, image, TRUE)
    /\ UNCHANGED <<G, current, command, up, adopted>>

HealthChanges(r) ==
    /\ container' = [container EXCEPT ![r].healthy = ~@]
    /\ UNCHANGED <<G, clock, current, command, up, adopted>>

\* SIGKILL: the lock goes with the process, but not what its child holds of it.
CommandDies(p) ==
    /\ ~Here(p, "idle") /\ kills < MaxKills /\ kills' = kills + 1
    /\ Leave(p)
    /\ UNCHANGED <<container, clock, current, up, adopted>>

-----------------------------------------------------------------------------
ServiceNext ==
    \/ /\ \/ \E p \in Commands :
                \/ \E s \in Services, replace \in BOOLEAN : AdoptBegins(p, s, replace)
                \/ \E s \in Services : RecreateBegins(p, s)
                \/ \E r \in Roles : Observe(p, r) \/ ObserveAgain(p, r) \/ Verify(p, r)
                \/ Decide(p) \/ Publish(p) \/ StartUp(p) \/ Return(p)
          \/ \E r \in Roles :
                \/ UpRecreates(r) \/ HealthChanges(r)
                \/ \E image \in Images : ReplacedByHand(r, image)
          \/ UpEnds
       /\ UNCHANGED kills
    \/ \E p \in Commands : CommandDies(p)

\* The installer and the commands interleave and exclude each other by G.
ReleaseNext ==
    \/ InstallNext /\ UNCHANGED serviceVars
    \/ ServiceNext /\ UNCHANGED <<releases, backend, install, history>>

ReleaseSpec == ReleaseInit /\ [][ReleaseNext]_releaseVars

-----------------------------------------------------------------------------
\* What `adopt' records of a service ran at one instant of the adoption, although it
\* looks at one container after the other and they are replaced and restarted meanwhile.
AdoptedTogether == adopted = current

\* What a `docker compose up' of `recreate' starts is the release that is current when it
\* starts it, also when the command that began it was killed long before.
RecreatesCurrent ==
    [][\A r \in Roles : up # None /\ up' # None /\ up'.left # up.left /\ container'[r] # container[r]
                           => container'[r].image = current[Owner[r]][r]]_releaseVars
=============================================================================
