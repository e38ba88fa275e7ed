--------------------------- MODULE MCHostOperations ---------------------------
(* Bounded instances of HostOperations: whole installs beside services and a *)
(* plane at rest; the commands of the services beside an installer that      *)
(* takes and releases G without building anything; or cutovers, converges    *)
(* and rebuilds between installs that succeed while the plane runs.          *)
EXTENDS HostOperations, FiniteSets, TLC

OwnerOf == [r \in Roles |-> IF r = "etl" THEN "map" ELSE "geo"]

\* Each release has moved one location more; "b" belongs to the pinned pair.
ListsOf == [r \in Revisions |-> CASE r = "r1" -> {} [] r = "r2" -> {"a"} [] OTHER -> {"a", "b"}]

PlaneAtRest ==
    /\ \A s \in Both : plane[s] = [on |-> TRUE, made |-> {}, loads |-> {}]
    /\ \A t \in Locations : own[t] = "running" /\ saved[t] = None /\ code[t] = "own"
    /\ task = NoTask /\ ~deviated

ServicesAtRest ==
    /\ \A r \in Roles : container[r] = [image |-> "old", started |-> 0, healthy |-> TRUE]
    /\ \A p \in Commands : command[p] = NoCommand
    /\ \A s \in Services : current[s] # None

InstallerAtRest ==
    /\ install \in {NotInstalling, [at |-> "tree", sha |-> First, cli |-> TRUE, prev |-> First]}
    /\ written = 0 /\ previous = None /\ backend = None

\* One container is ill of itself at a time, and one command is killed.
FewFaults ==
    /\ kills <= 1
    /\ clock = 0 => \A r \in Roles : container[r].image = "old"
    /\ LET ill == {r \in Roles : ~container[r].healthy} IN
       Cardinality(ill) <= 1 \/ \A r \in ill : container[r].started > 0

\* Installs of another release with --cli-only that leave nothing behind; one command of
\* the plane is killed.  The containers of the plane run, or start again, during an
\* install and after the kill.
InstallsSucceed ==
    /\ written = 0 /\ backend = None /\ ~meddled /\ kills <= 1
    /\ install.at = "idle" =>
          \A r \in Revisions : tree[r] = IF r \in {app, previous} THEN "whole" ELSE "none"
    /\ install.at # "idle" => install.cli /\ install.sha # install.prev /\ kills = 0
    /\ install.at # "idle" \/ kills = 1 => \A s \in Both : plane[s].on

Scope ==
    \/ ServicesAtRest /\ PlaneAtRest
    \/ InstallerAtRest /\ FewFaults /\ PlaneAtRest
    \/ ServicesAtRest /\ InstallsSucceed /\ ~deviated

\* HostNext; the constraint would drop what the guards leave out after generating it.
BoundedNext ==
    \/ InstallNext /\ UNCHANGED <<serviceVars, planeVars>>
    \/ /\ InstallerAtRest /\ PlaneAtRest
       /\ ServiceNext /\ UNCHANGED <<releases, backend, install, history, planeVars>>
    \/ /\ ServicesAtRest /\ InstallsSucceed
       /\ PlaneNext /\ UNCHANGED <<releases, backend, install, history, serviceVars>>

BoundedSpec == HostInit /\ [][BoundedNext]_hostVars

Twins == Permutations(Commands)
=============================================================================
