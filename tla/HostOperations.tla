---------------------------- MODULE HostOperations ----------------------------
(***************************************************************************)
(* What changes the host beside the deploys: the installer of Manager       *)
(* releases and the console's .env (TrustedInstall), the release markers    *)
(* of the services (ServiceRelease) and the shared Dagster plane            *)
(* (DagsterPlane).  The three take the same lock G, and a flip of the       *)
(* install root changes under the third what it would load.                 *)
(***************************************************************************)
EXTENDS ServiceRelease, DagsterPlane

\* The processes that hold G are told apart by name.
ASSUME PlaneNameAssumption == "plane" \notin Commands

hostVars == <<releaseVars, planeVars>>

HostInit == ReleaseInit /\ PlaneInit

HostNext ==
    \/ ReleaseNext /\ UNCHANGED planeVars
    \/ PlaneNext /\ UNCHANGED <<releases, backend, install, history, serviceVars>>

HostSpec == HostInit /\ [][HostNext]_hostVars
=============================================================================
