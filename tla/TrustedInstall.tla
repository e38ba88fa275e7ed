---------------------------- MODULE TrustedInstall ----------------------------
(***************************************************************************)
(* The installer of Manager releases (install-ktdm-trusted-release): it     *)
(* builds the tree of one revision, copies the live .env into it, lets the  *)
(* install root point to it and removes the releases before the previous    *)
(* one, all under the Manager mutation lock G and killable at every step.   *)
(*                                                                          *)
(* Beside it the backend runs from the install root, the console changes    *)
(* the admin password in .env (under G, in detail in ConsoleSessions), and  *)
(* the operator edits .env and starts and stops the service without a lock. *)
(* A reboot is a kill, a stop and a start.  Ownership and mode checks, the  *)
(* host files under /etc and where the release root lies are left out.      *)
(***************************************************************************)
EXTENDS Integers

CONSTANTS
    Revisions, First,    \* commits; the one installed at the beginning
    None,
    MaxKills, MaxWrites  \* bounds: killed processes; changes of .env

ASSUME RevisionsAssumption == First \in Revisions /\ None \notin Revisions
ASSUME WritesAssumption == MaxKills \in Nat /\ MaxWrites \in Nat /\ None \notin Nat

VARIABLES
    G,          \* the processes that have the locked description of G open
    tree,       \* of each revision: "none", "partial" or "whole"
    marked,     \* the releases with .ktdm-source-revision
    reference,  \* the releases with .ktdm-release-compose.yml
    env,        \* of each release: the number of the write its .env shows, or None
    app,        \* the release the install root points to
    backend,    \* the release the running backend was started from, or None
    install,    \* the installer: where it is, what it installs, over which release
    kills,
    previous,   \* history: the release before the last flip, or None
    written,    \* history: how often the live .env was written
    raced,      \* history: the operator edited .env between the copy and the flip
    meddled     \* history: the operator started the service just before the flip

releases == <<tree, marked, reference, env, app>>
history == <<previous, written, raced, meddled>>
installVars == <<G, releases, backend, install, kills, history>>

NotInstalling == [at |-> "idle", sha |-> First, cli |-> FALSE, prev |-> First]

InstallInit ==
    /\ G = {}
    /\ tree = [r \in Revisions |-> IF r = First THEN "whole" ELSE "none"]
    /\ marked = {First} /\ reference = {First}
    /\ env = [r \in Revisions |-> IF r = First THEN 0 ELSE None]
    /\ app = First /\ backend \in {First, None}
    /\ install = NotInstalling /\ kills = 0
    /\ previous = None /\ written = 0 /\ raced = FALSE /\ meddled = FALSE

-----------------------------------------------------------------------------
(* The installer.                                                            *)

At(where) == install.at = where
GoTo(where) == install' = [install EXCEPT !.at = where] /\ UNCHANGED G
Quit == install' = NotInstalling /\ G' = G \ {"installer"}

\* G is taken or the installer refuses; --cli-only wants the services stopped.
BeginInstall(sha, cli) ==
    /\ At("idle") /\ G = {}
    /\ cli => backend = None
    /\ G' = {"installer"}
    /\ install' = [at |-> "tree", sha |-> sha, cli |-> cli, prev |-> app]
    /\ UNCHANGED <<releases, backend, kills, history>>

\* A release without its mark is unfinished and made anew, unless it is the active one.
Discard ==
    /\ At("tree")
    /\ LET sha == install.sha IN
       \/ sha \in marked /\ GoTo("reference") /\ UNCHANGED releases
       \/ sha \notin marked /\ sha = install.prev /\ Quit /\ UNCHANGED releases
       \/ /\ sha \notin marked /\ sha # install.prev
          /\ tree' = [tree EXCEPT ![sha] = "partial"]
          /\ reference' = reference \ {sha} /\ env' = [env EXCEPT ![sha] = None]
          /\ GoTo("build") /\ UNCHANGED <<marked, app>>
    /\ UNCHANGED <<backend, kills, history>>

\* Mutant: the mark is there before the tree is.
Build_MarksFirst ==
    /\ At("build")
    /\ marked' = marked \cup {install.sha}
    /\ \/ tree' = [tree EXCEPT ![install.sha] = "whole"] /\ GoTo("mark")
       \/ UNCHANGED tree /\ Quit
    /\ UNCHANGED <<reference, env, app, backend, kills, history>>

\* archive, chmod, venv, pip, launcher and a first import; any of them may fail.
Build ==
    /\ At("build")
    /\ \/ tree' = [tree EXCEPT ![install.sha] = "whole"] /\ GoTo("mark")
       \/ UNCHANGED tree /\ Quit
    /\ UNCHANGED <<marked, reference, env, app, backend, kills, history>>

Mark ==
    /\ At("mark")
    /\ marked' = marked \cup {install.sha} /\ GoTo("reference")
    /\ UNCHANGED <<tree, reference, env, app, backend, kills, history>>

\* Written on every install, also over the active release.
WriteReference ==
    /\ At("reference")
    /\ reference' = reference \cup {install.sha} /\ GoTo("env")
    /\ UNCHANGED <<tree, marked, env, app, backend, kills, history>>

\* Mutant: a release that has an .env keeps it.
CopyEnv_OnlyNew ==
    /\ At("env") /\ GoTo("checks")
    /\ env' = [env EXCEPT ![install.sha] = IF @ = None THEN env[app] ELSE @]
    /\ UNCHANGED <<tree, marked, reference, app, backend, kills, history>>

CopyEnv ==
    /\ At("env") /\ GoTo("checks")
    /\ env' = [env EXCEPT ![install.sha] = IF install.prev = install.sha THEN @ ELSE env[app]]
    /\ UNCHANGED <<tree, marked, reference, app, backend, kills, history>>

\* The Dagster instance, the compose closure, the host's identity, the binds of the
\* plane and the host files: each may refuse, and nothing is flipped then.
Check ==
    /\ At("checks")
    /\ GoTo("stop") \/ Quit
    /\ UNCHANGED <<releases, backend, kills, history>>

\* Mutant: --cli-only relies on its first look at the services.
StopBackend_NoRecheck ==
    /\ At("stop") /\ GoTo("flip")
    /\ backend' = IF install.cli THEN backend ELSE None
    /\ UNCHANGED <<releases, kills, history>>

StopBackend ==
    /\ At("stop")
    /\ \/ ~install.cli /\ backend' = None /\ GoTo("flip")
       \/ install.cli /\ backend = None /\ GoTo("flip") /\ UNCHANGED backend
       \/ install.cli /\ backend # None /\ Quit /\ UNCHANGED backend
    /\ UNCHANGED <<releases, kills, history>>

Flip ==
    /\ At("flip")
    /\ app' = install.sha /\ GoTo("start")
    /\ previous' = IF install.prev = install.sha THEN previous ELSE install.prev
    /\ UNCHANGED <<tree, marked, reference, env, backend, kills, written, raced, meddled>>

StartBackend ==
    /\ At("start") /\ GoTo("verify")
    /\ \/ ~install.cli /\ backend' = app
       \/ UNCHANGED backend
    /\ UNCHANGED <<releases, kills, history>>

\* /health from the unit's own process within 60 s, or the CLI's own validation.
VerifyInstall ==
    /\ At("verify")
    /\ \/ (install.cli \/ backend # None) /\ GoTo("collect")
       \/ Quit
    /\ UNCHANGED <<releases, backend, kills, history>>

Old == IF install.prev = install.sha THEN {}
       ELSE {r \in Revisions \ {install.sha, install.prev} : tree[r] # "none" \/ r \in marked}

\* Mutant: the tree is removed first, its mark after it.
Collect_TreeFirst ==
    /\ At("collect")
    /\ \/ Old = {} /\ Quit /\ UNCHANGED releases
       \/ \E r \in Old :
            /\ \/ tree[r] # "none" /\ tree' = [tree EXCEPT ![r] = "none"] /\ UNCHANGED marked
               \/ tree[r] = "none" /\ marked' = marked \ {r} /\ UNCHANGED tree
            /\ reference' = reference \ {r} /\ env' = [env EXCEPT ![r] = None]
            /\ UNCHANGED <<app, install, G>>
    /\ UNCHANGED <<backend, kills, history>>

\* finish_install: every other release loses its mark, then its tree.
Collect ==
    /\ At("collect")
    /\ \/ Old = {} /\ Quit /\ UNCHANGED releases
       \/ /\ \E r \in Old :
                \/ r \in marked /\ marked' = marked \ {r} /\ UNCHANGED <<tree, reference, env>>
                \/ /\ r \notin marked
                   /\ tree' = [tree EXCEPT ![r] = "none"]
                   /\ reference' = reference \ {r} /\ env' = [env EXCEPT ![r] = None]
                   /\ UNCHANGED marked
          /\ UNCHANGED <<app, install, G>>
    /\ UNCHANGED <<backend, kills, history>>

InstallerDies ==
    /\ ~At("idle") /\ kills < MaxKills /\ kills' = kills + 1
    /\ Quit
    /\ UNCHANGED <<releases, backend, history>>

-----------------------------------------------------------------------------
(* The console and the operator.                                             *)

WriteEnv == /\ written < MaxWrites /\ written' = written + 1
            /\ env' = [env EXCEPT ![app] = written + 1]
            /\ UNCHANGED <<G, tree, marked, reference, app, backend, install, kills,
                           previous, meddled>>

ChangePassword == G = {} /\ backend # None /\ WriteEnv /\ UNCHANGED raced

EditLiveEnv ==
    /\ WriteEnv
    /\ raced' = (raced \/ (install.at \in {"checks", "stop", "flip"}
                           /\ install.prev # install.sha))

OperatorStarts ==
    /\ backend = None /\ backend' = app
    /\ meddled' = (meddled \/ At("flip"))
    /\ UNCHANGED <<G, releases, install, kills, previous, written, raced>>

OperatorStops ==
    /\ backend # None /\ backend' = None
    /\ UNCHANGED <<G, releases, install, kills, history>>

InstallNext ==
    \/ \E sha \in Revisions, cli \in BOOLEAN : BeginInstall(sha, cli)
    \/ Discard \/ Build \/ Mark \/ WriteReference \/ CopyEnv \/ Check \/ StopBackend \/ Flip
    \/ StartBackend \/ VerifyInstall \/ Collect \/ InstallerDies
    \/ ChangePassword \/ EditLiveEnv \/ OperatorStarts \/ OperatorStops

InstallSpec == InstallInit /\ [][InstallNext]_installVars

-----------------------------------------------------------------------------
\* A release that root may execute: built to the end, marked and with its .env.
Stands(r) == tree[r] = "whole" /\ r \in marked /\ env[r] # None

\* Wherever installs, reinstalls and their collections are killed, the install root
\* points to a finished release, and the one before the last flip can still be gone
\* back to.
ReleasesStand ==
    /\ Stands(app) /\ app \in reference
    /\ previous # None => Stands(previous)

\* A flip never takes .env back: the live file is the last one written, by the console
\* or the operator, before, during or after an install, unless the operator edited it
\* between the installer's copy and its flip.
EnvSurvivesInstalls == ~raced => env[app] = written

\* The backend never runs on while the install root moves under it, whose modules it
\* would mix, unless the operator starts it in the instant before the flip.
BackendIsOfApp == ~meddled => backend \in {None, app}
=============================================================================
