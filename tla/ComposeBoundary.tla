-------------------------- MODULE ComposeBoundary --------------------------
(***************************************************************************)
(* What the single-file boundary says of a compose document, and what the  *)
(* containers of an admitted document then are: the references derived     *)
(* from the release compose (compose_references.py), the rules on          *)
(* PostgreSQL servers and the candidate validation as written and as       *)
(* resolved (c6c_deployment.py), the snapshots of the .env and of the      *)
(* env_files they are judged with (compose_service.py).                    *)
(*                                                                         *)
(* ComposeTransaction takes the verdict of these rules as a set of         *)
(* documents; here they are spelled out.  The operator edits the document, *)
(* the .env and the env_files one change at a time, also while a           *)
(* transaction is under way.                                               *)
(*                                                                         *)
(* Abstracted: a text is the secrets it contains as they are and those it  *)
(* contains percent-encoded; a command is what it runs and what it sets;   *)
(* the top-level secrets, the build contexts and the paths of the          *)
(* env_files are the release's.  What an image runs that has no command is *)
(* known only of the services docker-targets.yml declares.  Rules          *)
(* on mounts, host privileges, Concierge and credential formats, and the   *)
(* services a scoped candidate leaves out, are left out: they refuse more. *)
(***************************************************************************)
EXTENDS Naturals, Sequences, FiniteSets

CONSTANTS
    Services, Keys, Vars, Secrets, Mounts, FileNames, Images, Ports, Users,
    Absent,              \* no service, no value, no mount
    Reference,           \* the services of the release compose
    Contexts, FileRoots, \* the variables in its build contexts and env_file paths
    Top,                 \* the variable each top-level secret takes its value from
    Sensitive,           \* variables with a sensitive name
    Public,              \* variables of NEXT_PUBLIC_ keys and build arguments
    Printed,             \* secrets that stand in the text of the release compose
    Declared, Required, Runtime, \* PostgreSQL servers, protected and pinned services
    Bootstrap,           \* the Map role bootstrap one-shot
    Variants,            \* what the operator may make of each service
    Environments, Contents, \* ... of the .env and of the env_files
    MaxChanges             \* bound: operator edits

\* A server as its section describes it: what runs there, the values that the
\* command gives listen_addresses and port in order ("env" is a variable's
\* value), whether it says anything else the rules do not list, how a cluster is
\* initialised and where its password comes from.  What runs is the command
\* postgres, a shell whose payload begins with it or execs it, an image that runs
\* a server without a command, a server that the command does not name in these
\* places ("hidden": an entrypoint, env postgres, docker-entrypoint.sh postgres,
\* a later word of a shell), or no server.
ServerDocs ==
    [program : {"postgres", "shell", "image", "hidden", "other"},
     listen : Seq({"loopback", "any"}), port : Seq(Ports \cup {"env"}), foreign : BOOLEAN,
     initdb : {"canonical", "other", "absent", "file"}, trusts : BOOLEAN, moved : BOOLEAN,
     password : Mounts \cup {Absent, "plain"}, user : Users \cup {Absent}]

\* A section: the variables each environment key, the command and all other
\* fields refer to; what it mounts, loads and spells out.
ServiceDocs ==
    [environment : [Keys -> SUBSET Vars], command : SUBSET Vars, other : SUBSET Vars,
     mounts : SUBSET Mounts, envFiles : SUBSET FileNames, literals : SUBSET Secrets,
     oneShot : BOOLEAN, image : Images, server : ServerDocs]
Documents == [Services -> ServiceDocs \cup {Absent}]

\* The secrets in a text: as they are, and percent-encoded, as a DSN has them.
Texts == [plain : SUBSET Secrets, coded : SUBSET Secrets]

\* The .env: its values, the ports of its DSNs and of the server, the logins,
\* and whether it composes several files.
EnvDocs ==
    [value : [Vars -> Texts], app : Ports \cup {Absent}, dagster : Ports \cup {Absent},
     server : Ports, login : Users \cup {Absent}, metadata : Users \cup {Absent}, composed : BOOLEAN]
FileDocs == [FileNames -> Texts]

ASSUME ReferenceAssumption == Reference \in [Services -> ServiceDocs]
ASSUME VariantAssumption == Variants \in [Services -> SUBSET (ServiceDocs \cup {Absent})]
ASSUME EnvironmentAssumption == Environments \subseteq EnvDocs /\ Contents \subseteq FileDocs
ASSUME ReleaseAssumption ==
    /\ Contexts \in [Services -> SUBSET Vars] /\ FileRoots \in [FileNames -> SUBSET Vars]
    /\ Top \in [Mounts -> Vars]
    /\ Public \subseteq Vars /\ Sensitive \subseteq Vars
    /\ Absent \notin ServiceDocs \cup Ports \cup Users \cup Mounts /\ "plain" \notin Mounts
    /\ "env" \notin Ports
ASSUME EditAssumption == MaxChanges \in Nat

VARIABLES
    draft, dotenv, files, \* docker-compose.yml, .env and the env_files, as they are now
    judging,             \* the transaction: what it captured and what it resolved
    stack,               \* the document, .env and env_files the containers run
    changes
boundaryVars == <<draft, dotenv, files, judging, stack, changes>>

Snapshots == [doc : Documents, env : EnvDocs, files : FileDocs]
Unjudged == [step |-> "idle", doc |-> Reference]

Present(doc) == {s \in Services : doc[s] # Absent}

(***************************************************************************)
(* References and secrets                                                  *)
(***************************************************************************)
\* The secret values of the .env, without those the release compose prints.
SecretSet(e) == UNION {e.value[v].plain : v \in Sensitive} \ Printed

\* What a text says when it is percent-decoded as well.
Decoded(text) == text.plain \cup text.coded

\* A variable with a sensitive name, or whose value contains a secret, decoded or not.
Protected(v, e) == v \in Sensitive \/ Decoded(e.value[v]) \cap SecretSet(e) # {}

\* The variables that a section's secrets stand for.
MountVars(d) == {Top[m] : m \in d.mounts}

\* assert_protected_references_are_derived without the sites: mutant.
Derived_Anywhere(doc, e) ==
    LET all(d) == UNION {d.environment[k] : k \in Keys} \cup d.command \cup d.other \cup MountVars(d) IN
    \A s \in Present(doc) :
        /\ \A v \in all(doc[s]) \ UNION {all(Reference[x]) : x \in Services} : ~Protected(v, e)
        /\ doc[s].envFiles \subseteq Reference[s].envFiles
        /\ doc[s].literals \cap SecretSet(e) = {}

\* Every protected variable a section refers to is one that the release
\* refers to at the same site, every env_file one it loads there, and no
\* secret is spelled out.
Derived(doc, e) ==
    \A s \in Present(doc) :
        LET d == doc[s]
            r == Reference[s] IN
        /\ \A k \in Keys : \A v \in d.environment[k] \ r.environment[k] : ~Protected(v, e)
        /\ \A v \in (d.command \ r.command) \cup (d.other \ r.other)
                    \cup (MountVars(d) \ MountVars(r)) : ~Protected(v, e)
        /\ d.envFiles \subseteq r.envFiles
        /\ d.literals \cap SecretSet(e) = {}

\* What variables put into a text as it is, and what the text says decoded as well.
Carried(names, e) == UNION {e.value[v].plain : v \in names}
Revealed(names, e) == UNION {Decoded(e.value[v]) : v \in names}

\* What the release gives a container, and what its section mentions at all.
Received(s, e) ==
    Revealed(UNION {Reference[s].environment[k] : k \in Keys} \cup Reference[s].command, e)
Mentioned(s, e) == Received(s, e) \cup Revealed(Reference[s].other \cup MountVars(Reference[s]), e)

\* The texts that say which checkout a section is rooted at.
CheckoutRoots(s) == {Contexts[s]} \cup {FileRoots[g] : g \in Reference[s].envFiles}
Family(f) == {s \in Services : \E roots \in CheckoutRoots(s) : roots \cap FileRoots[f] # {}}
Loaders(f) == {s \in Services : f \in Reference[s].envFiles}

\* A file is rooted at one variable, its family at that one only, and no
\* protected service is of the family.
FamilyClear(f) ==
    /\ Cardinality(FileRoots[f]) = 1
    /\ \A s \in Family(f) : \A roots \in CheckoutRoots(s) :
           roots \cap FileRoots[f] # {} => roots = FileRoots[f]
    /\ Family(f) \cap Required = {}

\* A value that the release puts into browsers, as a whole.
Published(secret, e) == \E v \in Public : e.value[v] = [plain |-> {secret}, coded |-> {}]

\* A family's secret that others know as well: mutant.
FileMayHold_Shared(f, secret, e) ==
    \/ Published(secret, e)
    \/ \A s \in Loaders(f) : secret \in Received(s, e)
    \/ \E s \in Family(f) \ Loaders(f) : secret \in Received(s, e)

\* A secret the file may contain: published, received by all its loaders, or
\* received by another of the family and mentioned nowhere else.
FileMayHold(f, secret, e) ==
    \/ Published(secret, e)
    \/ \A s \in Loaders(f) : secret \in Received(s, e)
    \/ /\ \E s \in Family(f) \ Loaders(f) : secret \in Received(s, e)
       /\ \A s \in Services \ Family(f) : secret \notin Mentioned(s, e)

FamiliesClear == \A f \in FileNames : Loaders(f) # {} => FamilyClear(f)
FileContentsAllowed(doc, e, contents) ==
    \A s \in Present(doc) : \A f \in doc[s].envFiles :
        \A secret \in Decoded(contents[f]) \cap SecretSet(e) : Loaders(f) # {} /\ FileMayHold(f, secret, e)

\* With the variables resolved, a secret stands as it is only where the release
\* refers to a protected variable, or where an env_file fills the environment.
SitesAllowed(doc, e, contents) ==
    \A s \in Present(doc) :
        LET r == Reference[s]
            open(names, refs) == Carried(names, e) \cap SecretSet(e) = {} \/ \E v \in refs : Protected(v, e) IN
        /\ r.envFiles = {} =>
               /\ \A k \in Keys : open(doc[s].environment[k], r.environment[k])
               /\ \A f \in doc[s].envFiles : contents[f].plain \cap SecretSet(e) = {}
        /\ open(doc[s].command, r.command)
        /\ open(doc[s].other, r.other)

(***************************************************************************)
(* PostgreSQL servers                                                      *)
(***************************************************************************)
\* Known by the password alone: mutant.
Witnessed_ByPassword(d) == d.server.password # Absent

\* The section itself says that a server runs there: the command's program, the
\* first or the execed word of a shell's payload, or a cluster's password.
Witnessed(d) == d.server.program \in {"postgres", "shell"} \/ d.server.password # Absent
Servers(doc) == {s \in Present(doc) : s \in Declared \/ Witnessed(doc[s])}

AuthKept(doc) == \A s \in Present(doc) : ~doc[s].server.trusts

\* An absent POSTGRES_INITDB_ARGS, which means trust, let pass: mutant.
InitdbCanonical_Absent(doc) ==
    \A s \in Present(doc) :
        /\ doc[s].server.initdb # "other"
        /\ s \in Servers(doc) =>
               doc[s].server.initdb # "file" /\ ~doc[s].server.moved /\ doc[s].envFiles = {}

\* A server states the canonical POSTGRES_INITDB_ARGS itself, without a file
\* and without PGDATA or an env_file.
InitdbCanonical(doc) ==
    \A s \in Present(doc) :
        /\ doc[s].server.initdb # "other"
        /\ s \in Servers(doc) =>
               /\ doc[s].server.initdb \notin {"file", "absent"}
               /\ ~doc[s].server.moved /\ doc[s].envFiles = {}

\* A check of the first listen_addresses only: mutant.
RuntimeCanonical_FirstListen(doc) ==
    \A s \in Servers(doc) :
        LET d == doc[s].server IN
        /\ s \in Declared /\ d.program = "postgres" /\ ~d.foreign
        /\ d.listen # <<>> /\ d.listen[1] = "loopback"

\* A server is declared, runs the postgres command with listed settings
\* alone, and every listen_addresses it is given is the loopback.
RuntimeCanonical(doc) ==
    \A s \in Servers(doc) :
        LET d == doc[s].server IN
        /\ s \in Declared /\ d.program = "postgres" /\ ~d.foreign
        /\ d.listen # <<>> /\ \A i \in DOMAIN d.listen : d.listen[i] = "loopback"

\* postgres_admin_secret: the password file is that of a secret it mounts.
AdminSecretKnown(d) == d.server.password \in d.mounts

RuntimeImages(doc) == {doc[s].image : s \in Runtime \cap Present(doc)}

\* The value of an admin variable, as it is, in one of an environment's values.
InEnvironment(d, admin, e, contents) ==
    LET password == e.value[admin].plain IN
    /\ password # {}
    /\ \/ \E k \in Keys : password \subseteq Carried(d.environment[k], e)
       \/ \E f \in d.envFiles : password \subseteq contents[f].plain

\* The admin secret of a server is held by it and by one-shots that are no
\* pinned runtime: as a mount, as a variable, once resolved as a value
\* (held gives the variables that each section holds).
AdminsConfined(doc, held) ==
    \A s \in Servers(doc) :
        /\ AdminSecretKnown(doc[s])
        /\ \A x \in Present(doc) \ {s} :
               (doc[s].server.password \in doc[x].mounts \/ Top[doc[s].server.password] \in held[x]) =>
                   /\ doc[x].oneShot /\ x \notin Runtime
                   /\ doc[x].image \notin RuntimeImages(doc)
RawAdminsConfined(doc) ==
    AdminsConfined(doc, [x \in Present(doc) |-> UNION {doc[x].environment[k] : k \in Keys}])

\* A search for the variable's name in the resolved document: mutant.
ResolvedAdminsConfined_ByName(doc, e, contents) == RawAdminsConfined(doc)

ResolvedAdminsConfined(doc, e, contents) ==
    AdminsConfined(doc, [x \in Present(doc) |-> {v \in Vars : InEnvironment(doc[x], v, e, contents)}])

\* The DSNs of the Map agree on a port, their logins differ.
DsnsAgree(e) ==
    /\ e.app # Absent /\ e.app = e.dagster
    /\ e.login # Absent /\ e.metadata # Absent /\ e.login # e.metadata

\* postgres_server_port: the last port of a command the rules can read.
StatedPort(d, e) ==
    IF d.program # "postgres" \/ d.port = <<>> THEN Absent
    ELSE LET last == d.port[Len(d.port)] IN IF last = "env" THEN e.server ELSE last
ServersOn(doc, port, e) == {s \in Servers(doc) : StatedPort(doc[s].server, e) = port}

\* Exactly one server states the port of the DSNs, and neither login is its
\* administrator.
DsnInstance(doc, e) ==
    \E s \in Services :
        /\ ServersOn(doc, e.app, e) = {s}
        /\ doc[s].server.user \notin {Absent, e.login, e.metadata}

\* The bootstrap mounts one secret: the admin secret of the candidates.
BootstrapAdmin(doc, candidates) ==
    Bootstrap \in Present(doc) =>
        /\ doc[Bootstrap].oneShot
        /\ \E s \in candidates : doc[Bootstrap].mounts = {doc[s].server.password}

(***************************************************************************)
(* The verdict                                                             *)
(***************************************************************************)
BothAllowed(doc, e) ==
    /\ ~e.composed /\ DsnsAgree(e) /\ Required \subseteq Present(doc)
    /\ AuthKept(doc) /\ InitdbCanonical(doc) /\ RuntimeCanonical(doc)

\* validate_compose_candidate_protected_values
RawAllowed(doc, e, contents) ==
    /\ BothAllowed(doc, e) /\ RawAdminsConfined(doc) /\ FamiliesClear
    /\ BootstrapAdmin(doc, Servers(doc))
    /\ Derived(doc, e) /\ FileContentsAllowed(doc, e, contents)

\* validate_resolved_compose_candidate_protected_values
ValuesAllowed(doc, e, contents) ==
    /\ BothAllowed(doc, e) /\ DsnInstance(doc, e) /\ ResolvedAdminsConfined(doc, e, contents)
    /\ BootstrapAdmin(doc, ServersOn(doc, e.app, e))
    /\ SitesAllowed(doc, e, contents)

(***************************************************************************)
(* Actions                                                                 *)
(***************************************************************************)
BoundaryInit ==
    /\ draft = Reference /\ dotenv \in Environments /\ files \in Contents
    /\ judging = Unjudged /\ stack = Absent /\ changes = 0

Edit == changes < MaxChanges /\ changes' = changes + 1 /\ UNCHANGED <<judging, stack>>
EditService ==
    /\ Edit
    /\ \E s \in Services : \E d \in Variants[s] \ {draft[s]} : draft' = [draft EXCEPT ![s] = d]
    /\ UNCHANGED <<dotenv, files>>
EditEnv ==
    /\ Edit
    /\ dotenv' \in Environments \ {dotenv}
    /\ UNCHANGED <<draft, files>>
EditFile ==
    /\ Edit
    /\ files' \in Contents \ {files}
    /\ UNCHANGED <<draft, dotenv>>

\* A snapshot without the contents of the env_files: mutant.
Captured_NoFiles(step, doc) == [step |-> step, doc |-> doc, env |-> dotenv]

Captured(step, doc) == [step |-> step, doc |-> doc, env |-> dotenv, files |-> files]

\* The document, the .env and the env_files are read once, and the rules are
\* asked of the document as it is written.
Capture ==
    /\ judging.step = "idle" /\ RawAllowed(draft, dotenv, files)
    /\ judging' = Captured("captured", draft)
    /\ UNCHANGED <<draft, dotenv, files, stack, changes>>

\* A resolution with the .env and the files of now: mutant.
Resolve_Live ==
    /\ judging.step = "captured"
    /\ judging' = Captured("resolved", judging.doc)
    /\ UNCHANGED <<draft, dotenv, files, stack, changes>>

\* docker compose config, given the captured values alone: the variables, and
\* the files in memory, if they are still those on disk.
Resolve ==
    /\ judging.step = "captured" /\ files = judging.files
    /\ judging' = [judging EXCEPT !.step = "resolved"]
    /\ UNCHANGED <<draft, dotenv, files, stack, changes>>

Overtaken == draft # judging.doc \/ dotenv # judging.env \/ files # judging.files

\* The resolved document is judged, the boundary compares what it was read
\* from with the disk, and Docker is given the resolved document.
Up ==
    /\ judging.step = "resolved" /\ ~Overtaken /\ ValuesAllowed(judging.doc, judging.env, judging.files)
    /\ stack' = [doc |-> judging.doc, env |-> judging.env, files |-> judging.files]
    /\ judging' = Unjudged
    /\ UNCHANGED <<draft, dotenv, files, changes>>
Refuse ==
    /\ \/ judging.step = "captured" /\ files # judging.files
       \/ judging.step = "resolved" /\ (Overtaken \/ ~ValuesAllowed(judging.doc, judging.env, judging.files))
    /\ judging' = Unjudged
    /\ UNCHANGED <<draft, dotenv, files, stack, changes>>

BoundaryNext == EditService \/ EditEnv \/ EditFile \/ Capture \/ Resolve \/ Up \/ Refuse
BoundarySpec == BoundaryInit /\ [][BoundaryNext]_boundaryVars

(***************************************************************************)
(* What Docker and PostgreSQL make of a document                           *)
(***************************************************************************)
RunsServer(d) == d.server.program # "other"
Running(doc) == {s \in Present(doc) : RunsServer(doc[s])}

\* The last value given wins; an image that is told nothing listens anywhere.
ListensOn(d) == IF d.listen = <<>> THEN "any" ELSE d.listen[Len(d.listen)]

\* A cluster asks for passwords only if it was initialised with the canonical
\* arguments, and an env_file may give it any others.
AsksPasswords(d) == d.server.initdb = "canonical" /\ ~d.server.trusts /\ d.envFiles = {}

(***************************************************************************)
(* Properties                                                              *)
(***************************************************************************)
\* Every variable stays in its type.
BoundaryTypeOK ==
    /\ draft \in Documents /\ dotenv \in EnvDocs /\ files \in FileDocs
    /\ \/ judging = Unjudged
       \/ /\ judging \in [step : {"captured", "resolved"}, doc : Documents, env : EnvDocs, files : FileDocs]
    /\ stack \in Snapshots \cup {Absent}
    /\ changes \in 0..MaxChanges

\* A secret, as it is or percent-encoded, reaches a container only as the
\* release hands it over (assert_protected_references_are_derived and
\* env_file_secret_values_by_path, asked of what was captured): in the same key,
\* command or mount, or in an env_file the release loads there, and then it is
\* public, this container's own, or its checkout's alone.
SecretsStayPut ==
    stack # Absent =>
        LET e == stack.env IN
        \A s \in Present(stack.doc) : \A secret \in SecretSet(e) :
            LET d == stack.doc[s]
                r == Reference[s] IN
            /\ \A k \in Keys : secret \in Revealed(d.environment[k], e) => secret \in Revealed(r.environment[k], e)
            /\ secret \in Revealed(d.command, e) => secret \in Revealed(r.command, e)
            /\ secret \in Revealed(MountVars(d), e) => secret \in Revealed(MountVars(r), e)
            /\ secret \notin d.literals
            /\ \A f \in d.envFiles : secret \in Decoded(stack.files[f]) =>
                   \/ Published(secret, e) \/ secret \in Received(s, e)
                   \/ \A x \in Services \ Family(f) : secret \notin Mentioned(x, e)

\* The administrator's password of a server is in no container that stays up
\* beside it: mounted, or as it is in its environment under whatever variable or
\* file.  Percent-encoded in a variable that the release hands a container, it
\* passes (`password in value`, _service_holds_admin_secret).
AdminStaysHome(s, run) ==
    LET password == run.doc[s].server.password IN
    \A x \in Present(run.doc) \ {s} :
        (\/ password \in run.doc[x].mounts
         \/ InEnvironment(run.doc[x], Top[password], run.env, run.files)) => run.doc[x].oneShot

\* A server that no rule sees: on a service that docker-targets.yml does not
\* declare, named neither by the command nor by a cluster's password.
Unseen(s, d) ==
    s \notin Declared /\ d.server.program \in {"image", "hidden"} /\ d.server.password = Absent

\* Every PostgreSQL server that runs is a declared one, reachable over the
\* loopback alone, asks for passwords and keeps its cluster's place and its
\* administrator's password to itself, however its command, its environment and
\* the sections beside it are written; a server that is declared cannot hide,
\* and one that is not runs only unseen
\* (_service_witnesses_a_postgres_server reads neither entrypoint nor what a
\* wrapper, the rest of a shell's payload or the image starts).
ServersAreClosed ==
    stack # Absent =>
        \A s \in Running(stack.doc) :
            LET d == stack.doc[s] IN
            \/ Unseen(s, d)
            \/ /\ s \in Declared /\ ListensOn(d.server) = "loopback"
               /\ AsksPasswords(d) /\ ~d.server.moved
               /\ AdminStaysHome(s, stack)
=============================================================================
