------------------------- MODULE MCComposeBoundary -------------------------
(***************************************************************************)
(* A release of six services: the Map server and the PinVi server, which   *)
(* docker-targets.yml declares, the Map's API and its role bootstrap, and  *)
(* two services of the UI checkout, one of which loads its env_file.       *)
(***************************************************************************)
EXTENDS ComposeBoundary, TLC

CONSTANTS
    pg, pg2, api, boot, ui, worker,              \* services
    url, next,                                   \* environment keys
    AdminPw, Admin2Pw, ApiKey, UiKey, PubKey, Plain, Root, UiRoot, \* variables
    admin, admin2, apikey, uikey, maps,          \* secrets
    adminFile, admin2File, apiFile,              \* top-level secrets
    uiEnv,                                       \* an env_file
    image, tool, p1, p2, super, mapUser, metaUser

MCServices == {pg, pg2, api, boot, ui, worker}
MCKeys == {url, next}
MCVars == {AdminPw, Admin2Pw, ApiKey, UiKey, PubKey, Plain, Root, UiRoot}
MCSecrets == {admin, admin2, apikey, uikey, maps}
MCMounts == {adminFile, admin2File, apiFile}
MCFileNames == {uiEnv}
MCImages == {image, tool}
MCPorts == {p1, p2}
MCUsers == {super, mapUser, metaUser}

NoServer ==
    [program |-> "other", listen |-> <<>>, port |-> <<>>, foreign |-> FALSE, initdb |-> "absent",
     trusts |-> FALSE, moved |-> FALSE, password |-> Absent, user |-> Absent]
Server(port, password) ==
    [NoServer EXCEPT !.program = "postgres", !.listen = <<"loopback">>, !.port = <<port>>,
                     !.initdb = "canonical", !.password = password, !.user = super]

Plainly ==
    [environment |-> (url :> {}) @@ (next :> {}), command |-> {}, other |-> {}, mounts |-> {},
     envFiles |-> {}, literals |-> {}, oneShot |-> FALSE, image |-> image, server |-> NoServer]
Refers(d, names) == [d EXCEPT !.environment[url] = names]

MCReference ==
    (pg :> [Plainly EXCEPT !.mounts = {adminFile}, !.image = tool, !.server = Server("env", adminFile)]) @@
    (pg2 :> [Plainly EXCEPT !.mounts = {admin2File}, !.image = tool, !.server = Server(p2, admin2File)]) @@
    (api :> Refers(Plainly, {ApiKey, Plain})) @@
    (boot :> [Plainly EXCEPT !.mounts = {adminFile}, !.oneShot = TRUE, !.image = tool]) @@
    (ui :> [Refers(Plainly, {PubKey}) EXCEPT !.envFiles = {uiEnv}]) @@
    (worker :> Refers(Plainly, {UiKey}))
MCContexts ==
    (pg :> {}) @@ (pg2 :> {}) @@ (api :> {Root}) @@ (boot :> {Root}) @@ (ui :> {UiRoot}) @@ (worker :> {UiRoot})
MCFileRoots == uiEnv :> {UiRoot}
MCTop == (adminFile :> AdminPw) @@ (admin2File :> Admin2Pw) @@ (apiFile :> ApiKey)

Serving(d, field) == {[d EXCEPT !.server = x] : x \in field}
\* What the command and the environment of a server may be edited to.
ServerEdits(d) ==
    LET v == d.server IN
    Serving(d, {[v EXCEPT !.listen = x] :
                   x \in {<<>>, <<"any">>, <<"any", "loopback">>, <<"loopback", "any">>}}
               \cup {[v EXCEPT !.port = x] : x \in {<<>>, <<p2>>, <<p2, "env">>}}
               \cup {[v EXCEPT !.program = x] : x \in {"shell", "hidden", "other"}}
               \cup {[v EXCEPT !.initdb = x] : x \in {"other", "absent", "file"}}
               \cup {[v EXCEPT !.password = x] : x \in {Absent, "plain", apiFile}}
               \cup {[v EXCEPT !.foreign = TRUE], [v EXCEPT !.trusts = TRUE], [v EXCEPT !.moved = TRUE],
                     [v EXCEPT !.user = mapUser],
                     [v EXCEPT !.program = "image", !.password = Absent, !.initdb = "absent"],
                     [v EXCEPT !.program = "image", !.listen = <<>>, !.port = <<>>]})

\* What any section may be edited to take up.
Takes(d) ==
    {[d EXCEPT !.environment[url] = @ \cup {x}] : x \in {AdminPw, ApiKey, UiKey, Plain}}
    \cup {[d EXCEPT !.environment[next] = @ \cup {x}] : x \in {ApiKey, Plain}}
    \cup {[d EXCEPT !.command = @ \cup {x}] : x \in {UiKey, Plain}}
    \cup {[d EXCEPT !.mounts = @ \cup {x}] : x \in {adminFile, apiFile}}
    \cup {[d EXCEPT !.envFiles = {uiEnv}], [d EXCEPT !.envFiles = {}], [d EXCEPT !.literals = {apikey}],
          [d EXCEPT !.oneShot = ~@]}

MCVariants ==
    [s \in MCServices |->
        LET d == MCReference[s] IN
        Takes(d) \cup {d}
        \cup (IF s = pg THEN ServerEdits(d) ELSE {})
        \cup (IF s = api THEN Serving(d, {Server(p1, Absent), [Server(p1, Absent) EXCEPT !.program = "image"],
                                                  [NoServer EXCEPT !.program = "hidden"],
                                                  [NoServer EXCEPT !.program = "hidden", !.password = "plain"]}) ELSE {})
        \cup (IF s = pg2 THEN Serving(d, {Server("env", admin2File), [d.server EXCEPT !.listen = <<"any">>]})
              ELSE {})
        \cup (IF s \in {pg2, boot, worker} THEN {Absent} ELSE {})]

Text(x) == [plain |-> x, coded |-> {}]
Coded(x) == [plain |-> {}, coded |-> x]
Value(v) ==
    IF v = AdminPw THEN {admin} ELSE IF v = Admin2Pw THEN {admin2}
    ELSE IF v = ApiKey THEN {apikey} ELSE IF v = UiKey THEN {uikey}
    ELSE IF v = PubKey THEN {maps} ELSE {}
Env ==
    [value |-> [v \in MCVars |-> Text(Value(v))], app |-> p1, dagster |-> p1, server |-> p1,
     login |-> mapUser, metadata |-> metaUser, composed |-> FALSE]
MCEnvironments ==
    {Env, [Env EXCEPT !.value[Plain] = Text({apikey})], [Env EXCEPT !.value[Plain] = Text({admin})],
     [Env EXCEPT !.value[Plain] = Coded({apikey})], [Env EXCEPT !.value[Plain] = Coded({admin})],
     [Env EXCEPT !.value[UiKey] = Text({apikey})], [Env EXCEPT !.value[PubKey] = Text({uikey})],
     [Env EXCEPT !.app = p2, !.dagster = p2],
     [Env EXCEPT !.server = p2],
     [Env EXCEPT !.login = super], [Env EXCEPT !.composed = TRUE]}
MCContents == {uiEnv :> x : x \in {Text({}), Text({uikey}), Text({admin}), Coded({apikey})}}
=============================================================================
