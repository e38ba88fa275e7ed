------------------------- MODULE IsolatedExecution -------------------------
(***************************************************************************)
(* One isolated M04/M05 acceptance run: the root launcher                  *)
(* (run-m05-isolated-e2e-once), the driver it starts                       *)
(* (scripts/m05_isolated_e2e.py), and what they share on disk: the ledger  *)
(* of claims, the execution registry with its public copy, and an output   *)
(* leaf per launch.  The body of an execution identity is meant to run     *)
(* once, and an identity is meant to be burned only when it was used.      *)
(*                                                                         *)
(* The launcher holds the host lock from before its first read and the     *)
(* driver inherits it, so the operator's commands fall between runs.       *)
(* Either process may be killed, a write of the registry or a read of it   *)
(* may fail, and every step of the driver may raise; a caught signal       *)
(* raises where the driver stands.                                         *)
(*                                                                         *)
(* Abstracted: an execution identity is the pinset and Manager revision it *)
(* is derived from; a failure's phase is its class, as far as blocks and   *)
(* receipts tell phases apart; credentials and the documents of the run    *)
(* are present or absent.  Projects, files and leaves are named by a       *)
(* random transaction: a later run never meets those of an earlier one, so *)
(* only the last leaf's are kept, and of the older leaves the passed ones. *)
(***************************************************************************)
EXTENDS Naturals, FiniteSetsExt

CONSTANTS
    Pinsets, Managers,   \* source pinsets and trusted Manager revisions
    Agreeing,            \* the pinsets whose PinVi vendors their Map's contract
    Nothing,             \* no receipt, no answer, no committed deploy
    LedgerLimit,         \* _LEDGER_CLAIM_ATTEMPT_LIMIT
    MaxFaults,           \* bound: failed reads and writes, killed launchers
    MaxCommands          \* bound: operator commands

Identity == Pinsets \X Managers

\* Failure phases by what they decide: refused before the claim; the claim
\* itself; the infrastructure after it; the acceptance body; a failed cleanup;
\* a block that could not be recorded.  "rehearsed" ends a rehearsal.
Phases == {"preclaim", "ledger_claim", "infra", "body", "cleanup", "unrecorded", "rehearsed"}

\* blocked_executions; phase "none" is the unconditional entry.
Blocks == [id : Identity, phase : Phases \cup {"none", "consumed"}]
\* result.json and rehearsal.json: the status, and cleanup_failed.
Receipts == [status : {"passed", "blocked", "preflight_rejected", "rehearsed", "rehearsal_failed"},
             failed : BOOLEAN]

\* An output leaf: its identity, the claimed marker, result.json, and whether
\* the attested evidence shows a reference rewritten.
Leaves == [id : Identity, claimed : BOOLEAN, receipt : Receipts \cup {Nothing}, impact : BOOLEAN]

ASSUME PinsetAssumption == Agreeing \subseteq Pinsets
ASSUME NothingAssumption ==
    Nothing \notin Receipts /\ Nothing \notin Pinsets /\ Nothing \notin {"applied", "blocked"}
ASSUME BoundAssumption == LedgerLimit \in Nat \ {0} /\ {MaxFaults, MaxCommands} \subseteq Nat

VARIABLES
    pinned, trusted,     \* the pinned source pinset; the installed Manager revision
    deployed,            \* the pinset of a committed deploy-status.json, or Nothing
    current, blocks,     \* runtime-executions.json: current binding, blocked_executions
    published,           \* its public copy
    ledger,              \* claims per identity under the ledger root
    leaf, passed,        \* the leaf of the last run; the leaves with a passed receipt
    launcher,            \* step of the launcher
    pc, run, exit,       \* the driver: its step, its locals, how the last one ended
    projects, secrets,   \* compose projects and private files of the last run
    surprised,           \* history: the last cleanup caught an error that is no _PhaseError
    refs, merged, answer,\* of the running body: PinVi's reference, Map's decision,
                         \* PinVi's reconciliation receipt
    bodies,              \* history: acceptance bodies entered, by identity
    faults, lost,        \* history: failed reads and writes, killed launchers, by identity
    crashes,             \* history: identities whose driver was killed after its claim
    commands             \* operator commands so far

host == <<pinned, trusted, deployed>>
registry == <<current, blocks, published>>
disk == <<ledger, leaf, passed>>
driver == <<pc, run, exit>>
resources == <<projects, secrets, surprised>>
scenario == <<refs, merged, answer>>
world == <<resources, scenario>>
accounts == <<bodies, lost, crashes>>
history == <<accounts, faults>>
vars == <<host, registry, disk, launcher, driver, world, history, commands>>

-----------------------------------------------------------------------------
\* is_unconditionally_blocked_current and has_block_for_current, for any identity.
HasBlock(id, phase) == [id |-> id, phase |-> phase] \in blocks
Burned(id) == HasBlock(id, "none")
CurrentMatches == current = <<pinned, trusted>>
Published == published = [current |-> current, blocks |-> blocks]

\* The host lock is the launcher's descriptor, which its driver inherits.  A
\* rehearsal is started by hand and takes no lock.
LockFree == launcher = "idle" /\ (pc = "off" \/ run.rehearse)

NewRun(rehearse) ==
    [rehearse |-> rehearse, claim |-> FALSE, body |-> FALSE, done |-> FALSE,
     failed |-> FALSE, phase |-> "preclaim", handles |-> {}]
NewLeaf == [id |-> <<pinned, trusted>>, claimed |-> FALSE, receipt |-> Nothing, impact |-> FALSE]

\* One more failed read or write, on the account of the run's identity.
FaultsLeft == MapThenSumSet(LAMBDA id : faults[id] + lost[id], Identity) < MaxFaults
Fault == FaultsLeft /\ faults' = [faults EXCEPT ![leaf.id] = @ + 1]

\* block_current_execution: append-only, nothing after an unconditional entry.
Blocked(id, phase) ==
    IF Burned(id) THEN blocks ELSE blocks \cup {[id |-> id, phase |-> phase]}

\* write_runtime_execution_registry: the private file first, then its copy.
WriteBlocks(new) ==
    /\ blocks' = new /\ published' = [current |-> current, blocks |-> new]
    /\ UNCHANGED <<current, faults>>
FailToWriteBlocks(new) ==
    /\ Fault /\ blocks' \in {blocks, new}
    /\ UNCHANGED <<current, published>>

-----------------------------------------------------------------------------
\* The operator's commands, each under the host lock.
Command ==
    /\ LockFree /\ commands < MaxCommands /\ commands' = commands + 1
    /\ UNCHANGED <<disk, launcher, driver, world, history>>

\* A new trusted release; the registry still names the one before.
Install(m) ==
    /\ Command /\ m # trusted /\ trusted' = m
    /\ UNCHANGED <<pinned, deployed, registry>>

\* pin rebind-execution: binds the installed release, or publishes again what is bound.
Rebind ==
    /\ Command /\ current[1] = pinned
    /\ current' = <<pinned, trusted>>
    /\ published' = [current |-> current', blocks |-> blocks]
    /\ UNCHANGED <<host, blocks>>

\* rotation_preflight and _pair: the contract that the PinVi source vendors has
\* the digests of the Map source's surfaces.
PairAgrees(p) == p \in Agreeing

\* pin rotate-pair, which binds the new execution too; the wrapper script asks
\* rotation_preflight first, the command itself does not.
Rotate(p) ==
    /\ Command /\ p # pinned
    /\ pinned' = p /\ current' = <<p, trusted>>
    /\ published' = [current |-> current', blocks |-> blocks]
    /\ UNCHANGED <<trusted, deployed, blocks>>

\* A pinned rebuild commits, or dies with its status in progress.
Deploy ==
    /\ Command /\ deployed' \in {pinned, Nothing} \ {deployed}
    /\ UNCHANGED <<pinned, trusted, registry>>

-----------------------------------------------------------------------------
\* The gates a run passes before it claims anything.

\* _cmd_pin_verify as the launcher reads it.
PinVerify == CurrentMatches /\ ~Burned(current) /\ Published

\* _assert_current_m05_execution_is_runnable, for a driver that loaded pinset p.
Runnable(p) ==
    /\ p = pinned /\ CurrentMatches
    /\ ~Burned(current) /\ ~HasBlock(current, "consumed")

\* _source_pair_preflight: the last deploy committed this pinset, and the pair agrees.
SourcePair(p) == deployed = p /\ PairAgrees(p)

\* --preflight: what the launcher asks before it makes the leaf.
Preflight == Runnable(pinned) /\ SourcePair(pinned)

StartDriver(rehearse) ==
    /\ pc = "off" /\ launcher = "idle"
    /\ pc' = "admit" /\ run' = NewRun(rehearse) /\ exit' = "none"
    /\ leaf' = NewLeaf /\ projects' = {} /\ secrets' = FALSE /\ surprised' = FALSE
    /\ UNCHANGED <<host, registry, ledger, passed, scenario, history, commands>>

Launch == PinVerify /\ Preflight /\ StartDriver(FALSE) /\ launcher' = "waiting"
Rehearse == StartDriver(TRUE) /\ UNCHANGED launcher

-----------------------------------------------------------------------------
\* The driver's try: every step may raise.
At(step) == pc = step
Goto(step) == pc' = step /\ UNCHANGED <<run, exit>>
Raise(phase) == pc' = "cleanup" /\ run' = [run EXCEPT !.phase = phase] /\ UNCHANGED exit
Outside == UNCHANGED <<host, registry, launcher, commands>>
Pure == Outside /\ UNCHANGED <<disk, world, history>>

\* _validate_trusted_release, the runnable assertion, the ledger root, the plan.
Admit ==
    /\ At("admit") /\ Pure
    /\ \/ leaf.id[2] = trusted /\ Runnable(leaf.id[1]) /\ Goto("source")
       \/ Raise("preclaim")

MaterializeSources ==
    /\ At("source") /\ Pure
    /\ (SourcePair(leaf.id[1]) /\ Goto("setup")) \/ Raise("preclaim")

\* Ports, run checkouts, admission, network, credentials, Map's env and override.
\* The list of private files is complete before the first is written.
SetUp ==
    /\ At("setup")
    /\ \/ Goto("render") /\ secrets' = TRUE
       \/ Raise("preclaim") /\ secrets' \in BOOLEAN
    /\ Outside /\ UNCHANGED <<disk, projects, surprised, scenario, history>>

\* The rendered publish, the fresh-init service and the Playwright runner are
\* judged; a rehearsal stops here.
Render ==
    /\ At("render") /\ Pure
    /\ \/ ~run.rehearse /\ Goto("claim")
       \/ run.rehearse /\ Raise("rehearsed")
       \/ Raise("preclaim")

\* Mutant: the last name of the ledger is taken twice.
LedgerFull_Late(id) == ledger[id] > LedgerLimit

\* The bounded list of a claim's names: the first, then the numbered ones.
LedgerFull(id) == ledger[id] = LedgerLimit

\* claim_m05_isolated_harness_ledger: one more claim of the identity.
Claim ==
    /\ At("claim")
    /\ run' = [run EXCEPT !.claim = TRUE, !.phase = "ledger_claim"] /\ UNCHANGED exit
    /\ LET id == leaf.id  full == LedgerFull(id) IN
       \/ ~full /\ ledger' = [ledger EXCEPT ![id] = @ + 1] /\ pc' = "mark" /\ UNCHANGED faults
       \/ full /\ pc' = "cleanup" /\ UNCHANGED <<ledger, faults>>
       \/ ~full /\ Fault /\ ledger' \in {ledger, [ledger EXCEPT ![id] = @ + 1]} /\ pc' = "cleanup"
    /\ Outside /\ UNCHANGED <<leaf, passed, world, accounts>>

\* The claimed marker, by whose presence the launcher judges a lost receipt.
Mark ==
    /\ At("mark")
    /\ LET marked == [leaf EXCEPT !.claimed = TRUE] IN
       \/ leaf' = marked /\ Goto("config") /\ UNCHANGED faults
       \/ Fault /\ leaf' \in {leaf, marked} /\ Raise("ledger_claim")
    /\ Outside /\ UNCHANGED <<ledger, passed, world, accounts>>

\* PinVi's env and override.
Configure == At("config") /\ Pure /\ (Goto("map") \/ Raise("infra"))

\* Mutant: the cleanup handle is taken once the project is up.
Up_LateHandle(project, next) ==
    /\ \/ pc' = next /\ run' = [run EXCEPT !.handles = @ \cup {project}]
          /\ projects' = projects \cup {project}
       \/ pc' = "cleanup" /\ run' = [run EXCEPT !.phase = "infra"]
          /\ projects' \in {projects, projects \cup {project}}
    /\ UNCHANGED exit /\ Outside /\ UNCHANGED <<disk, secrets, surprised, scenario, history>>

\* A compose project comes up; its cleanup handle is taken before the first up.
Up(project, next) ==
    /\ LET held == [run EXCEPT !.handles = @ \cup {project}] IN
       \/ pc' = next /\ run' = held /\ projects' = projects \cup {project}
       \/ pc' = "cleanup" /\ run' = [held EXCEPT !.phase = "infra"]
          /\ projects' \in {projects, projects \cup {project}}
    /\ UNCHANGED exit /\ Outside /\ UNCHANGED <<disk, secrets, surprised, scenario, history>>

\* Map: postgres, the fresh-init one-shot, the application, its published health.
MapRuntime == At("map") /\ Up("map", "subscribe")
Subscribe == At("subscribe") /\ Pure /\ (Goto("pinvi") \/ Raise("infra"))
PinviRuntime == At("pinvi") /\ Up("pinvi", "provenance")

\* _build_runtime_provenance: every container and image inspected against the plan.
Provenance == At("provenance") /\ Pure /\ (Goto("body") \/ Raise("infra"))

\* body_entered, before the first step of the body.
EnterBody ==
    /\ At("body") /\ pc' = "request"
    /\ run' = [run EXCEPT !.body = TRUE, !.phase = "body"] /\ UNCHANGED exit
    /\ bodies' = [bodies EXCEPT ![leaf.id] = @ + 1]
    /\ Outside /\ UNCHANGED <<disk, world, faults, lost, crashes>>

\* A body step raises a phase of its own, or one that a shared helper names.
BodyRaises == Raise("body") \/ Raise("infra")
BodyStep(step, next) == At(step) /\ Pure /\ (Goto(next) \/ BodyRaises)

\* M04: a feature request in PinVi and its attestation, the approval in Map, the
\* provenance of the approved Feature; then the provider fixture of M05.
Request == BodyStep("request", "approve")
Approve == BodyStep("approve", "resolve")
Resolve == BodyStep("resolve", "fixture")
SeedFixture == BodyStep("fixture", "refer")

\* _seed_pinvi_feature_reference: a user's reference that the rebind must rewrite.
SeedReference ==
    /\ At("refer")
    /\ \/ Goto("decide") /\ refs' = "seeded"
       \/ BodyRaises /\ refs' \in {refs, "seeded"}
    /\ Outside /\ UNCHANGED <<disk, resources, merged, answer, history>>

\* _resolve_m05_case: Map merges the manual Feature into the provider's.
Decide ==
    /\ At("decide")
    /\ \/ Goto("await") /\ merged' = TRUE
       \/ BodyRaises /\ merged' \in BOOLEAN
    /\ Outside /\ UNCHANGED <<disk, resources, refs, answer, history>>

\* PinVi's worker reads the decision and rewrites the references it finds.
PinviReconciles ==
    /\ merged /\ answer = Nothing /\ "pinvi" \in projects
    /\ \/ refs = "seeded" /\ refs' = "rebound" /\ answer' = "applied"
       \/ refs' = refs /\ answer' = "blocked"
    /\ UNCHANGED <<host, registry, disk, launcher, driver, resources, merged, history, commands>>

\* Mutant: the receipt's status is not read.
ReceiptSuffices_AnyStatus == answer # Nothing

\* _wait_for_pinvi_receipt takes the applied status alone, and the impact must
\* reach the references seeded.
ReceiptSuffices == answer = "applied" /\ refs = "rebound"

\* Until then the receipt is asked for again, a bounded number of times.
AwaitReceipt == At("await") /\ Pure /\ ((ReceiptSuffices /\ Goto("attest")) \/ BodyRaises)

\* The live attestation, whose evidence the leaf keeps.
Attest ==
    /\ At("attest")
    /\ \/ /\ leaf' = [leaf EXCEPT !.impact = (refs = "rebound")]
          /\ pc' = "cleanup" /\ run' = [run EXCEPT !.done = TRUE] /\ UNCHANGED exit
       \/ BodyRaises /\ UNCHANGED leaf
    /\ Outside /\ UNCHANGED <<ledger, passed, world, history>>

-----------------------------------------------------------------------------
\* The driver's finally.

\* _UNCONDITIONAL_TERMINAL_PHASES and the m04_ and m05_ phases.
IsUnconditional(phase) == phase \in {"ledger_claim", "body"}

\* Mutant: an unexpected error leaves the success as it is.
TakesBack_Failed(failed, unexpected) == failed

\* A step of the cleanup that fails raises a _PhaseError (cleanup_failed) or
\* another error (unexpected_failure).  Both take the success back.
TakesBack(failed, unexpected) == failed \/ unexpected

\* What has a handle is removed, and may resist.  A failed cleanup renames a
\* failure that is no terminal one; it is told on stderr, and cleanup_failed in
\* the receipt too.
Cleanup ==
    /\ At("cleanup") /\ pc' = "record" /\ UNCHANGED exit
    /\ \E kept \in SUBSET (projects \cap run.handles), stays \in {FALSE, secrets},
          failed, unexpected \in BOOLEAN :
          LET back == TakesBack(failed, unexpected)
              renamed == back /\ run.claim /\ ~run.body /\ ~IsUnconditional(run.phase) IN
          /\ kept # {} \/ stays => failed \/ unexpected
          /\ projects' = (projects \ run.handles) \cup kept /\ secrets' = stays
          /\ surprised' = unexpected
          /\ run' = [run EXCEPT !.failed = failed, !.done = @ /\ ~back,
                                !.phase = IF renamed THEN "cleanup" ELSE @]
    /\ Outside /\ UNCHANGED <<disk, scenario, history>>

\* Mutant: a helper's phase decides, in the body as before it.
BlockPhase_OfHelper == IF IsUnconditional(run.phase) THEN "none" ELSE run.phase

\* _terminal_block_phase, forced once the body was entered.
BlockPhase == IF run.body \/ IsUnconditional(run.phase) THEN "none" ELSE run.phase

\* _block_terminal_m05_execution after a failure.
RecordFailure ==
    /\ At("record") /\ run.claim /\ ~run.done /\ pc' = "receipt"
    /\ \/ WriteBlocks(Blocked(leaf.id, BlockPhase)) /\ UNCHANGED run
       \/ FailToWriteBlocks(Blocked(leaf.id, BlockPhase)) /\ run' = [run EXCEPT !.phase = "unrecorded"]
    /\ UNCHANGED <<host, disk, launcher, exit, world, accounts, commands>>

\* consume_current_m05_execution after a success: its failure leaves a marker and
\* does not undo the success.
RecordConsumed ==
    /\ At("record") /\ run.claim /\ run.done /\ Goto("receipt")
    /\ \/ WriteBlocks(Blocked(leaf.id, "consumed"))
       \/ FailToWriteBlocks(Blocked(leaf.id, "consumed"))
    /\ UNCHANGED <<host, disk, launcher, world, accounts, commands>>

RecordNothing == At("record") /\ ~run.claim /\ Goto("receipt") /\ Pure

\* A rehearsal asks cleanup_failed alone; the status of any other run went back with done.
Status == IF run.rehearse THEN IF run.phase = "rehearsed" /\ ~run.failed
                                THEN "rehearsed" ELSE "rehearsal_failed"
          ELSE IF run.done THEN "passed"
          ELSE IF run.claim THEN "blocked" ELSE "preflight_rejected"

\* result.json or rehearsal.json, made once; without it the run is no success.
WriteReceipt ==
    /\ At("receipt") /\ pc' = "exit" /\ UNCHANGED run
    /\ LET signed == [leaf EXCEPT !.receipt = [status |-> Status, failed |-> run.failed]] IN
       \/ /\ leaf' = signed /\ passed' = IF run.done THEN passed \cup {signed} ELSE passed
          /\ exit' = IF Status \in {"passed", "rehearsed"} THEN "ok" ELSE "fail"
          /\ UNCHANGED faults
       \/ Fault /\ exit' = "fail" /\ UNCHANGED <<leaf, passed>>
    /\ Outside /\ UNCHANGED <<ledger, world, accounts>>

\* A process that ends takes its locals with it, and its scenario is over.
Gone ==
    /\ pc' = "off" /\ run' = NewRun(FALSE)
    /\ refs' = "absent" /\ merged' = FALSE /\ answer' = Nothing
    /\ Outside /\ UNCHANGED <<disk, resources, bodies, faults, lost>>

\* The exit status is there for a launcher that waits.
Ends(status) == exit' = IF launcher = "waiting" THEN status ELSE "none"
DriverExits == At("exit") /\ Gone /\ Ends(exit) /\ UNCHANGED crashes

\* SIGKILL, or the host's end: nothing of the finally runs.
KillDriver ==
    /\ pc # "off" /\ Gone /\ Ends("killed")
    /\ crashes' = IF leaf.claimed THEN crashes \cup {leaf.id} ELSE crashes

-----------------------------------------------------------------------------
\* The launcher, after its driver.
Judging == exit' = "none" /\ UNCHANGED <<host, disk, pc, run, world, accounts, commands>>

\* Tier 1 of the validator: the receipt says passed just when the driver returned zero.
Bound == leaf.receipt # Nothing /\ (leaf.receipt.status = "passed") = (exit = "ok")

\* Mutant: without a receipt the identity is burned, claimed or not.
BurnsUnread_Always == TRUE

\* Without a receipt, the marker tells a run that claimed from one that did not.
BurnsUnread == leaf.claimed

Judge ==
    /\ launcher = "waiting" /\ pc = "off"
    /\ \/ /\ Bound /\ UNCHANGED faults
          /\ launcher' = IF leaf.receipt.status = "blocked" THEN "probe" ELSE "idle"
       \/ /\ (~Bound /\ UNCHANGED faults) \/ (Bound /\ Fault)
          /\ launcher' = IF BurnsUnread THEN "burn" ELSE "idle"
    /\ Judging /\ UNCHANGED registry

\* has_any_terminal_execution_block: any record of the identity keeps the driver's
\* verdict; an unreadable registry is not a missing record.
Probe ==
    /\ launcher = "probe"
    /\ \/ /\ launcher' = IF \E b \in blocks : b.id = leaf.id THEN "idle" ELSE "burn"
          /\ UNCHANGED faults
       \/ Fault /\ launcher' = "idle"
    /\ Judging /\ UNCHANGED registry

\* pin block-execution under the inherited lock.  The check that the block is
\* durable and launcher-result.json decide no more than the exit status.
Burn ==
    /\ launcher = "burn" /\ launcher' = "idle"
    /\ CurrentMatches
    /\ WriteBlocks(Blocked(leaf.id, "none")) \/ FailToWriteBlocks(Blocked(leaf.id, "none"))
    /\ Judging

\* The lock stays with the driver, if there is one.
KillLauncher ==
    /\ launcher # "idle" /\ launcher' = "idle"
    /\ exit' = IF pc = "off" THEN "none" ELSE exit
    /\ FaultsLeft
    /\ lost' = [lost EXCEPT ![leaf.id] = @ + 1]
    /\ UNCHANGED <<host, registry, disk, pc, run, world, bodies, crashes, faults, commands>>

-----------------------------------------------------------------------------
Zero == [id \in Identity |-> 0]

Init ==
    /\ pinned \in Agreeing /\ trusted \in Managers /\ deployed = pinned
    /\ current = <<pinned, trusted>> /\ blocks = {}
    /\ published = [current |-> current, blocks |-> blocks]
    /\ ledger = Zero /\ leaf = NewLeaf /\ passed = {}
    /\ launcher = "idle" /\ pc = "off" /\ run = NewRun(FALSE) /\ exit = "none"
    /\ projects = {} /\ secrets = FALSE /\ surprised = FALSE
    /\ refs = "absent" /\ merged = FALSE /\ answer = Nothing
    /\ bodies = Zero /\ faults = Zero /\ lost = Zero /\ crashes = {} /\ commands = 0

Operator == \/ \E m \in Managers : Install(m)
            \/ \E p \in Pinsets : Rotate(p)
            \/ Rebind \/ Deploy
PreClaim == Admit \/ MaterializeSources \/ SetUp \/ Render
Runtime == Claim \/ Mark \/ Configure \/ MapRuntime \/ Subscribe \/ PinviRuntime \/ Provenance
Body == \/ EnterBody \/ Request \/ Approve \/ Resolve \/ SeedFixture
        \/ SeedReference \/ Decide \/ AwaitReceipt \/ Attest
Finally == Cleanup \/ RecordFailure \/ RecordConsumed \/ RecordNothing \/ WriteReceipt \/ DriverExits
Launcher == Judge \/ Probe \/ Burn

Next == \/ Operator \/ Launch \/ Rehearse
        \/ PreClaim \/ Runtime \/ Body \/ Finally \/ KillDriver
        \/ PinviReconciles \/ Launcher \/ KillLauncher

Spec == Init /\ [][Next]_vars

-----------------------------------------------------------------------------
Steps == {"off", "admit", "source", "setup", "render", "claim", "mark", "config", "map",
          "subscribe", "pinvi", "provenance", "body", "request", "approve", "resolve", "fixture",
          "refer", "decide", "await", "attest", "cleanup", "record", "receipt", "exit"}

\* Every variable keeps its type.
TypeOK ==
    /\ pinned \in Pinsets /\ trusted \in Managers /\ deployed \in Pinsets \cup {Nothing}
    /\ current \in Identity /\ blocks \in SUBSET Blocks
    /\ published \in [current : Identity, blocks : SUBSET Blocks]
    /\ ledger \in [Identity -> 0..LedgerLimit]
    /\ leaf \in Leaves /\ passed \in SUBSET Leaves
    /\ launcher \in {"idle", "waiting", "probe", "burn"}
    /\ pc \in Steps /\ exit \in {"none", "ok", "fail", "killed"}
    /\ run \in [rehearse : BOOLEAN, claim : BOOLEAN, body : BOOLEAN, done : BOOLEAN,
                failed : BOOLEAN, phase : Phases, handles : SUBSET {"map", "pinvi"}]
    /\ projects \in SUBSET {"map", "pinvi"} /\ secrets \in BOOLEAN
    /\ surprised \in BOOLEAN
    /\ refs \in {"absent", "seeded", "rebound"} /\ merged \in BOOLEAN
    /\ answer \in {Nothing, "applied", "blocked"}
    /\ bodies \in [Identity -> Nat] /\ faults \in [Identity -> Nat]
    /\ lost \in [Identity -> Nat] /\ crashes \in SUBSET Identity /\ commands \in 0..MaxCommands

\* One-shot ("the acceptance body runs exactly once": main, the launcher, and
\* docs/runtime-pin-registry.md): the body of an identity is entered a second
\* time only on the account of a failed read or write or of a killed launcher,
\* and each of these accounts for one more at most.  Kills of the driver,
\* failed runs, releases and rotations in between account for none.
BodyAtMostOnce == \A id \in Identity : bodies[id] <= 1 + faults[id] + lost[id]

\* An identity is burned only by use: its body was entered, its ledger was
\* full, a read or write failed, or its driver was killed after the claim.  A
\* failure before the claim, and one of the infrastructure after it, leaves it
\* runnable (_UNCONDITIONAL_TERMINAL_PHASES in the driver; "burning needs
\* positive evidence" in the launcher).
BurnIsEarned ==
    \A id \in Identity : Burned(id) =>
        bodies[id] > 0 \/ faults[id] > 0 \/ ledger[id] = LedgerLimit \/ id \in crashes

\* verify_leaf: the promotion gate, read from a leaf and the live registries.
VerifyLeaf(l) ==
    /\ l.receipt # Nothing /\ l.receipt.status = "passed"
    /\ l.id[1] = pinned /\ ledger[l.id] > 0 /\ ~Burned(l.id)

\* A leaf that verifies is evidence of a reference really rewritten, and its
\* identity cannot run again unless recording that failed: what was promoted
\* is never put to the test a second time.
VerifiedLeafIsFinal ==
    \A l \in passed : VerifyLeaf(l) =>
        l.impact /\ (HasBlock(l.id, "consumed") \/ faults[l.id] > 0)

\* A driver that ended by itself and left a project or a private file of its run
\* says so: it does not call the run passed, and its receipt has cleanup_failed
\* (and its rehearsal failed) unless the cleanup caught an error that is no
\* _PhaseError.  Such an error the receipt does not carry
\* (unexpected_finalization_failure in main): stderr alone has it, beside a
\* cleanup_failed of false or a rehearsal called rehearsed.
LeftoversAreReported ==
    leaf.receipt # Nothing /\ (projects # {} \/ secrets) =>
        /\ leaf.receipt.status # "passed"
        /\ surprised \/ (leaf.receipt.failed /\ leaf.receipt.status # "rehearsed")
=============================================================================
