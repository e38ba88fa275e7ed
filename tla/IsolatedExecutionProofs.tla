------------------------ MODULE IsolatedExecutionProofs ------------------------
(***************************************************************************)
(* Proofs about IsolatedExecution: how often the body of an identity runs, *)
(* what burns an identity, what a passed leaf stands for and what a run    *)
(* leaves behind, for any pinsets, Manager revisions, ledger, faults and   *)
(* kills.                                                                  *)
(***************************************************************************)
EXTENDS IsolatedExecution, TLAPS

-----------------------------------------------------------------------------
(* The course of the driver.                                                 *)

Runs == [rehearse : BOOLEAN, claim : BOOLEAN, body : BOOLEAN, done : BOOLEAN,
         failed : BOOLEAN, phase : Phases, handles : SUBSET {"map", "pinvi"}]

Asking == {"admit", "source", "setup", "render"}
Claiming == {"claim", "mark"}
Building == {"config", "map", "subscribe", "pinvi", "provenance"}
Trying == {"request", "approve", "resolve", "fixture", "refer", "decide", "await", "attest"}
Closing == {"cleanup", "record"}
Closed == {"receipt", "exit"}

\* A step on the way, or one that raises on it: it changes the driver's own state alone.
Walk ==
    /\ UNCHANGED <<host, registry, disk, launcher, exit, history, commands>>
    /\ run' \in Runs /\ run'.rehearse = run.rehearse /\ run'.claim = run.claim
    /\ run'.body = run.body /\ run'.done = run.done /\ run'.failed = run.failed
    /\ \/ pc \in Asking /\ pc' \in Asking /\ run'.phase = run.phase
       \/ pc \in Asking /\ pc' = "claim" /\ ~run.rehearse /\ run'.phase = run.phase
       \/ pc \in Asking /\ pc' = "cleanup" /\ run'.phase \in {"preclaim", "rehearsed"}
       \/ pc \in Building /\ pc' \in Building \cup {"body"} /\ run'.phase = run.phase
       \/ pc \in Building /\ pc' = "cleanup" /\ run'.phase = "infra"
       \/ pc \in Trying /\ pc' \in Trying /\ run'.phase = run.phase
       \/ pc \in Trying /\ pc' = "cleanup" /\ run'.phase \in {"body", "infra"}

\* The body has passed, and its evidence is in the leaf.
Attested ==
    /\ pc = "attest" /\ pc' = "cleanup" /\ run' = [run EXCEPT !.done = TRUE]
    /\ leaf' = [leaf EXCEPT !.impact = (refs = "rebound")]
    /\ UNCHANGED <<host, registry, ledger, passed, launcher, exit, world, history, commands>>

-----------------------------------------------------------------------------
(* The inductive invariants.                                                 *)

\* No run of the identity is admitted.
Terminal(id) == Burned(id) \/ HasBlock(id, "consumed")

\* Where the driver and the launcher stand, what they know of the run.
CourseInv ==
    /\ launcher \in {"probe", "burn"} => pc = "off"
    /\ launcher = "probe" => leaf.receipt # Nothing
    /\ pc # "off" /\ run.rehearse => launcher = "idle" /\ pc \in Asking \cup Closing \cup Closed
    /\ pc = "off" \/ run.rehearse \/ pc \in Asking \cup {"claim"} => ~run.claim
    /\ pc \in {"mark", "body"} \cup Building \cup Trying => run.claim
    /\ pc \in Asking \cup Claiming \cup Building \cup {"body", "off"} => ~run.body
    /\ pc \in Trying => run.body
    /\ run.body => run.claim
    /\ run.done => run.body /\ pc \in Closing \cup Closed
    /\ pc \notin {"exit", "off"} => leaf.receipt = Nothing
    /\ run.body \/ pc \in Building \cup {"body"} => leaf.claimed
    /\ pc \notin {"off"} \cup Closed /\ ~run.rehearse => ~Terminal(leaf.id)

\* The run in whose body the identity is may still be recorded or burned by the launcher.
Owed(id) ==
    /\ leaf.id = id /\ launcher # "idle"
    /\ \/ pc \in Trying \cup Closing /\ run.body
       \/ pc = "off" /\ leaf.claimed /\ leaf.receipt = Nothing
       \/ launcher = "burn"

\* The run will enter the body without a launcher that could burn the identity.
Ahead(id) ==
    /\ leaf.id = id /\ launcher = "idle" /\ ~run.rehearse
    /\ pc \in Asking \cup Claiming \cup Building \cup {"body"}

\* A body that is over left a terminal block, a fault or a killed launcher.
BodiesInv ==
    \A id \in Identity :
        /\ bodies[id] <= 1 + faults[id] + lost[id]
        /\ ~Terminal(id) /\ ~Owed(id) => bodies[id] <= faults[id] + lost[id]
        /\ Ahead(id) => bodies[id] < faults[id] + lost[id]

Earned(id) == bodies[id] > 0 \/ faults[id] > 0 \/ ledger[id] = LedgerLimit \/ id \in crashes
Recorded(id) == (\E b \in blocks : b.id = id) \/ faults[id] > 0

\* How the last driver ended is what its receipt says, or the receipt was lost.
Truthful(status) ==
    \/ status = "killed" /\ (leaf.claimed => leaf.id \in crashes)
    \/ status = "ok" /\ leaf.receipt # Nothing /\ leaf.receipt.status = "passed"
    \/ status = "fail" /\ leaf.receipt # Nothing /\ leaf.receipt.status # "passed"
    \/ status = "fail" /\ leaf.receipt = Nothing /\ faults[leaf.id] > 0

\* What burns an identity has a cause; what goes without a burn is on record.
CauseInv ==
    /\ \A id \in Identity : Burned(id) => Earned(id)
    /\ run.body => bodies[leaf.id] > 0
    /\ pc \in Trying => run.phase = "body"
    /\ run.phase = "body" => run.body
    /\ pc \in Closing /\ run.phase = "ledger_claim" =>
          faults[leaf.id] > 0 \/ ledger[leaf.id] = LedgerLimit
    /\ pc = "receipt" /\ run.claim => Recorded(leaf.id)
    /\ leaf.receipt # Nothing /\ leaf.receipt.status = "blocked" => Recorded(leaf.id)
    /\ pc = "exit" => exit \in {"ok", "fail"} /\ (run.rehearse \/ Truthful(exit))
    /\ pc = "off" /\ launcher = "waiting" => Truthful(exit)
    /\ launcher = "probe" => leaf.receipt.status = "blocked"
    /\ launcher = "burn" => Earned(leaf.id)

Consumed(id) == HasBlock(id, "consumed") \/ faults[id] > 0

\* A run that is done has seen its reference rewritten and will not be repeated.
EvidenceInv ==
    /\ pc = "attest" => refs = "rebound" /\ answer # Nothing
    /\ run.done => leaf.impact
    /\ run.done /\ pc = "receipt" => Consumed(leaf.id)
    /\ \A l \in passed : l.impact /\ Consumed(l.id)

Leftovers == projects # {} \/ secrets
Admits(receipt) == receipt.failed /\ receipt.status # "rehearsed"

\* What is up has a handle, and what a cleanup leaves is known.
ResourceInv ==
    /\ pc # "off" => projects \subseteq run.handles
    /\ pc \in {"record", "receipt"} /\ Leftovers => ~run.done /\ (run.failed \/ surprised)
    /\ leaf.receipt # Nothing /\ Leftovers =>
          leaf.receipt.status # "passed" /\ (Admits(leaf.receipt) \/ surprised)

RunInv == TypeOK /\ CourseInv /\ BodiesInv /\ CauseInv /\ EvidenceInv /\ ResourceInv

-----------------------------------------------------------------------------
(* The steps.                                                                *)

LEMMA RunUpdates ==
    ASSUME run \in Runs
    PROVE  /\ \A step : Goto(step) => pc' = step /\ run' = run /\ exit' = exit
           /\ \A phase \in Phases : Raise(phase) =>
                 /\ pc' = "cleanup" /\ exit' = exit
                 /\ run' \in Runs /\ run'.phase = phase /\ run'.rehearse = run.rehearse
                 /\ run'.claim = run.claim /\ run'.body = run.body /\ run'.done = run.done
                 /\ run'.failed = run.failed /\ run'.handles = run.handles
BY DEF Goto, Raise, Runs

LEMMA Walks ==
    ASSUME TypeOK,
           \/ PreClaim \/ Configure \/ Subscribe \/ Provenance \/ MapRuntime \/ PinviRuntime
           \/ Request \/ Approve \/ Resolve \/ SeedFixture \/ SeedReference \/ Decide \/ AwaitReceipt
           \/ Attest
    PROVE  Walk \/ Attested
<1>0. run \in Runs /\ {"preclaim", "rehearsed", "infra", "body"} \subseteq Phases
  BY DEF TypeOK, Runs, Phases
<1> USE RunUpdates, <1>0
    DEF Walk, Pure, Outside, disk, world, history, At, Asking, Building, Trying
<1>1. CASE Admit \/ MaterializeSources \/ SetUp \/ Render
  BY <1>1 DEF Admit, MaterializeSources, SetUp, Render
<1>2. CASE Configure \/ Subscribe \/ Provenance
  BY <1>2 DEF Configure, Subscribe, Provenance
<1>3. ASSUME NEW project \in {"map", "pinvi"}, NEW next \in Building, At(project) , Up(project, next)
      PROVE  Walk
  <2>1. [run EXCEPT !.handles = @ \cup {project}] \in Runs
    BY <1>3 DEF Runs
  <2>2. \/ pc' = next /\ run' = [run EXCEPT !.handles = @ \cup {project}]
        \/ pc' = "cleanup" /\ run' = [[run EXCEPT !.handles = @ \cup {project}] EXCEPT !.phase = "infra"]
    BY <1>3 DEF Up
  <2>3. UNCHANGED <<host, registry, disk, launcher, exit, history, commands>>
    BY <1>3 DEF Up
  <2> QED BY <1>3, <2>1, <2>2, <2>3 DEF Runs
<1>4. CASE MapRuntime \/ PinviRuntime
  BY <1>3, <1>4 DEF MapRuntime, PinviRuntime
<1>5. CASE Request \/ Approve \/ Resolve \/ SeedFixture
  BY <1>5 DEF Request, Approve, Resolve, SeedFixture, BodyStep, BodyRaises
<1>6. CASE SeedReference \/ Decide \/ AwaitReceipt
  BY <1>6 DEF SeedReference, Decide, AwaitReceipt, BodyRaises
<1>7. CASE Attest
  BY <1>7 DEF Attest, BodyRaises, Attested
<1> QED BY <1>1, <1>2, <1>4, <1>5, <1>6, <1>7 DEF PreClaim

LEMMA NextCases ==
    ASSUME TypeOK, [Next]_vars
    PROVE  \/ Operator \/ Launch \/ Rehearse
           \/ Walk \/ Attested \/ Claim \/ Mark \/ EnterBody
           \/ Cleanup \/ RecordFailure \/ RecordConsumed \/ RecordNothing \/ WriteReceipt
           \/ DriverExits \/ KillDriver \/ PinviReconciles \/ Judge \/ Probe \/ Burn \/ KillLauncher
           \/ UNCHANGED vars
BY Walks DEF Next, Runtime, Body, Finally, Launcher

-----------------------------------------------------------------------------
(* Types.                                                                    *)

\* The variables of the run, of the world outside and of the accounts.
RegistryTypes ==
    /\ pinned \in Pinsets /\ trusted \in Managers /\ deployed \in Pinsets \cup {Nothing}
    /\ current \in Identity /\ blocks \in SUBSET Blocks
    /\ published \in [current : Identity, blocks : SUBSET Blocks] /\ commands \in 0..MaxCommands
DiskTypes ==
    /\ ledger \in [Identity -> 0..LedgerLimit] /\ leaf \in Leaves /\ passed \in SUBSET Leaves
DriverTypes ==
    /\ launcher \in {"idle", "waiting", "probe", "burn"}
    /\ pc \in Steps /\ exit \in {"none", "ok", "fail", "killed"} /\ run \in Runs
WorldTypes ==
    /\ projects \in SUBSET {"map", "pinvi"} /\ secrets \in BOOLEAN /\ surprised \in BOOLEAN
    /\ refs \in {"absent", "seeded", "rebound"} /\ merged \in BOOLEAN
    /\ answer \in {Nothing, "applied", "blocked"}
AccountTypes ==
    /\ bodies \in [Identity -> Nat] /\ faults \in [Identity -> Nat]
    /\ lost \in [Identity -> Nat] /\ crashes \in SUBSET Identity

LEMMA TypeParts ==
    /\ TypeOK <=> RegistryTypes /\ DiskTypes /\ DriverTypes /\ WorldTypes /\ AccountTypes
    /\ TypeOK' <=> RegistryTypes' /\ DiskTypes' /\ DriverTypes' /\ WorldTypes' /\ AccountTypes'
BY DEF TypeOK, RegistryTypes, DiskTypes, DriverTypes, WorldTypes, AccountTypes, Runs

LEMMA LeafId ==
    ASSUME leaf \in Leaves
    PROVE  leaf.id \in Identity
BY DEF Leaves

LEMMA NewRunType == NewRun(FALSE) \in Runs /\ NewRun(TRUE) \in Runs
BY DEF NewRun, Runs, Phases

LEMMA NewLeafType ==
    ASSUME pinned \in Pinsets, trusted \in Managers
    PROVE  NewLeaf \in Leaves
BY DEF NewLeaf, Leaves, Identity

LEMMA BlockedType ==
    ASSUME blocks \subseteq Blocks, NEW id \in Identity, NEW phase \in Phases \cup {"none", "consumed"}
    PROVE  Blocked(id, phase) \subseteq Blocks
BY DEF Blocked, Blocks

LEMMA FaultType ==
    ASSUME TypeOK, Fault
    PROVE  /\ faults' \in [Identity -> Nat] /\ faults'[leaf.id] = faults[leaf.id] + 1
           /\ \A id \in Identity : id # leaf.id => faults'[id] = faults[id]
BY LeafId DEF Fault, TypeOK

LEMMA RegistryTypesKept ==
    ASSUME TypeOK, [Next]_vars
    PROVE  RegistryTypes'
<1> USE DEF RegistryTypes, host, registry, vars
<1>0. RegistryTypes /\ leaf.id \in Identity /\ run \in Runs
  BY TypeParts, LeafId DEF DiskTypes, DriverTypes
<1>1. CASE Operator
  <2>1. commands' \in 0..MaxCommands
    BY <1>1, <1>0, BoundAssumption DEF Operator, Install, Rotate, Rebind, Deploy, Command
  <2>2. UNCHANGED blocks
    BY <1>1 DEF Operator, Install, Rotate, Rebind, Deploy
  <2>3. pinned' \in Pinsets /\ trusted' \in Managers /\ deployed' \in Pinsets \cup {Nothing}
    BY <1>0, <1>1 DEF Operator, Install, Rotate, Rebind, Deploy
  <2>4. current' = current \/ current' = <<pinned', trusted'>>
    BY <1>1 DEF Operator, Install, Rotate, Rebind, Deploy
  <2>5. published' = published \/ published' = [current |-> current', blocks |-> blocks]
    BY <1>1 DEF Operator, Install, Rotate, Rebind, Deploy
  <2> QED BY <1>0, <2>1, <2>2, <2>3, <2>4, <2>5 DEF Identity
<1>2. ASSUME NEW new \in SUBSET Blocks, WriteBlocks(new) \/ FailToWriteBlocks(new),
             UNCHANGED <<host, commands>>
      PROVE  RegistryTypes'
  BY <1>0, <1>2 DEF WriteBlocks, FailToWriteBlocks
<1>3. CASE RecordFailure
  BY <1>0, <1>2, <1>3, BlockedType DEF RecordFailure, BlockPhase, Runs
<1>4. CASE RecordConsumed
  BY <1>0, <1>2, <1>4, BlockedType DEF RecordConsumed
<1>5. CASE Burn
  BY <1>0, <1>2, <1>5, BlockedType DEF Burn, Judging
<1>6. CASE Walk \/ Attested
  BY <1>0, <1>6 DEF Walk, Attested
<1>7. CASE Launch \/ Rehearse \/ KillDriver \/ DriverExits \/ PinviReconciles
  BY <1>0, <1>7 DEF Launch, Rehearse, StartDriver, KillDriver, DriverExits, Gone, Outside, PinviReconciles
<1>8. CASE Claim \/ Mark \/ EnterBody \/ Cleanup \/ RecordNothing \/ WriteReceipt
  BY <1>0, <1>8 DEF Claim, Mark, EnterBody, Cleanup, RecordNothing, WriteReceipt, Pure, Outside
<1>9. CASE Judge \/ Probe \/ KillLauncher
  BY <1>0, <1>9 DEF Judge, Probe, KillLauncher, Judging
<1> QED BY NextCases, <1>0, <1>1, <1>3, <1>4, <1>5, <1>6, <1>7, <1>8, <1>9

LEMMA DiskTypesKept ==
    ASSUME TypeOK, [Next]_vars
    PROVE  DiskTypes'
<1> USE DEF DiskTypes, disk, vars
<1>0. DiskTypes /\ leaf.id \in Identity /\ run \in Runs /\ NewLeaf \in Leaves
  BY TypeParts, LeafId, NewLeafType DEF DiskTypes, DriverTypes, RegistryTypes
<1>1. CASE Launch \/ Rehearse
  BY <1>0, <1>1 DEF Launch, Rehearse, StartDriver
<1>2. CASE Claim
  <2>1. leaf' = leaf /\ passed' = passed
    BY <1>2 DEF Claim
  <2>2. ledger' = ledger \/ (ledger[leaf.id] # LedgerLimit /\ ledger' = [ledger EXCEPT ![leaf.id] = @ + 1])
    BY <1>2 DEF Claim, LedgerFull
  <2>3. ledger[leaf.id] # LedgerLimit => ledger[leaf.id] + 1 \in 0..LedgerLimit
    BY <1>0, BoundAssumption
  <2> QED BY <1>0, <2>1, <2>2, <2>3
<1>3. CASE Mark
  <2>1. ledger' = ledger /\ passed' = passed /\ leaf' \in {leaf, [leaf EXCEPT !.claimed = TRUE]}
    BY <1>3 DEF Mark
  <2> QED BY <1>0, <2>1 DEF Leaves
<1>4. CASE Attested
  BY <1>0, <1>4 DEF Attested, Leaves
<1>5. CASE WriteReceipt
  <2>1. [status |-> Status, failed |-> run.failed] \in Receipts
    BY <1>0 DEF Status, Receipts, Runs
  <2>2. [leaf EXCEPT !.receipt = [status |-> Status, failed |-> run.failed]] \in Leaves
    BY <1>0, <2>1 DEF Leaves
  <2> HIDE DEF Receipts
  <2> QED BY <1>0, <1>5, <2>2 DEF WriteReceipt
<1>6. CASE Operator
  BY <1>0, <1>6 DEF Operator, Install, Rotate, Rebind, Deploy, Command
<1>7. CASE Walk \/ EnterBody \/ Cleanup \/ RecordFailure \/ RecordConsumed \/ RecordNothing
  BY <1>0, <1>7 DEF Walk, EnterBody, Cleanup, RecordFailure, RecordConsumed, RecordNothing, Pure
<1>8. CASE DriverExits \/ KillDriver \/ PinviReconciles
  BY <1>0, <1>8 DEF DriverExits, KillDriver, Gone, PinviReconciles
<1>9. CASE Judge \/ Probe \/ Burn \/ KillLauncher
  BY <1>0, <1>9 DEF Judge, Probe, Burn, KillLauncher, Judging
<1> QED BY NextCases, <1>0, <1>1, <1>2, <1>3, <1>4, <1>5, <1>6, <1>7, <1>8, <1>9

LEMMA DriverTypesKept ==
    ASSUME TypeOK, [Next]_vars
    PROVE  DriverTypes'
<1> USE NewRunType DEF DriverTypes, driver, vars
<1>0. DriverTypes /\ leaf.id \in Identity
  BY TypeParts, LeafId DEF DiskTypes
<1>1. CASE Launch \/ Rehearse
  BY <1>0, <1>1 DEF Launch, Rehearse, StartDriver, Steps
<1>2. CASE Walk
  BY <1>0, <1>2 DEF Walk, Asking, Building, Trying, Steps
<1>3. CASE Attested
  BY <1>0, <1>3 DEF Attested, Steps, Runs
<1>4. CASE Claim \/ EnterBody
  BY <1>0, <1>4 DEF Claim, EnterBody, Steps, Runs, Phases, Outside
<1>5. CASE Mark
  BY <1>0, <1>5 DEF Mark, Goto, Raise, Steps, Runs, Phases, Outside
<1>6. CASE Cleanup
  BY <1>0, <1>6 DEF Cleanup, Steps, Runs, Phases, Outside
<1>7. CASE RecordFailure \/ RecordConsumed \/ RecordNothing
  BY <1>0, <1>7 DEF RecordFailure, RecordConsumed, RecordNothing, Goto, Pure, Steps, Runs, Phases, Outside
<1>8. CASE WriteReceipt
  BY <1>0, <1>8 DEF WriteReceipt, Steps, Outside
<1>9. CASE DriverExits \/ KillDriver
  BY <1>0, <1>9 DEF DriverExits, KillDriver, Gone, Ends, Steps, Outside
<1>10. CASE Judge \/ Probe \/ Burn \/ KillLauncher
  BY <1>0, <1>10 DEF Judge, Probe, Burn, KillLauncher, Judging
<1>11. CASE Operator \/ PinviReconciles
  BY <1>0, <1>11 DEF Operator, Install, Rotate, Rebind, Deploy, Command, PinviReconciles
<1> QED
  BY NextCases, <1>0, <1>1, <1>2, <1>3, <1>4, <1>5, <1>6, <1>7, <1>8, <1>9, <1>10, <1>11

LEMMA WorldTypesKept ==
    ASSUME TypeOK, [Next]_vars
    PROVE  WorldTypes'
<1> USE DEF WorldTypes, world, resources, scenario, vars
<1>0. WorldTypes
  BY TypeParts
<1>1. CASE Launch \/ Rehearse
  BY <1>0, <1>1 DEF Launch, Rehearse, StartDriver
<1>2. ASSUME UNCHANGED world
      PROVE  WorldTypes'
  BY <1>0, <1>2
<1>3. CASE PreClaim
  BY <1>0, <1>3 DEF PreClaim, Admit, MaterializeSources, SetUp, Render, Pure
<1>4. CASE Runtime
  BY <1>0, <1>4 DEF Runtime, Claim, Mark, Configure, MapRuntime, Subscribe, PinviRuntime, Provenance, Up, Pure
<1>5. CASE Body
  BY <1>0, <1>5 DEF Body, EnterBody, Request, Approve, Resolve, SeedFixture, SeedReference, Decide,
                    AwaitReceipt, Attest, BodyStep, Pure
<1>6. CASE Cleanup
  BY <1>0, <1>6 DEF Cleanup
<1>7. CASE RecordFailure \/ RecordConsumed \/ RecordNothing \/ WriteReceipt
  BY <1>0, <1>7 DEF RecordFailure, RecordConsumed, RecordNothing, WriteReceipt, Pure
<1>8. CASE DriverExits \/ KillDriver
  BY <1>0, <1>8 DEF DriverExits, KillDriver, Gone
<1>9. CASE PinviReconciles
  BY <1>0, <1>9 DEF PinviReconciles
<1>10. CASE Operator \/ Launcher \/ KillLauncher
  BY <1>2, <1>10 DEF Operator, Install, Rotate, Rebind, Deploy, Command, Launcher, Judge, Probe, Burn,
                     KillLauncher, Judging
<1> QED
  BY <1>0, <1>1, <1>2, <1>3, <1>4, <1>5, <1>6, <1>7, <1>8, <1>9, <1>10 DEF Next, Finally

LEMMA AccountTypesKept ==
    ASSUME TypeOK, [Next]_vars
    PROVE  AccountTypes'
<1> USE DEF AccountTypes, history, accounts, vars
<1>0. AccountTypes /\ leaf.id \in Identity
  BY TypeParts, LeafId DEF DiskTypes
<1>1. CASE Claim \/ Mark
  BY <1>0, <1>1, FaultType DEF Claim, Mark
<1>2. CASE EnterBody
  BY <1>0, <1>2 DEF EnterBody
<1>3. CASE RecordFailure \/ RecordConsumed
  BY <1>0, <1>3, FaultType DEF RecordFailure, RecordConsumed, WriteBlocks, FailToWriteBlocks
<1>4. CASE WriteReceipt
  BY <1>0, <1>4, FaultType DEF WriteReceipt
<1>5. CASE DriverExits \/ KillDriver
  BY <1>0, <1>5 DEF DriverExits, KillDriver, Gone
<1>6. CASE Judge \/ Probe \/ Burn
  BY <1>0, <1>6, FaultType DEF Judge, Probe, Burn, Judging, WriteBlocks, FailToWriteBlocks
<1>7. CASE KillLauncher
  BY <1>0, <1>7 DEF KillLauncher
<1>8. CASE Operator \/ Launch \/ Rehearse
  BY <1>0, <1>8 DEF Operator, Install, Rotate, Rebind, Deploy, Command, Launch, Rehearse, StartDriver
<1>9. CASE Walk \/ Attested \/ Cleanup \/ RecordNothing \/ PinviReconciles
  BY <1>0, <1>9 DEF Walk, Attested, Cleanup, RecordNothing, Pure, PinviReconciles
<1> QED BY NextCases, <1>0, <1>1, <1>2, <1>3, <1>4, <1>5, <1>6, <1>7, <1>8, <1>9

LEMMA TypeStep ==
    ASSUME TypeOK, [Next]_vars
    PROVE  TypeOK'
BY TypeParts, RegistryTypesKept, DiskTypesKept, DriverTypesKept, WorldTypesKept, AccountTypesKept

-----------------------------------------------------------------------------
(* The course of a run.                                                      *)

\* The blocks only grow, an identity's verdict with them.
LEMMA BlockedGrows ==
    ASSUME NEW id, NEW phase
    PROVE  /\ blocks \subseteq Blocked(id, phase)
           /\ phase \in {"none", "consumed"} => [id |-> id, phase |-> phase] \in Blocked(id, phase) \/ Burned(id)
           /\ \E b \in Blocked(id, phase) : b.id = id
<1>1. [id |-> id, phase |-> "none"].id = id /\ [id |-> id, phase |-> phase].id = id
  OBVIOUS
<1> QED BY <1>1 DEF Blocked, Burned, HasBlock

\* Blocks are written where the driver records and where the launcher burns.
LEMMA BlockWriters ==
    ASSUME TypeOK, [Next]_vars
    PROVE  \/ UNCHANGED blocks
           \/ pc = "record" /\ run.claim /\ (RecordFailure \/ RecordConsumed)
           \/ launcher = "burn" /\ Burn
<1>1. CASE Operator \/ Launch \/ Rehearse
  BY <1>1 DEF Operator, Install, Rotate, Rebind, Deploy, Launch, Rehearse, StartDriver, registry
<1>2. CASE Walk \/ Attested \/ Claim \/ Mark \/ EnterBody \/ Cleanup \/ RecordNothing \/ WriteReceipt
  BY <1>2 DEF Walk, Attested, Claim, Mark, EnterBody, Cleanup, RecordNothing, WriteReceipt, Pure,
              Outside, registry
<1>3. CASE DriverExits \/ KillDriver \/ PinviReconciles \/ Judge \/ Probe \/ KillLauncher
  BY <1>3 DEF DriverExits, KillDriver, Gone, Outside, PinviReconciles, Judge, Probe, KillLauncher, registry
<1>4. CASE RecordFailure \/ RecordConsumed \/ Burn
  BY <1>4 DEF RecordFailure, RecordConsumed, Burn, At
<1>5. CASE UNCHANGED vars
  BY <1>5 DEF vars, registry
<1> QED BY NextCases, <1>1, <1>2, <1>3, <1>4, <1>5

LEMMA BlocksGrow ==
    ASSUME TypeOK, [Next]_vars
    PROVE  /\ blocks \subseteq blocks'
           /\ \A id : Terminal(id) => Terminal(id)'
<1>1. UNCHANGED blocks \/ RecordFailure \/ RecordConsumed \/ Burn
  BY BlockWriters
<1>2. RecordFailure => blocks \subseteq blocks'
  BY DEF RecordFailure, WriteBlocks, FailToWriteBlocks, Blocked
<1>3. RecordConsumed => blocks \subseteq blocks'
  BY DEF RecordConsumed, WriteBlocks, FailToWriteBlocks, Blocked
<1>4. Burn => blocks \subseteq blocks'
  BY DEF Burn, WriteBlocks, FailToWriteBlocks, Blocked
<1>5. blocks \subseteq blocks'
  BY <1>1, <1>2, <1>3, <1>4
<1> QED BY <1>5 DEF Terminal, Burned, HasBlock

\* A history only grows.
LEMMA HistoryGrows ==
    ASSUME TypeOK, [Next]_vars
    PROVE  /\ \A id \in Identity : /\ faults[id] <= faults'[id] /\ lost[id] <= lost'[id]
                                   /\ bodies[id] <= bodies'[id]
                                   /\ ledger[id] = LedgerLimit => ledger'[id] = LedgerLimit
           /\ crashes \subseteq crashes'
<1>0. /\ bodies \in [Identity -> Nat] /\ faults \in [Identity -> Nat] /\ lost \in [Identity -> Nat]
      /\ ledger \in [Identity -> 0..LedgerLimit] /\ leaf.id \in Identity
  BY LeafId DEF TypeOK
<1>1. UNCHANGED faults \/ Fault => \A id \in Identity : faults[id] <= faults'[id]
  BY <1>0 DEF Fault
<1> USE <1>0, <1>1 DEF history, accounts, disk, vars
<1>2. CASE Claim
  BY <1>2 DEF Claim, LedgerFull, Outside
<1>3. CASE Mark \/ EnterBody
  BY <1>3 DEF Mark, EnterBody
<1>4. CASE RecordFailure \/ RecordConsumed
  BY <1>4 DEF RecordFailure, RecordConsumed, WriteBlocks, FailToWriteBlocks
<1>5. CASE WriteReceipt
  BY <1>5 DEF WriteReceipt
<1>6. CASE Judge \/ Probe \/ Burn
  BY <1>6 DEF Judge, Probe, Burn, Judging, WriteBlocks, FailToWriteBlocks
<1>7. CASE KillLauncher
  BY <1>7 DEF KillLauncher
<1>8. UNCHANGED <<ledger, bodies, faults, lost>> /\ crashes \subseteq crashes' =>
      /\ \A id \in Identity : /\ faults[id] <= faults'[id] /\ lost[id] <= lost'[id]
                              /\ bodies[id] <= bodies'[id]
                              /\ ledger[id] = LedgerLimit => ledger'[id] = LedgerLimit
      /\ crashes \subseteq crashes'
  OBVIOUS
<1> HIDE <1>0, <1>1
<1>9. CASE DriverExits \/ KillDriver
  BY <1>8, <1>9 DEF DriverExits, KillDriver, Gone
<1>10. CASE Operator \/ Launch \/ Rehearse
  BY <1>8, <1>10 DEF Operator, Install, Rotate, Rebind, Deploy, Command, Launch, Rehearse, StartDriver
<1>11. CASE Walk \/ Attested \/ Cleanup \/ RecordNothing \/ PinviReconciles \/ UNCHANGED vars
  BY <1>8, <1>11 DEF Walk, Attested, Cleanup, RecordNothing, Pure, PinviReconciles
<1> QED BY NextCases, <1>2, <1>3, <1>4, <1>5, <1>6, <1>7, <1>9, <1>10, <1>11

\* A run begins for an identity that is not terminal, unless it is a rehearsal.
LEMMA Starts ==
    ASSUME Launch \/ Rehearse
    PROVE  /\ pc = "off" /\ launcher = "idle" /\ pc' = "admit" /\ leaf' = NewLeaf
           /\ UNCHANGED <<blocks, ledger, passed, bodies, faults, lost, crashes, refs, answer>>
           /\ run' \in {NewRun(TRUE), NewRun(FALSE)}
           /\ run'.rehearse => launcher' = "idle"
           /\ ~run'.rehearse => launcher' = "waiting" /\ ~Terminal(leaf'.id)
           /\ projects' = {}
BY DEF Launch, Rehearse, StartDriver, Preflight, Runnable, CurrentMatches, Burned, HasBlock, Terminal,
       registry, scenario, history, accounts, NewRun, NewLeaf

LEMMA CourseKept ==
    ASSUME TypeOK, CourseInv, [Next]_vars
    PROVE  CourseInv'
<1>0. run \in Runs /\ leaf \in Leaves /\ leaf.id \in Identity
  BY LeafId DEF TypeOK, Runs
<1> USE <1>0 DEF CourseInv, Asking, Claiming, Building, Trying, Closing, Closed, At
<1>1. CASE Launch \/ Rehearse
  <2>1. /\ pc' = "admit" /\ ~run'.claim /\ ~run'.body /\ ~run'.done
        /\ leaf'.receipt = Nothing
    BY <1>1, Starts DEF NewRun, NewLeaf
  <2>2. launcher' \in {"idle", "waiting"} /\ (run'.rehearse => launcher' = "idle")
    BY <1>1, Starts DEF NewRun
  <2>3. ~run'.rehearse => ~Terminal(leaf.id)'
    BY <1>1, Starts DEF Terminal, Burned, HasBlock
  <2> QED BY <2>1, <2>2, <2>3
<1> SUFFICES ASSUME ~Launch, ~Rehearse
             PROVE  CourseInv'
  BY <1>1
<1> USE DEF Pure, Outside, registry, disk, Terminal, Burned, HasBlock
<1>2. CASE Walk
  BY <1>2 DEF Walk
<1>3. CASE Attested
  BY <1>3 DEF Attested, Runs, Leaves
<1>4. CASE Claim
  BY <1>4 DEF Claim, Runs
<1>5. CASE Mark
  BY <1>5 DEF Mark, Goto, Raise, Runs, Leaves
<1>6. CASE EnterBody
  BY <1>6 DEF EnterBody, Runs
<1>7. CASE Cleanup
  BY <1>7 DEF Cleanup, Runs
<1>8. CASE RecordFailure \/ RecordConsumed \/ RecordNothing
  BY <1>8 DEF RecordFailure, RecordConsumed, RecordNothing, Goto, Runs
<1>9. CASE WriteReceipt
  BY <1>9 DEF WriteReceipt, Leaves
<1>10. CASE DriverExits \/ KillDriver
  BY <1>10 DEF DriverExits, KillDriver, Gone, NewRun
<1>11. CASE Operator \/ PinviReconciles
  BY <1>11 DEF Operator, Install, Rotate, Rebind, Deploy, Command, PinviReconciles, driver
<1>12. CASE Judge \/ Probe \/ Burn
  BY <1>12 DEF Judge, Probe, Burn, Judging, Bound
<1>13. CASE KillLauncher
  BY <1>13 DEF KillLauncher
<1>14. CASE UNCHANGED vars
  BY <1>14 DEF vars, driver
<1> QED
  BY NextCases, <1>2, <1>3, <1>4, <1>5, <1>6, <1>7, <1>8, <1>9, <1>10, <1>11, <1>12, <1>13, <1>14

-----------------------------------------------------------------------------
(* The account of the bodies.                                                *)

\* What may still be recorded is recorded or burned, or a fault or a kill accounts for it.
LEMMA OwedEnds ==
    ASSUME TypeOK, CourseInv, [Next]_vars, NEW id \in Identity, Owed(id), ~Owed(id)'
    PROVE  Terminal(id)' \/ faults'[id] > faults[id] \/ lost'[id] > lost[id]
<1>0. /\ run \in Runs /\ leaf.id = id /\ launcher # "idle"
      /\ faults[id] \in Nat /\ lost[id] \in Nat /\ leaf \in Leaves
  BY DEF TypeOK, Runs, Owed
<1>1. ASSUME NEW phase \in {"none", "consumed"},
             WriteBlocks(Blocked(leaf.id, phase)) \/ FailToWriteBlocks(Blocked(leaf.id, phase))
      PROVE  Terminal(id)' \/ faults'[id] > faults[id]
  BY <1>0, <1>1, FaultType DEF WriteBlocks, FailToWriteBlocks, Blocked, Terminal, Burned, HasBlock
<1> USE <1>0 DEF Owed, CourseInv, Asking, Claiming, Building, Trying, Closing, Closed, At, disk, Outside, Pure
<1>2. CASE Walk
  BY <1>2 DEF Walk
<1>15. CASE Attested
  BY <1>15 DEF Attested, Runs, Leaves
<1>3. CASE Claim \/ Mark \/ EnterBody
  BY <1>3 DEF Claim, Mark, EnterBody
<1>4. CASE Cleanup
  BY <1>4 DEF Cleanup, Runs
<1>5. CASE RecordFailure
  <2>1. pc = "record" => run.body
    BY <1>5 DEF RecordFailure
  <2> QED BY <1>1, <1>5, <2>1 DEF RecordFailure, BlockPhase
<1>6. CASE RecordConsumed
  BY <1>1, <1>6 DEF RecordConsumed
<1>7. CASE RecordNothing \/ WriteReceipt
  BY <1>7 DEF RecordNothing, WriteReceipt
<1>8. CASE DriverExits \/ KillDriver
  <2>1. UNCHANGED <<leaf, launcher>> /\ pc' = "off" /\ pc # "off"
    BY <1>8 DEF DriverExits, KillDriver, Gone
  <2> QED BY <2>1
<1>9. CASE Judge
  <2>1. pc = "off" /\ leaf.claimed /\ leaf.receipt = Nothing
    BY <1>9 DEF Judge
  <2> QED BY <1>9, <2>1 DEF Judge, Judging, Bound, BurnsUnread
<1>10. CASE Probe
  BY <1>10 DEF Probe, Judging
<1>11. CASE Burn
  BY <1>1, <1>11 DEF Burn
<1>12. CASE KillLauncher
  BY <1>12 DEF KillLauncher, TypeOK
<1>13. CASE Operator \/ Launch \/ Rehearse
  BY <1>13 DEF Operator, Install, Rotate, Rebind, Deploy, Command, LockFree, Launch, Rehearse, StartDriver
<1>14. CASE PinviReconciles \/ UNCHANGED vars
  BY <1>14 DEF PinviReconciles, vars, driver
<1> QED
  BY NextCases, <1>2, <1>3, <1>4, <1>5, <1>6, <1>7, <1>8, <1>9, <1>10, <1>11, <1>12, <1>13, <1>14,
     <1>15

\* Only the kill of a launcher leaves a driver before its body alone.
LEMMA AheadBegins ==
    ASSUME TypeOK, CourseInv, [Next]_vars, NEW id \in Identity, Ahead(id)', ~Ahead(id)
    PROVE  KillLauncher /\ lost'[id] > lost[id] /\ ~Terminal(id) /\ ~Owed(id)
<1>0. /\ run \in Runs /\ leaf \in Leaves /\ leaf' \in Leaves /\ lost[id] \in Nat
  BY TypeStep DEF TypeOK, Runs
<1> USE <1>0 DEF Ahead, Asking, Claiming, Building, Trying, Closing, Closed, At, disk, Outside, Pure
<1>1. CASE Launch \/ Rehearse
  <2>1. run'.rehearse = (run' = NewRun(TRUE))
    BY <1>1, Starts DEF NewRun
  <2> QED BY <1>1, Starts
<1>2. CASE Walk \/ Attested
  BY <1>2 DEF Walk, Attested, Runs
<1>3. CASE Claim \/ EnterBody
  BY <1>3 DEF Claim, EnterBody, Runs
<1>4. CASE Mark
  BY <1>4 DEF Mark, Goto, Raise, Leaves
<1>5. CASE Cleanup \/ RecordFailure \/ RecordConsumed \/ RecordNothing \/ WriteReceipt
  BY <1>5 DEF Cleanup, RecordFailure, RecordConsumed, RecordNothing, Goto, WriteReceipt
<1>6. CASE DriverExits \/ KillDriver
  BY <1>6 DEF DriverExits, KillDriver, Gone
<1>7. CASE Judge \/ Probe \/ Burn
  BY <1>7 DEF Judge, Probe, Burn, Judging, CourseInv
<1>8. CASE KillLauncher
  BY <1>8 DEF KillLauncher, CourseInv, Owed, TypeOK
<1>9. CASE Operator \/ PinviReconciles \/ UNCHANGED vars
  BY <1>9 DEF Operator, Install, Rotate, Rebind, Deploy, Command, PinviReconciles, vars, driver
<1> QED BY NextCases, <1>1, <1>2, <1>3, <1>4, <1>5, <1>6, <1>7, <1>8, <1>9

LEMMA BodyEntries ==
    ASSUME [Next]_vars, TypeOK
    PROVE  UNCHANGED bodies \/ EnterBody
<1> USE DEF history, accounts
<1>1. CASE Walk \/ Attested \/ Claim \/ Mark \/ Cleanup \/ RecordNothing \/ WriteReceipt
  BY <1>1 DEF Walk, Attested, Claim, Mark, Cleanup, RecordNothing, Pure, WriteReceipt
<1>2. CASE RecordFailure \/ RecordConsumed \/ DriverExits \/ KillDriver \/ PinviReconciles
  BY <1>2 DEF RecordFailure, RecordConsumed, DriverExits, KillDriver, Gone, PinviReconciles
<1>3. CASE Judge \/ Probe \/ Burn \/ KillLauncher
  BY <1>3 DEF Judge, Probe, Burn, KillLauncher, Judging
<1>4. CASE Operator \/ Launch \/ Rehearse \/ UNCHANGED vars
  BY <1>4 DEF Operator, Install, Rotate, Rebind, Deploy, Command, Launch, Rehearse, StartDriver, vars
<1> QED BY NextCases, <1>1, <1>2, <1>3, <1>4

LEMMA BodiesKept ==
    ASSUME TypeOK, CourseInv, BodiesInv, [Next]_vars
    PROVE  BodiesInv'
<1> SUFFICES ASSUME NEW id \in Identity
             PROVE  /\ bodies'[id] <= 1 + faults'[id] + lost'[id]
                    /\ ~Terminal(id)' /\ ~Owed(id)' => bodies'[id] <= faults'[id] + lost'[id]
                    /\ Ahead(id)' => bodies'[id] < faults'[id] + lost'[id]
  BY DEF BodiesInv
<1>1. /\ bodies[id] \in Nat /\ faults[id] \in Nat /\ lost[id] \in Nat
      /\ bodies'[id] \in Nat /\ faults'[id] \in Nat /\ lost'[id] \in Nat
  BY TypeStep DEF TypeOK
<1>2. faults[id] <= faults'[id] /\ lost[id] <= lost'[id] /\ (Terminal(id) => Terminal(id)')
  BY HistoryGrows, BlocksGrow
<1>3. /\ bodies[id] <= 1 + faults[id] + lost[id]
      /\ ~Terminal(id) /\ ~Owed(id) => bodies[id] <= faults[id] + lost[id]
      /\ Ahead(id) => bodies[id] < faults[id] + lost[id]
  BY DEF BodiesInv
<1>4. CASE UNCHANGED bodies
  <2>1. CASE Owed(id) /\ ~Owed(id)'
    <3>1. Terminal(id)' \/ faults'[id] > faults[id] \/ lost'[id] > lost[id]
      BY <2>1, OwedEnds
    <3>2. Ahead(id)' => Ahead(id) \/ ~Owed(id)
      BY AheadBegins
    <3> QED BY <1>1, <1>2, <1>3, <1>4, <2>1, <3>1, <3>2
  <2>2. CASE ~Owed(id) \/ Owed(id)'
    <3>1. Ahead(id)' /\ ~Ahead(id) => lost'[id] > lost[id] /\ ~Terminal(id) /\ ~Owed(id)
      BY AheadBegins
    <3> QED BY <1>1, <1>2, <1>3, <1>4, <2>2, <3>1
  <2> QED BY <2>1, <2>2
<1>5. CASE EnterBody
  <2>1. /\ UNCHANGED <<leaf, launcher>> /\ pc = "body" /\ pc' = "request" /\ run'.body
        /\ bodies'[id] = IF id = leaf.id THEN bodies[id] + 1 ELSE bodies[id]
    BY <1>5 DEF EnterBody, At, Outside, disk, TypeOK
  <2>2. ~Ahead(id)'
    BY <2>1 DEF Ahead, Asking, Claiming, Building
  <2>3. CASE id = leaf.id
    <3>1. ~run.rehearse /\ launcher \in {"idle", "waiting"} /\ ~Terminal(id) /\ ~Owed(id)
      BY <2>1, <2>3 DEF CourseInv, Owed, TypeOK, Trying, Closing, Closed, Asking
    <3>2. launcher = "idle" => Ahead(id)
      BY <2>1, <2>3, <3>1 DEF Ahead
    <3>3. launcher = "waiting" => Owed(id)'
      BY <2>1, <2>3 DEF Owed, Trying
    <3> QED BY <1>1, <1>2, <1>3, <2>1, <2>2, <2>3, <3>1, <3>2, <3>3
  <2>4. CASE id # leaf.id
    <3>1. ~Owed(id)
      BY <2>4 DEF Owed
    <3> QED BY <1>1, <1>2, <1>3, <2>1, <2>2, <2>4, <3>1
  <2> QED BY <2>3, <2>4
<1> QED BY <1>4, <1>5, BodyEntries

-----------------------------------------------------------------------------
(* What burns an identity.                                                   *)

\* What is earned or recorded stays so.
LEMMA CausesStay ==
    ASSUME TypeOK, [Next]_vars
    PROVE  \A id \in Identity : /\ Earned(id) => Earned(id)'
                                /\ Recorded(id) => Recorded(id)'
                                /\ Consumed(id) => Consumed(id)'
                                /\ faults[id] > 0 => faults'[id] > 0
<1> SUFFICES ASSUME NEW id \in Identity
             PROVE  /\ Earned(id) => Earned(id)'
                    /\ Recorded(id) => Recorded(id)'
                    /\ Consumed(id) => Consumed(id)'
                    /\ faults[id] > 0 => faults'[id] > 0
  OBVIOUS
<1>1. /\ bodies[id] \in Nat /\ faults[id] \in Nat /\ bodies'[id] \in Nat /\ faults'[id] \in Nat
      /\ faults[id] <= faults'[id] /\ bodies[id] <= bodies'[id] /\ crashes \subseteq crashes'
      /\ ledger[id] = LedgerLimit => ledger'[id] = LedgerLimit
  BY HistoryGrows, TypeStep DEF TypeOK
<1>2. blocks \subseteq blocks'
  BY BlocksGrow
<1> QED BY <1>1, <1>2 DEF Earned, Recorded, Consumed, HasBlock

\* The blocks that are new are of the run's identity, and burn it with a cause.
LEMMA BurnsEarned ==
    ASSUME TypeOK, CourseInv, CauseInv, [Next]_vars
    PROVE  \A id \in Identity : Burned(id)' => Earned(id)'
<1> SUFFICES ASSUME NEW id \in Identity, Burned(id)'
             PROVE  Earned(id)'
  OBVIOUS
<1>1. CASE Burned(id)
  BY <1>1, CausesStay DEF CauseInv
<1>2. CASE ~Burned(id) /\ RecordFailure
  <2>1. /\ pc = "record" /\ run.claim /\ ~run.done
        /\ \/ blocks' = Blocked(leaf.id, BlockPhase)
           \/ blocks' \in {blocks, Blocked(leaf.id, BlockPhase)} /\ Fault
    BY <1>2 DEF RecordFailure, At, WriteBlocks, FailToWriteBlocks
  <2>2. id = leaf.id /\ BlockPhase = "none"
    BY <1>2, <2>1 DEF Blocked, Burned, HasBlock
  <2>3. run.body \/ run.phase \in {"ledger_claim", "body"}
    BY <2>2, <2>1 DEF BlockPhase, IsUnconditional, TypeOK, Phases
  <2>4. Earned(id)
    BY <2>1, <2>2, <2>3 DEF CauseInv, Closing, Earned
  <2> QED BY <2>4, CausesStay
<1>3. CASE ~Burned(id) /\ RecordConsumed
  BY <1>3 DEF RecordConsumed, WriteBlocks, FailToWriteBlocks, Blocked, Burned, HasBlock
<1>4. CASE ~Burned(id) /\ launcher = "burn" /\ Burn
  <2>1. id = leaf.id
    BY <1>4 DEF Burn, WriteBlocks, FailToWriteBlocks, Blocked, Burned, HasBlock
  <2> QED BY <1>4, <2>1, CausesStay DEF CauseInv
<1>5. CASE UNCHANGED blocks
  BY <1>1, <1>5 DEF Burned, HasBlock
<1> QED BY BlockWriters, <1>1, <1>2, <1>3, <1>4, <1>5

LEMMA CauseKept ==
    ASSUME TypeOK, CourseInv, CauseInv, [Next]_vars
    PROVE  CauseInv'
<1>0. /\ run \in Runs /\ leaf \in Leaves /\ leaf.id \in Identity /\ leaf' \in Leaves
      /\ leaf'.id \in Identity /\ run' \in Runs
      /\ faults[leaf.id] \in Nat /\ bodies[leaf.id] \in Nat
  BY LeafId, TypeStep DEF TypeOK, Runs, Leaves
<1>1. \A id \in Identity : Burned(id)' => Earned(id)'
  BY BurnsEarned
<1>2. /\ Earned(leaf.id) => Earned(leaf.id)' \/ leaf'.id # leaf.id
      /\ Recorded(leaf.id) => Recorded(leaf.id)' \/ leaf'.id # leaf.id
      /\ faults[leaf.id] > 0 => faults'[leaf.id] > 0
      /\ ledger[leaf.id] = LedgerLimit => ledger'[leaf.id] = LedgerLimit
      /\ bodies[leaf.id] > 0 => bodies'[leaf.id] > 0
      /\ crashes \subseteq crashes'
  <2>1. bodies'[leaf.id] \in Nat
    BY <1>0, TypeStep DEF TypeOK
  <2>2. \A id : leaf'.id = id => (Earned(leaf.id)' <=> Earned(id)') /\ (Recorded(leaf.id)' <=> Recorded(id)')
    BY DEF Earned, Recorded
  <2> QED BY <1>0, <2>1, <2>2, CausesStay, HistoryGrows
<1> DEFINE Course ==
      /\ run.body => bodies[leaf.id] > 0
      /\ pc \in Trying => run.phase = "body"
      /\ run.phase = "body" => run.body
      /\ pc \in Closing /\ run.phase = "ledger_claim" =>
            faults[leaf.id] > 0 \/ ledger[leaf.id] = LedgerLimit
      /\ pc = "receipt" /\ run.claim => Recorded(leaf.id)
      /\ leaf.receipt # Nothing /\ leaf.receipt.status = "blocked" => Recorded(leaf.id)
      /\ pc = "exit" => exit \in {"ok", "fail"} /\ (run.rehearse \/ Truthful(exit))
      /\ pc = "off" /\ launcher = "waiting" => Truthful(exit)
      /\ launcher = "probe" => leaf.receipt.status = "blocked"
      /\ launcher = "burn" => Earned(leaf.id)
<1> SUFFICES Course'
  BY <1>1 DEF CauseInv
<1>3. Course
  BY DEF CauseInv
<1>4. \A status : UNCHANGED leaf /\ Truthful(status) => Truthful(status)'
  BY <1>2 DEF Truthful
<1> HIDE DEF Course
<1>5. CASE Launch \/ Rehearse
  BY <1>5, Starts DEF Course, NewRun, NewLeaf, Closing, Trying
<1> USE <1>0, <1>2, <1>3, <1>4
    DEF Course, CourseInv, Asking, Claiming, Building, Trying, Closing, Closed, At, disk, Outside, Pure
<1>6. CASE Walk
  BY <1>6 DEF Walk
<1>7. CASE Attested
  <2>1. /\ pc = "attest" /\ pc' = "cleanup" /\ UNCHANGED <<launcher, bodies>>
        /\ run'.body = run.body /\ run'.phase = run.phase /\ leaf'.id = leaf.id
        /\ leaf'.receipt = leaf.receipt
    BY <1>7 DEF Attested, Runs, Leaves, history, accounts
  <2>2. run.phase # "ledger_claim" /\ run.body /\ launcher \notin {"probe", "burn"} /\ leaf.receipt = Nothing
    BY <2>1
  <2> QED BY <2>1, <2>2
<1>8. CASE Claim
  <2>1. /\ pc = "claim" /\ pc' \in {"mark", "cleanup"} /\ UNCHANGED <<launcher, leaf, bodies>>
        /\ run'.body = run.body /\ run'.phase = "ledger_claim"
    BY <1>8 DEF Claim, Runs, accounts
  <2>2. pc' = "cleanup" => faults'[leaf.id] > 0 \/ ledger'[leaf.id] = LedgerLimit
    BY <1>8, FaultType DEF Claim, LedgerFull
  <2> QED BY <2>1, <2>2
<1>9. CASE Mark
  <2>1. /\ pc = "mark" /\ pc' \in {"config", "cleanup"} /\ UNCHANGED <<launcher, bodies>>
        /\ run'.body = run.body /\ run'.phase \in {run.phase, "ledger_claim"}
        /\ leaf'.id = leaf.id /\ leaf'.receipt = leaf.receipt
    BY <1>9 DEF Mark, Goto, Raise, Runs, Leaves, accounts
  <2>2. pc' = "cleanup" => faults'[leaf.id] > 0
    BY <1>9, FaultType DEF Mark, Goto
  <2> QED BY <2>1, <2>2
<1>10. CASE EnterBody
  <2>1. /\ pc = "body" /\ pc' = "request" /\ UNCHANGED <<launcher, leaf>>
        /\ run'.body /\ run'.phase = "body" /\ bodies'[leaf.id] = bodies[leaf.id] + 1
    BY <1>10 DEF EnterBody, Runs, TypeOK
  <2> QED BY <2>1
<1>11. CASE Cleanup
  BY <1>11 DEF Cleanup, Runs
<1>12. CASE RecordFailure \/ RecordConsumed
  <2>1. /\ pc = "record" /\ pc' = "receipt" /\ UNCHANGED <<launcher, leaf, exit, bodies>>
        /\ run'.body = run.body /\ run'.phase \in {run.phase, "unrecorded"}
    BY <1>12 DEF RecordFailure, RecordConsumed, Goto, Runs, accounts
  <2>2. (\E phase : blocks' = Blocked(leaf.id, phase)) \/ Fault
    BY <1>12 DEF RecordFailure, RecordConsumed, WriteBlocks, FailToWriteBlocks
  <2>3. (\E b \in blocks' : b.id = leaf.id) \/ faults'[leaf.id] > 0
    <3>1. \A phase : \E b \in Blocked(leaf.id, phase) : b.id = leaf.id
      BY BlockedGrows
    <3>2. Fault => faults'[leaf.id] > 0
      BY FaultType
    <3> QED BY <2>2, <3>1, <3>2
  <2>4. Recorded(leaf.id)'
    BY <2>1, <2>3 DEF Recorded
  <2> QED BY <2>1, <2>4
<1>13. CASE RecordNothing
  BY <1>13 DEF RecordNothing, Goto
<1>14. CASE WriteReceipt
  <2>1. /\ pc = "receipt" /\ pc' = "exit" /\ UNCHANGED <<launcher, run, bodies>>
        /\ leaf'.id = leaf.id /\ leaf.receipt = Nothing
    BY <1>14 DEF WriteReceipt, Leaves, accounts
  <2>2. \/ /\ leaf'.receipt = [status |-> Status, failed |-> run.failed]
           /\ exit' = IF Status \in {"passed", "rehearsed"} THEN "ok" ELSE "fail"
        \/ Fault /\ exit' = "fail" /\ leaf' = leaf
    BY <1>14 DEF WriteReceipt, Leaves
  <2>3. [status |-> Status, failed |-> run.failed] # Nothing
    BY NothingAssumption DEF Receipts, Status, Runs
  <2>4. /\ Status = "blocked" => run.claim
        /\ Status = "rehearsed" => run.rehearse
    BY <2>1 DEF Status
  <2>5. exit' \in {"ok", "fail"} /\ (run.rehearse \/ Truthful(exit)')
    BY <2>1, <2>2, <2>3, <2>4, FaultType DEF Truthful
  <2>6. leaf'.receipt # Nothing /\ leaf'.receipt.status = "blocked" => Recorded(leaf.id)'
    BY <2>1, <2>2, <2>3, <2>4 DEF Recorded
  <2> QED BY <2>1, <2>2, <2>5, <2>6
<1>15. CASE DriverExits \/ KillDriver
  <2>1. /\ pc # "off" /\ pc' = "off" /\ UNCHANGED <<launcher, leaf, bodies>>
        /\ ~run'.body /\ run'.phase = "preclaim"
    BY <1>15 DEF DriverExits, KillDriver, Gone, NewRun
  <2>2. launcher = "waiting" => Truthful(exit)'
    BY <1>15, <2>1 DEF DriverExits, KillDriver, Ends, Truthful
  <2>3. launcher \notin {"probe", "burn"}
    BY <2>1
  <2> QED BY <2>1, <2>2, <2>3
<1>16. CASE Judge
  <2>1. launcher = "waiting" /\ pc = "off" /\ UNCHANGED <<pc, run, leaf, bodies>>
    BY <1>16 DEF Judge, Judging, accounts
  <2>2. launcher' = "probe" => leaf.receipt.status = "blocked"
    BY <1>16 DEF Judge
  <2>3. launcher' = "burn" => leaf.claimed /\ (~Bound \/ Fault)
    BY <1>16 DEF Judge, BurnsUnread
  <2>4. leaf.claimed /\ ~Bound => Earned(leaf.id)
    BY <2>1 DEF Bound, Truthful, Earned
  <2>5. Fault => Earned(leaf.id)'
    BY <2>1, FaultType DEF Earned
  <2>6. launcher' # "waiting"
    BY <1>16 DEF Judge
  <2> QED BY <2>1, <2>2, <2>3, <2>4, <2>5, <2>6
<1>17. CASE Probe
  <2>1. launcher = "probe" /\ pc = "off" /\ UNCHANGED <<pc, run, leaf, bodies>>
    BY <1>17 DEF Probe, Judging, accounts
  <2>2. launcher' \in {"idle", "burn"} /\ (launcher' = "burn" => ~(\E b \in blocks : b.id = leaf.id))
    BY <1>17 DEF Probe
  <2>3. launcher' = "burn" => Earned(leaf.id)
    BY <2>1, <2>2 DEF Recorded, Earned
  <2> QED BY <2>1, <2>2, <2>3
<1>18. CASE Burn \/ KillLauncher
  BY <1>18 DEF Burn, Judging, KillLauncher
<1>19. CASE Operator \/ PinviReconciles \/ UNCHANGED vars
  BY <1>19 DEF Operator, Install, Rotate, Rebind, Deploy, Command, PinviReconciles, vars, driver
<1> QED
  BY NextCases, <1>5, <1>6, <1>7, <1>8, <1>9, <1>10, <1>11, <1>12, <1>13, <1>14, <1>15, <1>16,
     <1>17, <1>18, <1>19

-----------------------------------------------------------------------------
(* What a passed leaf stands for.                                            *)

\* At the attestation the reference has been rewritten, and nothing changes it any more.
LEMMA RewrittenBefore ==
    ASSUME TypeOK, EvidenceInv, [Next]_vars, pc' = "attest"
    PROVE  refs' = "rebound" /\ answer' # Nothing
<1> USE DEF At, world, scenario, EvidenceInv
<1>0. run \in Runs /\ "applied" # Nothing
  BY NothingAssumption DEF TypeOK, Runs
<1>1. CASE AwaitReceipt
  BY <1>0, <1>1 DEF AwaitReceipt, BodyRaises, ReceiptSuffices, Pure, Goto, Raise
<1>2. CASE PreClaim
  BY <1>2 DEF PreClaim, Admit, MaterializeSources, SetUp, Render, Goto, Raise
<1>3. CASE Runtime
  BY <1>3 DEF Runtime, Claim, Mark, Configure, MapRuntime, Subscribe, PinviRuntime, Provenance, Up,
              Goto, Raise
<1>4. CASE EnterBody \/ Request \/ Approve \/ Resolve \/ SeedFixture \/ SeedReference \/ Decide \/ Attest
  BY <1>4 DEF EnterBody, Request, Approve, Resolve, SeedFixture, SeedReference, Decide, Attest,
              BodyStep, BodyRaises, Goto, Raise
<1>5. CASE Finally \/ KillDriver \/ Launch \/ Rehearse
  BY <1>5 DEF Finally, Cleanup, RecordFailure, RecordConsumed, RecordNothing, WriteReceipt, DriverExits,
              KillDriver, Gone, Goto, Launch, Rehearse, StartDriver
<1>6. CASE PinviReconciles
  BY <1>6 DEF PinviReconciles, driver
<1>7. CASE Operator \/ Launcher \/ KillLauncher \/ UNCHANGED vars
  BY <1>7 DEF Operator, Install, Rotate, Rebind, Deploy, Command, driver, Launcher, Judge, Probe, Burn,
              Judging, KillLauncher, vars
<1> QED BY <1>1, <1>2, <1>3, <1>4, <1>5, <1>6, <1>7 DEF Next, Body

LEMMA EvidenceKept ==
    ASSUME TypeOK, CourseInv, EvidenceInv, [Next]_vars
    PROVE  EvidenceInv'
<1>0. /\ run \in Runs /\ leaf \in Leaves /\ leaf.id \in Identity /\ passed \subseteq Leaves
      /\ \A l \in passed : l.id \in Identity
  BY LeafId DEF TypeOK, Runs, Leaves
<1>1. pc' = "attest" => refs' = "rebound" /\ answer' # Nothing
  BY RewrittenBefore
<1>2. \A l \in passed : l.impact /\ Consumed(l.id)'
  BY <1>0, CausesStay DEF EvidenceInv
<1>3. \A id : leaf'.id = id => (Consumed(leaf.id)' <=> Consumed(id)')
  BY DEF Consumed, HasBlock
<1>4. leaf'.id = leaf.id => (Consumed(leaf.id) => Consumed(leaf.id)')
  BY <1>0, <1>3, CausesStay
<1> DEFINE Done == /\ run.done => leaf.impact
                   /\ run.done /\ pc = "receipt" => Consumed(leaf.id)
<1>5. Done
  BY DEF EvidenceInv
<1>6. ASSUME Done', UNCHANGED passed
      PROVE  EvidenceInv'
  BY <1>1, <1>2, <1>6 DEF EvidenceInv, Consumed, HasBlock
<1>7. CASE Launch \/ Rehearse
  BY <1>6, <1>7, Starts DEF NewRun
<1> USE <1>0, <1>5 DEF CourseInv, Asking, Claiming, Building, Trying, Closing, Closed, At, disk, Outside, Pure
<1>8. CASE Walk
  BY <1>6, <1>8 DEF Walk
<1>9. CASE Attested
  <2>1. leaf'.impact /\ pc' = "cleanup" /\ UNCHANGED passed
    BY <1>9 DEF Attested, Leaves, EvidenceInv
  <2> QED BY <1>6, <2>1
<1>10. CASE Claim \/ Mark \/ EnterBody
  <2>1. ~run'.done /\ UNCHANGED passed
    BY <1>10 DEF Claim, Mark, EnterBody, Goto, Raise, Runs
  <2> QED BY <1>6, <2>1
<1>11. CASE Cleanup
  <2>1. (run'.done => run.done) /\ pc' = "record" /\ UNCHANGED <<leaf, passed>>
    BY <1>11 DEF Cleanup, Runs
  <2> QED BY <1>6, <2>1
<1>12. CASE RecordFailure \/ RecordNothing
  <2>1. ~run'.done /\ UNCHANGED <<leaf, passed>>
    BY <1>12 DEF RecordFailure, RecordNothing, Goto, Runs
  <2> QED BY <1>6, <2>1
<1>13. CASE RecordConsumed
  <2>1. ~run.rehearse /\ ~Burned(leaf.id) /\ UNCHANGED <<run, leaf, passed>>
    BY <1>13 DEF RecordConsumed, Goto, Terminal
  <2>2. blocks' = Blocked(leaf.id, "consumed") \/ Fault
    BY <1>13 DEF RecordConsumed, WriteBlocks, FailToWriteBlocks
  <2>3. [id |-> leaf.id, phase |-> "consumed"] \in Blocked(leaf.id, "consumed")
    BY <2>1 DEF Blocked
  <2>4. [id |-> leaf.id, phase |-> "consumed"] \in blocks' \/ faults'[leaf.id] > 0
    BY <1>0, <2>2, <2>3, FaultType DEF TypeOK
  <2>5. Consumed(leaf.id)'
    BY <2>1, <2>4 DEF Consumed, HasBlock
  <2> QED BY <1>6, <2>1, <2>5
<1>14. CASE WriteReceipt
  <2>1. /\ pc = "receipt" /\ pc' = "exit" /\ UNCHANGED run
        /\ leaf'.id = leaf.id /\ leaf'.impact = leaf.impact
        /\ passed' = passed \/ (run.done /\ passed' = passed \cup {leaf'})
    BY <1>14 DEF WriteReceipt, Leaves
  <2>2. Done'
    BY <2>1
  <2>3. \A l \in passed' : l.impact /\ Consumed(l.id)'
    BY <1>2, <1>3, <1>4, <2>1
  <2> QED BY <1>1, <2>2, <2>3 DEF EvidenceInv, Consumed, HasBlock
<1>15. CASE DriverExits \/ KillDriver
  BY <1>6, <1>15 DEF DriverExits, KillDriver, Gone, NewRun
<1>16. CASE Operator \/ PinviReconciles \/ Judge \/ Probe \/ Burn \/ KillLauncher \/ UNCHANGED vars
  <2>1. UNCHANGED <<pc, run, leaf, passed>>
    BY <1>16 DEF Operator, Install, Rotate, Rebind, Deploy, Command, PinviReconciles, driver, Judge, Probe, Burn,
                 Judging, KillLauncher, vars
  <2> QED BY <1>4, <1>6, <2>1
<1> QED
  BY NextCases, <1>7, <1>8, <1>9, <1>10, <1>11, <1>12, <1>13, <1>14, <1>15, <1>16

-----------------------------------------------------------------------------
(* What a run leaves behind.                                                 *)

\* A project that comes up has its handle.
LEMMA Handled ==
    ASSUME TypeOK, ResourceInv, CourseInv, [Next]_vars, pc' # "off"
    PROVE  projects' \subseteq run'.handles
<1>0. run \in Runs /\ (pc # "off" => projects \subseteq run.handles)
  BY DEF TypeOK, Runs, ResourceInv
<1>1. CASE Launch \/ Rehearse
  BY <1>1, Starts
<1> USE <1>0 DEF Pure, world, resources, At
<1>2. ASSUME UNCHANGED projects, run' \in Runs, run'.handles = run.handles, pc # "off"
      PROVE  projects' \subseteq run'.handles
  BY <1>2
<1>3. CASE PreClaim
  BY <1>3, RunUpdates DEF PreClaim, Admit, MaterializeSources, SetUp, Render, Phases
<1>4. CASE Configure \/ Subscribe \/ Provenance
  BY <1>4, RunUpdates DEF Configure, Subscribe, Provenance, Phases
<1>5. CASE MapRuntime \/ PinviRuntime
  <2>1. PICK project \in {"map", "pinvi"} :
           /\ projects' \subseteq projects \cup {project}
           /\ \/ run' = [run EXCEPT !.handles = @ \cup {project}]
              \/ run' = [[run EXCEPT !.handles = @ \cup {project}] EXCEPT !.phase = "infra"]
    BY <1>5 DEF MapRuntime, PinviRuntime, Up
  <2>2. [run EXCEPT !.handles = @ \cup {project}] \in Runs
    BY DEF Runs
  <2>3. run'.handles = run.handles \cup {project} /\ pc # "off"
    BY <1>5, <2>1, <2>2 DEF MapRuntime, PinviRuntime, Runs
  <2> QED BY <2>1, <2>3
<1>6. CASE Claim \/ EnterBody
  BY <1>6 DEF Claim, EnterBody, Runs
<1>7. CASE Mark
  BY <1>7, RunUpdates DEF Mark, Phases
<1>8. CASE Request \/ Approve \/ Resolve \/ SeedFixture
  BY <1>8, RunUpdates DEF Request, Approve, Resolve, SeedFixture, BodyStep, BodyRaises, Phases
<1>9. CASE SeedReference \/ Decide \/ AwaitReceipt
  BY <1>9, RunUpdates DEF SeedReference, Decide, AwaitReceipt, BodyRaises, Phases
<1>10. CASE Attest
  BY <1>10, RunUpdates DEF Attest, BodyRaises, Phases, Runs
<1>11. CASE Cleanup
  BY <1>11 DEF Cleanup, Runs
<1>12. CASE RecordFailure \/ RecordConsumed \/ RecordNothing \/ WriteReceipt
  BY <1>12 DEF RecordFailure, RecordConsumed, RecordNothing, WriteReceipt, Goto, Runs
<1>13. CASE DriverExits \/ KillDriver
  BY <1>13 DEF DriverExits, KillDriver, Gone
<1>14. CASE Operator \/ PinviReconciles \/ Launcher \/ KillLauncher \/ UNCHANGED vars
  BY <1>14 DEF Operator, Install, Rotate, Rebind, Deploy, Command, PinviReconciles, driver, Launcher,
               Judge, Probe, Burn, Judging, KillLauncher, vars
<1> QED
  BY <1>1, <1>3, <1>4, <1>5, <1>6, <1>7, <1>8, <1>9, <1>10, <1>11, <1>12, <1>13, <1>14
  DEF Next, Runtime, Body, Finally

LEMMA CleanupSays ==
    ASSUME run \in Runs, Cleanup
    PROVE  \E kept \in SUBSET (projects \cap run.handles), stays \in {FALSE, secrets},
              failed, unexpected \in BOOLEAN :
              /\ projects' = (projects \ run.handles) \cup kept /\ secrets' = stays
              /\ kept # {} \/ stays => failed \/ unexpected
              /\ surprised' = unexpected /\ run'.failed = failed
              /\ run'.done = (run.done /\ ~(failed \/ unexpected))
BY DEF Cleanup, TakesBack, Runs

LEMMA ResourceKept ==
    ASSUME TypeOK, CourseInv, ResourceInv, [Next]_vars
    PROVE  ResourceInv'
<1> DEFINE Told == /\ pc \in {"record", "receipt"} /\ Leftovers => ~run.done /\ (run.failed \/ surprised)
                   /\ leaf.receipt # Nothing /\ Leftovers =>
                         leaf.receipt.status # "passed" /\ (Admits(leaf.receipt) \/ surprised)
<1> SUFFICES Told'
  BY Handled DEF ResourceInv
<1>0. /\ run \in Runs /\ leaf \in Leaves /\ Told /\ (pc # "off" => projects \subseteq run.handles)
      /\ secrets \in BOOLEAN
  BY DEF TypeOK, Runs, ResourceInv
<1> USE DEF At, world, resources, disk, Pure, Outside, Leftovers, Admits
<1>1. CASE Launch \/ Rehearse
  <2>1. leaf'.receipt = Nothing /\ pc' = "admit"
    <3>1. leaf' = NewLeaf /\ pc' = "admit"
      BY <1>1, Starts
    <3> QED BY <3>1 DEF NewLeaf
  <2> QED BY <2>1
<1>2. CASE Walk \/ Attested \/ Claim \/ Mark \/ EnterBody
  <2>1. pc \notin {"exit", "off"}
    BY <1>2 DEF Walk, Attested, Claim, Mark, EnterBody, Asking, Building, Trying
  <2>2. pc' \notin {"record", "receipt"}
    BY <1>2 DEF Walk, Attested, Claim, Mark, EnterBody, Goto, Raise, Asking, Building, Trying
  <2>3. leaf'.receipt = leaf.receipt
    BY <1>0, <1>2 DEF Walk, Attested, Claim, Mark, EnterBody, Leaves
  <2> QED BY <2>1, <2>2, <2>3 DEF CourseInv
<1>3. CASE Cleanup
  <2>1. PICK kept \in SUBSET (projects \cap run.handles), stays \in {FALSE, secrets},
             failed, unexpected \in BOOLEAN :
           /\ projects' = (projects \ run.handles) \cup kept /\ secrets' = stays
           /\ kept # {} \/ stays => failed \/ unexpected
           /\ surprised' = unexpected /\ run'.failed = failed
           /\ run'.done = (run.done /\ ~(failed \/ unexpected))
    BY <1>0, <1>3, CleanupSays
  <2>2. Leftovers' => kept # {} \/ stays
    BY <1>0, <1>3, <2>1 DEF Cleanup
  <2>3. Leftovers' => ~run'.done /\ (run'.failed \/ surprised')
    BY <2>1, <2>2
  <2>4. leaf' = leaf /\ leaf.receipt = Nothing
    BY <1>3 DEF Cleanup, CourseInv
  <2> HIDE DEF Leftovers
  <2> QED BY <2>3, <2>4
<1>4. CASE RecordFailure \/ RecordConsumed \/ RecordNothing
  <2>1. /\ run'.failed = run.failed /\ run'.done = run.done
        /\ UNCHANGED <<leaf, projects, secrets, surprised>> /\ pc = "record"
    BY <1>0, <1>4 DEF RecordFailure, RecordConsumed, RecordNothing, Goto, Runs
  <2> QED BY <1>0, <2>1
<1>5. CASE WriteReceipt
  <2>1. /\ pc = "receipt" /\ pc' = "exit" /\ UNCHANGED <<run, projects, secrets, surprised>>
        /\ leaf' = leaf \/ leaf'.receipt = [status |-> Status, failed |-> run.failed]
    BY <1>0, <1>5 DEF WriteReceipt, Leaves
  <2>2. /\ Status = "passed" => run.done
        /\ Status = "rehearsed" => ~run.failed
    BY DEF Status
  <2>3. leaf' = leaf \/ (leaf'.receipt.status = Status /\ leaf'.receipt.failed = run.failed)
    BY <2>1
  <2> QED BY <1>0, <2>1, <2>2, <2>3
<1>6. CASE DriverExits \/ KillDriver
  <2>1. pc' = "off" /\ UNCHANGED <<leaf, projects, secrets, surprised>>
    BY <1>6 DEF DriverExits, KillDriver, Gone
  <2> QED BY <1>0, <2>1
<1>7. CASE Operator \/ PinviReconciles \/ Judge \/ Probe \/ Burn \/ KillLauncher \/ UNCHANGED vars
  <2>1. UNCHANGED <<pc, run, leaf, projects, secrets, surprised>>
    BY <1>7 DEF Operator, Install, Rotate, Rebind, Deploy, Command, PinviReconciles, driver, Judge, Probe, Burn,
                Judging, KillLauncher, vars
  <2> QED BY <1>0, <2>1
<1> QED BY NextCases, <1>1, <1>2, <1>3, <1>4, <1>5, <1>6, <1>7

-----------------------------------------------------------------------------
(* The theorems.                                                             *)

LEMMA RunInit == Init => RunInv
<1> SUFFICES ASSUME Init
             PROVE  RunInv
  OBVIOUS
<1>1. <<pinned, trusted>> \in Identity /\ Nothing \notin Receipts
  BY PinsetAssumption, NothingAssumption DEF Init, Identity
<1>2. NewRun(FALSE) \in Runs /\ NewLeaf \in Leaves /\ NewLeaf.id = <<pinned, trusted>>
  BY <1>1, NewRunType DEF NewLeaf, Leaves
<1>3. RegistryTypes /\ DiskTypes
  BY <1>1, <1>2, PinsetAssumption, BoundAssumption DEF Init, RegistryTypes, DiskTypes, Zero
<1>4. DriverTypes /\ WorldTypes /\ AccountTypes
  BY <1>2 DEF Init, DriverTypes, WorldTypes, AccountTypes, Steps, Zero
<1>5. TypeOK
  BY <1>3, <1>4, TypeParts
<1>6. CourseInv /\ EvidenceInv /\ ResourceInv
  BY DEF Init, NewRun, NewLeaf, CourseInv, EvidenceInv, ResourceInv, Asking, Claiming, Building, Trying,
         Closing, Closed
<1>7. BodiesInv
  BY DEF Init, BodiesInv, Zero, Ahead, Owed, Asking, Claiming, Building
<1>8. CauseInv
  BY <1>1 DEF Init, CauseInv, NewRun, NewLeaf, Burned, HasBlock, Trying, Closing
<1> QED BY <1>5, <1>6, <1>7, <1>8 DEF RunInv

\* Whatever the operator does between the runs of run-m05-isolated-e2e-once, wherever the
\* driver or the launcher is killed and whatever step fails, the state keeps its types, and
\* each part of the account of a run holds.
THEOREM RunInvariant == Spec => []RunInv
<1>1. RunInv /\ [Next]_vars => RunInv'
  BY TypeStep, CourseKept, BodiesKept, CauseKept, EvidenceKept, ResourceKept DEF RunInv
<1> QED BY <1>1, RunInit, PTL DEF Spec

\* The acceptance body of an identity runs once, and once more at most for each failed
\* read or write and each killed launcher (main, EnterBody and what the launcher burns).
THEOREM BodiesAreBounded == Spec => []BodyAtMostOnce
<1>1. RunInv => BodyAtMostOnce
  BY DEF RunInv, BodiesInv, BodyAtMostOnce
<1> QED BY <1>1, RunInvariant, PTL

\* No identity is burned by a failure before its claim or by one of the infrastructure
\* (_terminal_block_phase, and the launcher's burn without a receipt).
THEOREM BurnsAreEarned == Spec => []BurnIsEarned
<1>1. RunInv => BurnIsEarned
  BY DEF RunInv, CauseInv, BurnIsEarned, Earned
<1> QED BY <1>1, RunInvariant, PTL

\* A leaf that the promotion gate verifies shows a reference really rewritten, of an
\* identity that is consumed unless recording that failed.
THEOREM VerifiedLeavesAreFinal == Spec => []VerifiedLeafIsFinal
<1>1. RunInv => VerifiedLeafIsFinal
  BY DEF RunInv, EvidenceInv, VerifiedLeafIsFinal, Consumed
<1> QED BY <1>1, RunInvariant, PTL

\* A run that left a project or a private file behind did not pass, and its receipt says
\* that its cleanup failed, unless an error that is no _PhaseError was caught there
\* (_cleanup_temporary_resources, main).
THEOREM ReceiptsReportLeftovers == Spec => []LeftoversAreReported
<1>1. RunInv => LeftoversAreReported
  BY DEF RunInv, ResourceInv, LeftoversAreReported, Leftovers, Admits
<1> QED BY <1>1, RunInvariant, PTL
=============================================================================
