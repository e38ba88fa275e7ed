---------------------------- MODULE PairRotation ----------------------------
(***************************************************************************)
(* The pins of the Map/PinVi pair: the source registry (v5), the execution *)
(* registry (v6), their public copies, and the durable intent under which  *)
(* both registries are rotated (runtime_pair_rotation.py), with every      *)
(* ktdctl pin command that writes one of those files.                      *)
(*                                                                         *)
(* Every command holds the host mutation lock from its first read to its   *)
(* last write, so one runs at a time: it decides in one step and then does *)
(* its writes, each of which replaces one file.  A killed process and a    *)
(* failed write look the same on disk: the writes done so far stay.        *)
(*                                                                         *)
(* Abstracted: a pinset digest is the pair it is computed from, an         *)
(* execution identity is its pair and Manager revision; histories, reasons *)
(* and times are dropped; a list of blocks is the set of its entries, and  *)
(* of the v6 list only the unconditional ones, which alone decide anything *)
(* in these commands.                                                      *)
(***************************************************************************)
EXTENDS Integers, FiniteSets

CONSTANTS
    Maps, Pinvis,   \* the revisions of the two sources
    Managers,       \* the trusted Manager revisions
    Absent,         \* a file that does not exist
    Floor,          \* _CODE_ENFORCED_BLOCKED_PINSETS: blocked by the code itself
    Seed,           \* the packaged seed's pair
    MaxBlocked,     \* _MAX_BLOCKED_ENTRIES and _MAX_BLOCKED: a longer list is refused
    MaxFaults,      \* bound: killed commands and failed writes
    MaxInstalls     \* bound: trusted Manager installs

Pairs == [map : Maps, pinvi : Pinvis]
SourceBlock == [pair : Pairs, terminal : BOOLEAN]
ExecutionBlock == [pair : Pairs, manager : Managers]
Pins == [pair : Pairs, blocked : SUBSET SourceBlock]
Executions == [pair : Pairs, manager : Managers, blocked : SUBSET ExecutionBlock]

Commands == [name : {"none", "rotate_pair", "rotate", "rollback", "block", "block_execution",
                     "rebind", "migrate", "init"},
             role : {"none", "map", "pinvi"}, pair : Pairs]
Intents == [pins : Pins, execs : Executions, by : Commands]

ASSUME SeedAssumption == Seed \in Pairs /\ Floor \subseteq Pairs
ASSUME AbsentAssumption == Absent \notin Executions /\ Absent \notin Intents
ASSUME BoundAssumption == MaxBlocked \in Nat /\ MaxFaults \in Nat /\ MaxInstalls \in Nat

VARIABLES
    pins, pinsPublic,    \* runtime-pins.json and its public copy
    preserved,           \* the pairs whose registry has a preserved copy
    execs, execsPublic,  \* runtime-executions.json and its public copy
    intent,              \* the pair rotation intent, with the command that made it
    trusted,             \* the revision of the installed trusted Manager
    step, target, cmd,   \* the running command: its next write, what it writes, which one
    reseeded,            \* history: pin init --force unbound the pair since a rotation
    faults, installs

files == <<pins, pinsPublic, preserved, execs, execsPublic, intent>>
process == <<step, target, cmd>>
rest == <<trusted, reseeded, faults, installs>>
vars == <<files, process, rest>>

-----------------------------------------------------------------------------
Idle == step = "idle"
Command(name, role, pair) == [name |-> name, role |-> role, pair |-> pair]
NoCommand == Command("none", "none", Seed)

\* is_blocked_pinset, is_unconditionally_blocked_pinset (the floor has a phase)
\* and is_unconditionally_blocked_current.
IsBlocked(reg, q) == q \in Floor \/ \E b \in reg.blocked : b.pair = q
IsTerminal(reg, q) == [pair |-> q, terminal |-> TRUE] \in reg.blocked
IsTerminalExecution(x) == [pair |-> x.pair, manager |-> x.manager] \in x.blocked

Fits(blocked) == Cardinality(blocked) <= MaxBlocked
CurrentMatches(x, q) == x.pair = q /\ x.manager = trusted

\* build_runtime_pin_pair_rotation and the refusals it raises.
RotatedPins(q, blockPrevious) ==
    [pair |-> q,
     blocked |-> IF blockPrevious
                 THEN pins.blocked \cup {[pair |-> pins.pair, terminal |-> TRUE]}
                 ELSE pins.blocked]
CanRotate(q, blockPrevious) ==
    /\ q # pins.pair /\ ~IsBlocked(pins, q)
    /\ Fits(RotatedPins(q, blockPrevious).blocked)

\* rotate_execution_source_binding: a new current, the audit kept.
RotatedExecutions(q) == [execs EXCEPT !.pair = q, !.manager = trusted]

\* _same_requested_target: the Manager revision is no part of it.
SameRequestedTarget(q) == intent.pins.pair = q

Run(command, first, p, x, rotates) ==
    /\ cmd' = command /\ step' = first
    /\ target' = [pins |-> p, execs |-> x, rotates |-> rotates]
    /\ UNCHANGED <<files, rest>>

\* Mutant: what the interrupted run had already rotated is not written again.
Resume_SkipsPins(command) ==
    /\ intent # Absent
    /\ Run(command, IF pins = intent.pins THEN "execs" ELSE "preserve",
           intent.pins, intent.execs, TRUE)

\* A pending intent is published as it stands, from the first write to the last.
Resume(command) ==
    /\ intent # Absent
    /\ Run(command, "preserve", intent.pins, intent.execs, TRUE)

\* Mutant: the two registries are rotated without an intent.
BeginIntent_Unrecorded(command, p, x) == Run(command, "preserve", p, x, TRUE)

\* A host with an execution registry rotates both under an intent; one without,
\* the source registry alone.
BeginIntent(command, p, x) == Run(command, "intent", p, x, TRUE)

BeginSourceOnly(command, p) == Run(command, "preserve", p, execs, FALSE)

\* Mutant: the gate is gone.
Ungated == Idle

\* require_no_pending_runtime_pair_rotation: the gate of all other commands.
Gated == Idle /\ intent = Absent

-----------------------------------------------------------------------------
(* ktdctl pin rotate-pair, rotate (and apply-pending), rollback.             *)

\* Mutant: the Manager that runs the retry must be the one that began it.
RotatePair_SameManager(q, blockPrevious) ==
    LET command == Command("rotate_pair", "none", q)
    IN  /\ Idle
        /\ \/ intent # Absent /\ SameRequestedTarget(q) /\ intent.execs.manager = trusted
              /\ Resume(command)
           \/ intent = Absent /\ CanRotate(q, blockPrevious)
              /\ \/ execs = Absent /\ BeginSourceOnly(command, RotatedPins(q, blockPrevious))
                 \/ execs # Absent /\ ~CurrentMatches(execs, q)
                    /\ BeginIntent(command, RotatedPins(q, blockPrevious), RotatedExecutions(q))

RotatePair(q, blockPrevious) ==
    LET command == Command("rotate_pair", "none", q)
    IN  /\ Idle
        /\ \/ intent # Absent /\ SameRequestedTarget(q) /\ Resume(command)
           \/ intent = Absent /\ CanRotate(q, blockPrevious)
              /\ \/ execs = Absent /\ BeginSourceOnly(command, RotatedPins(q, blockPrevious))
                 \/ execs # Absent /\ ~CurrentMatches(execs, q)
                    /\ BeginIntent(command, RotatedPins(q, blockPrevious), RotatedExecutions(q))

\* One role of the pair that is pinned now is replaced.
OneRole(role, revision) == [pins.pair EXCEPT ![role] = revision]

\* Mutant: only the v5 list is asked whether the current candidate is terminal.
RotateRole_SourceTerminalOnly(role, revision, blockPrevious) ==
    LET q == OneRole(role, revision)
        command == Command("rotate", role, q)
    IN  /\ Idle
        /\ \/ intent # Absent /\ SameRequestedTarget(q) /\ Resume(command)
           \/ intent = Absent /\ ~IsTerminal(pins, pins.pair) /\ CanRotate(q, blockPrevious)
              /\ \/ execs = Absent /\ BeginSourceOnly(command, RotatedPins(q, blockPrevious))
                 \/ execs # Absent /\ ~CurrentMatches(execs, q)
                    /\ BeginIntent(command, RotatedPins(q, blockPrevious), RotatedExecutions(q))

\* A terminal candidate is left by declaring both revisions, never one.
RotateRole(role, revision, blockPrevious) ==
    LET q == OneRole(role, revision)
        command == Command("rotate", role, q)
    IN  /\ Idle
        /\ \/ intent # Absent /\ SameRequestedTarget(q) /\ Resume(command)
           \/ intent = Absent /\ ~IsTerminal(pins, pins.pair) /\ CanRotate(q, blockPrevious)
              /\ \/ execs = Absent /\ BeginSourceOnly(command, RotatedPins(q, blockPrevious))
                 \/ execs # Absent /\ ~IsTerminalExecution(execs) /\ ~CurrentMatches(execs, q)
                    /\ BeginIntent(command, RotatedPins(q, blockPrevious), RotatedExecutions(q))

\* The preserved copy gives the pair; the block list is the current one.  A v6
\* registry that already names the target is kept (the healing rollback).
Rollback(q) ==
    LET command == Command("rollback", "none", q)
        p == [pair |-> q, blocked |-> pins.blocked]
    IN  /\ Idle
        /\ \/ intent # Absent /\ intent.pins.pair = q /\ intent.execs.manager = trusted
              /\ Resume(command)
           \/ intent = Absent /\ q # pins.pair /\ ~IsBlocked(pins, q) /\ q \in preserved
              /\ \/ execs = Absent /\ BeginSourceOnly(command, p)
                 \/ execs # Absent /\ CurrentMatches(execs, q) /\ BeginIntent(command, p, execs)
                 \/ execs # Absent /\ ~CurrentMatches(execs, q)
                    /\ BeginIntent(command, p, RotatedExecutions(q))

-----------------------------------------------------------------------------
(* ktdctl pin block, block-execution, rebind-execution, migrate, init.       *)

Block(q, terminal) ==
    LET p == [pins EXCEPT !.blocked = @ \cup {[pair |-> q, terminal |-> terminal]}]
    IN  /\ Gated
        /\ ~IsTerminal(pins, q) /\ Fits(p.blocked)
        /\ Run(Command("block", "none", q), "pins", p, execs, FALSE)

\* block_current_execution: idempotent, and both files are written again.
BlockExecution ==
    LET x == [execs EXCEPT !.blocked = @ \cup {[pair |-> execs.pair, manager |-> execs.manager]}]
    IN  /\ Gated
        /\ execs # Absent /\ CurrentMatches(execs, pins.pair)
        /\ Fits(x.blocked)
        /\ Run(Command("block_execution", "none", pins.pair), "execs", pins, x, FALSE)

Rebind ==
    /\ Gated
    /\ execs # Absent /\ execs.pair = pins.pair
    /\ Run(Command("rebind", "none", pins.pair), "execs", pins, RotatedExecutions(pins.pair), FALSE)

MigrateExecution ==
    /\ Gated
    /\ execs = Absent
    /\ Run(Command("migrate", "none", pins.pair), "execs", pins,
           [pair |-> pins.pair, manager |-> trusted, blocked |-> {}], FALSE)

\* pin init --force: the seed's pair, the existing block list.
Reseed ==
    /\ Gated
    /\ BeginSourceOnly(Command("init", "none", Seed), [pins EXCEPT !.pair = Seed])

-----------------------------------------------------------------------------
(* The writes.                                                               *)

\* Mutant: the intent is cleared as soon as the source registry is published.
After_ClearsEarly(write) ==
    CASE write = "intent" -> "preserve"
      [] write = "preserve" -> "pins"
      [] write = "pins" -> "pins_public"
      [] write = "pins_public" -> IF target.rotates THEN "clear" ELSE "idle"
      [] write = "clear" -> "execs"
      [] write = "execs" -> "execs_public"
      [] write = "execs_public" -> "idle"

\* write_runtime_pin_registry, then write_runtime_execution_registry, then the
\* intent is unlinked; each registry is replaced before its public copy.
After(write) ==
    CASE write = "intent" -> "preserve"
      [] write = "preserve" -> "pins"
      [] write = "pins" -> "pins_public"
      [] write = "pins_public" -> IF target.rotates THEN "execs" ELSE "idle"
      [] write = "execs" -> "execs_public"
      [] write = "execs_public" -> IF target.rotates THEN "clear" ELSE "idle"
      [] write = "clear" -> "idle"

Done == step' = "idle" /\ target' = Absent /\ cmd' = NoCommand

Writes(write) ==
    /\ step = write
    /\ \/ After(write) = "idle" /\ Done
       \/ After(write) # "idle" /\ step' = After(write) /\ UNCHANGED <<target, cmd>>

WriteIntent ==
    /\ Writes("intent")
    /\ intent' = [pins |-> target.pins, execs |-> target.execs, by |-> cmd]
    /\ UNCHANGED <<pins, pinsPublic, preserved, execs, execsPublic, rest>>

\* The registry that is about to be replaced is kept under its own digest.
Preserve ==
    /\ Writes("preserve")
    /\ preserved' = IF pins.pair # target.pins.pair THEN preserved \cup {pins.pair} ELSE preserved
    /\ UNCHANGED <<pins, pinsPublic, execs, execsPublic, intent, rest>>

WritePins ==
    /\ Writes("pins")
    /\ pins' = target.pins
    /\ reseeded' = (reseeded \/ (cmd.name = "init" /\ execs # Absent))
    /\ UNCHANGED <<pinsPublic, preserved, execs, execsPublic, intent, trusted, faults, installs>>

PublishPins ==
    /\ Writes("pins_public")
    /\ pinsPublic' = target.pins
    /\ UNCHANGED <<pins, preserved, execs, execsPublic, intent, rest>>

WriteExecutions ==
    /\ Writes("execs")
    /\ execs' = target.execs
    /\ UNCHANGED <<pins, pinsPublic, preserved, execsPublic, intent, rest>>

PublishExecutions ==
    /\ Writes("execs_public")
    /\ execsPublic' = target.execs
    /\ UNCHANGED <<pins, pinsPublic, preserved, execs, intent, rest>>

ClearIntent ==
    /\ Writes("clear")
    /\ intent' = Absent /\ reseeded' = FALSE
    /\ UNCHANGED <<pins, pinsPublic, preserved, execs, execsPublic, trusted, faults, installs>>

Write == WriteIntent \/ Preserve \/ WritePins \/ PublishPins
         \/ WriteExecutions \/ PublishExecutions \/ ClearIntent

\* The process is killed, or the next write raises.
Die ==
    /\ ~Idle /\ faults < MaxFaults /\ faults' = faults + 1
    /\ Done
    /\ UNCHANGED <<files, trusted, reseeded, installs>>

\* install-ktdm-trusted-release: under the lock, whatever intent is pending.
InstallManager ==
    /\ Idle /\ installs < MaxInstalls /\ installs' = installs + 1
    /\ trusted' \in Managers \ {trusted}
    /\ UNCHANGED <<files, process, reseeded, faults>>

-----------------------------------------------------------------------------
Init ==
    /\ pins = [pair |-> Seed, blocked |-> {}]
    /\ pinsPublic = pins /\ preserved = {}
    /\ execs = Absent /\ execsPublic = Absent
    /\ intent = Absent /\ trusted \in Managers
    /\ step = "idle" /\ target = Absent /\ cmd = NoCommand
    /\ reseeded = FALSE
    /\ faults = 0 /\ installs = 0

RotateSome ==
    \E blockPrevious \in BOOLEAN :
        \/ \E q \in Pairs : RotatePair(q, blockPrevious)
        \/ \E r \in Maps : RotateRole("map", r, blockPrevious)
        \/ \E r \in Pinvis : RotateRole("pinvi", r, blockPrevious)

BlockSome == BlockExecution \/ \E q \in Pairs, terminal \in BOOLEAN : Block(q, terminal)

Next == RotateSome \/ (\E q \in Pairs : Rollback(q)) \/ BlockSome \/ Rebind \/ MigrateExecution
        \/ Reseed \/ Write \/ Die \/ InstallManager

Spec == Init /\ [][Next]_vars

\* A command runs on, and the operator repeats rotate-pair with the revisions of
\* the pending intent.
ResumeByPair == intent # Absent /\ RotatePair(intent.pins.pair, FALSE)
FairSpec == Spec /\ WF_vars(Write) /\ SF_vars(ResumeByPair)

-----------------------------------------------------------------------------
(* Properties.                                                               *)

WriteSteps == {"idle", "intent", "preserve", "pins", "pins_public", "execs", "execs_public", "clear"}

\* Every file holds a document of its kind or is absent, the source registry never
\* is, and a running command knows what it writes.
TypeOK ==
    /\ pins \in Pins /\ pinsPublic \in Pins
    /\ preserved \subseteq Pairs
    /\ execs \in Executions \cup {Absent} /\ execsPublic \in Executions \cup {Absent}
    /\ intent \in Intents \cup {Absent}
    /\ trusted \in Managers
    /\ step \in WriteSteps /\ cmd \in Commands
    /\ IF Idle THEN target = Absent
       ELSE target \in [pins : Pins, execs : Executions \cup {Absent}, rotates : BOOLEAN]
    /\ reseeded \in BOOLEAN
    /\ faults \in 0 .. MaxFaults /\ installs \in 0 .. MaxInstalls

\* The two registries name different pairs only while an intent on disk says how to
\* finish, unless an operator reseeded the source registry by force.
HalfRotatedHasIntent ==
    execs # Absent /\ execs.pair # pins.pair => intent # Absent \/ reseeded

\* No command forgets a block, whatever it is interrupted by and whichever stale
\* target is published after it: the two block lists only grow.
BlocksSurvive ==
    [][ /\ pins.blocked \subseteq pins'.blocked
        /\ execs # Absent => execs' # Absent /\ execs.blocked \subseteq execs'.blocked ]_vars

\* No rotation or rollback, first run or resumed, lands on a blocked pair.
NeverEntersBlocked ==
    [][ pins'.pair # pins.pair /\ cmd.name # "init" => ~IsBlocked(pins, pins'.pair) ]_vars

\* A terminal candidate is not left by a rotation that declared one role only, even
\* when the verdict is in the execution registry alone or came between two runs.
TerminalLeftByPair ==
    [][ /\ pins'.pair # pins.pair
        /\ IsTerminal(pins, pins.pair) \/ (execs # Absent /\ IsTerminalExecution(execs))
        => IF intent # Absent THEN intent.by.name # "rotate" ELSE cmd.name # "rotate" ]_vars

\* An intent is forgotten only when all four files hold its target.
ClearsWhenPublished ==
    [][ intent # Absent /\ intent' = Absent
        => /\ pins = intent.pins /\ pinsPublic = intent.pins
           /\ execs = intent.execs /\ execsPublic = intent.execs ]_vars

\* An interrupted rotation, whichever command began it, is finished by rotate-pair
\* with its revisions, also when another Manager was installed in between.
IntentResolves == intent # Absent ~> intent = Absent

\* A rotation takes effect in one step, the one that makes its intent durable: from
\* then on every command counts the registries as the intent says, whatever write
\* or kill follows (the module text of runtime_pair_rotation.py: all targets are
\* prepared, a durable intent is left, and the mutation gate is closed until that
\* same intent has been finished).
Atomic == INSTANCE AtomicRotation WITH
    source <- IF intent # Absent THEN intent.pins ELSE pins,
    execution <- IF intent # Absent THEN intent.execs ELSE execs
RotatesAtOnce == Atomic!Spec
=============================================================================
