------------------------- MODULE PairRotationProofs -------------------------
(***************************************************************************)
(* Proofs about PairRotation and PinRequests, for any revisions, blocks,   *)
(* limits, posters, removers, faults and installs.  Every command starts in*)
(* one of four ways (CommandStart); what it has written when it dies is    *)
(* fixed by the order of the writes, and the invariant says what a pending *)
(* intent and a running command's target are worth to the files as they are*)
(* now (RotationInv).  A step of the requests is a step of the pins or a   *)
(* fault beside them (StepOfPins), so all of that holds under them too; and*)
(* two invariants of their own say what an apply has rotated (AskInv) and  *)
(* whose file it is that a POST and a removal go back to (FileInv).        *)
(***************************************************************************)
EXTENDS PinRequests, TLAPS

CommandStep ==
    \/ \E q \in Pairs, b \in BOOLEAN : RotatePair(q, b)
    \/ \E r \in Maps, b \in BOOLEAN : RotateRole("map", r, b)
    \/ \E r \in Pinvis, b \in BOOLEAN : RotateRole("pinvi", r, b)
    \/ \E q \in Pairs : Rollback(q)
    \/ \E q \in Pairs, terminal \in BOOLEAN : Block(q, terminal)
    \/ BlockExecution \/ Rebind \/ MigrateExecution \/ Reseed

\* A step starts a command, does one of its writes, kills it or installs a Manager.
LEMMA NextCases ==
    ASSUME Next
    PROVE  CommandStep \/ Write \/ Die \/ InstallManager
BY DEF Next, RotateSome, BlockSome, CommandStep

-----------------------------------------------------------------------------
(* The four ways to start.                                                   *)

\* A pending intent is published again, from the first write.
StartsResumed ==
    \E c \in Commands : intent # Absent /\ Run(c, "preserve", intent.pins, intent.execs, TRUE)

\* A new intent: both targets name one pair, which is not blocked, and forget no
\* block; a rotation of one role leaves no terminal candidate.
StartsIntent ==
    \E c \in Commands, p \in Pins, x \in Executions :
        /\ intent = Absent /\ execs # Absent
        /\ Run(c, "intent", p, x, TRUE)
        /\ p.pair = x.pair /\ ~IsBlocked(pins, p.pair)
        /\ pins.blocked \subseteq p.blocked /\ execs.blocked \subseteq x.blocked
        /\ c.name = "rotate" => ~IsTerminal(pins, pins.pair) /\ ~IsTerminalExecution(execs)

\* The source registry alone: on a host without executions, in place, or reseeded.
StartsSource ==
    \E c \in Commands, first \in {"preserve", "pins"}, p \in Pins :
        /\ intent = Absent
        /\ Run(c, first, p, execs, FALSE)
        /\ pins.blocked \subseteq p.blocked
        /\ \/ c.name = "init" /\ p.pair = Seed
           \/ p.pair = pins.pair
           \/ execs = Absent /\ ~IsBlocked(pins, p.pair)
        /\ c.name = "rotate" => ~IsTerminal(pins, pins.pair)

\* The execution registry alone, for the pair that is pinned.
StartsExecutions ==
    \E c \in Commands, x \in Executions :
        /\ intent = Absent
        /\ Run(c, "execs", pins, x, FALSE)
        /\ x.pair = pins.pair
        /\ execs # Absent => execs.blocked \subseteq x.blocked

\* The targets of a rotation are documents of their kind.
LEMMA RotatedTypes ==
    ASSUME TypeOK, NEW q \in Pairs, NEW b \in BOOLEAN
    PROVE  /\ RotatedPins(q, b) \in Pins /\ RotatedPins(q, b).pair = q
           /\ pins.blocked \subseteq RotatedPins(q, b).blocked
           /\ execs # Absent => /\ RotatedExecutions(q) \in Executions
                                /\ RotatedExecutions(q).pair = q
                                /\ RotatedExecutions(q).blocked = execs.blocked
<1>1. pins.blocked \subseteq SourceBlock /\ [pair |-> pins.pair, terminal |-> TRUE] \in SourceBlock
  BY DEF TypeOK, Pins, SourceBlock
<1>2. RotatedPins(q, b) \in Pins /\ RotatedPins(q, b).pair = q
      /\ pins.blocked \subseteq RotatedPins(q, b).blocked
  BY <1>1 DEF RotatedPins, Pins
<1>3. ASSUME execs # Absent
      PROVE  /\ RotatedExecutions(q) \in Executions /\ RotatedExecutions(q).pair = q
             /\ RotatedExecutions(q).blocked = execs.blocked
  BY <1>3 DEF RotatedExecutions, TypeOK, Executions
<1> QED
  BY <1>2, <1>3

\* One role of a pair replaced gives a pair.
LEMMA OneRoleTypes ==
    ASSUME TypeOK
    PROVE  /\ \A r \in Maps : OneRole("map", r) \in Pairs
           /\ \A r \in Pinvis : OneRole("pinvi", r) \in Pairs
BY DEF TypeOK, Pins, Pairs, OneRole

\* Whatever the command, it starts in one of the four ways.
LEMMA CommandStart ==
    ASSUME TypeOK, CommandStep
    PROVE  /\ Idle /\ UNCHANGED <<files, rest>>
           /\ StartsResumed \/ StartsIntent \/ StartsSource \/ StartsExecutions
<1> USE SeedAssumption, AbsentAssumption
<1> DEFINE Started == /\ Idle /\ UNCHANGED <<files, rest>>
                      /\ StartsResumed \/ StartsIntent \/ StartsSource \/ StartsExecutions
<1>0. pins \in Pins /\ pins.pair \in Pairs
  BY DEF TypeOK, Pins
<1>1. ASSUME NEW q \in Pairs, NEW b \in BOOLEAN, RotatePair(q, b) PROVE Started
  <2> DEFINE c == Command("rotate_pair", "none", q)
  <2>1. c \in Commands /\ c.name # "rotate"
    BY DEF Commands, Command
  <2>2. Idle /\ UNCHANGED <<files, rest>>
    BY <1>1 DEF RotatePair, Resume, BeginIntent, BeginSourceOnly, Run
  <2>3. CASE intent # Absent /\ Resume(c)
    BY <2>1, <2>2, <2>3 DEF StartsResumed, Resume
  <2>4. CASE intent = Absent /\ CanRotate(q, b) /\ execs = Absent
             /\ BeginSourceOnly(c, RotatedPins(q, b))
    BY <2>1, <2>2, <2>4, RotatedTypes DEF StartsSource, BeginSourceOnly, CanRotate
  <2>5. CASE intent = Absent /\ CanRotate(q, b) /\ execs # Absent
             /\ BeginIntent(c, RotatedPins(q, b), RotatedExecutions(q))
    <3>1. /\ RotatedPins(q, b) \in Pins /\ RotatedExecutions(q) \in Executions
          /\ RotatedPins(q, b).pair = q /\ RotatedExecutions(q).pair = q
          /\ pins.blocked \subseteq RotatedPins(q, b).blocked
          /\ execs.blocked \subseteq RotatedExecutions(q).blocked
      BY <2>5, RotatedTypes
    <3>2. ~IsBlocked(pins, q) /\ Run(c, "intent", RotatedPins(q, b), RotatedExecutions(q), TRUE)
      BY <2>5 DEF CanRotate, BeginIntent
    <3>3. StartsIntent
      BY <2>1, <2>5, <3>1, <3>2 DEF StartsIntent
    <3> QED
      BY <2>2, <3>3
  <2> QED
    BY <1>1, <2>3, <2>4, <2>5 DEF RotatePair
<1>2. ASSUME NEW role \in {"map", "pinvi"}, NEW r, OneRole(role, r) \in Pairs,
             NEW b \in BOOLEAN, RotateRole(role, r, b)
      PROVE  Started
  <2> DEFINE q == OneRole(role, r)
             c == Command("rotate", role, q)
  <2>1. c \in Commands
    BY <1>2 DEF Commands, Command
  <2>2. Idle /\ UNCHANGED <<files, rest>>
    BY <1>2 DEF RotateRole, Resume, BeginIntent, BeginSourceOnly, Run
  <2>3. CASE intent # Absent /\ Resume(c)
    BY <2>1, <2>2, <2>3 DEF StartsResumed, Resume
  <2>4. CASE intent = Absent /\ ~IsTerminal(pins, pins.pair) /\ CanRotate(q, b) /\ execs = Absent
             /\ BeginSourceOnly(c, RotatedPins(q, b))
    BY <1>2, <2>1, <2>2, <2>4, RotatedTypes DEF StartsSource, BeginSourceOnly, CanRotate
  <2>5. CASE intent = Absent /\ ~IsTerminal(pins, pins.pair) /\ CanRotate(q, b) /\ execs # Absent
             /\ ~IsTerminalExecution(execs)
             /\ BeginIntent(c, RotatedPins(q, b), RotatedExecutions(q))
    <3>1. /\ RotatedPins(q, b) \in Pins /\ RotatedExecutions(q) \in Executions
          /\ RotatedPins(q, b).pair = q /\ RotatedExecutions(q).pair = q
          /\ pins.blocked \subseteq RotatedPins(q, b).blocked
          /\ execs.blocked \subseteq RotatedExecutions(q).blocked
      BY <1>2, <2>5, RotatedTypes
    <3>2. ~IsBlocked(pins, q) /\ Run(c, "intent", RotatedPins(q, b), RotatedExecutions(q), TRUE)
      BY <2>5 DEF CanRotate, BeginIntent
    <3>3. StartsIntent
      BY <2>1, <2>5, <3>1, <3>2 DEF StartsIntent
    <3> QED
      BY <2>2, <3>3
  <2> QED
    BY <1>2, <2>3, <2>4, <2>5 DEF RotateRole
<1>3. ASSUME NEW q \in Pairs, Rollback(q) PROVE Started
  <2> DEFINE c == Command("rollback", "none", q)
             p == [pair |-> q, blocked |-> pins.blocked]
  <2>1. c \in Commands /\ c.name # "rotate"
    BY DEF Commands, Command
  <2>2. Idle /\ UNCHANGED <<files, rest>>
    BY <1>3 DEF Rollback, Resume, BeginIntent, BeginSourceOnly, Run
  <2>3. p \in Pins
    BY <1>0 DEF Pins
  <2>4. CASE intent # Absent /\ Resume(c)
    BY <2>1, <2>2, <2>4 DEF StartsResumed, Resume
  <2>5. CASE intent = Absent /\ ~IsBlocked(pins, q) /\ execs = Absent /\ BeginSourceOnly(c, p)
    BY <2>1, <2>2, <2>3, <2>5 DEF StartsSource, BeginSourceOnly
  <2>6. CASE intent = Absent /\ ~IsBlocked(pins, q) /\ execs # Absent /\ CurrentMatches(execs, q)
             /\ BeginIntent(c, p, execs)
    <3>1. execs \in Executions /\ execs.pair = q
      BY <2>6 DEF TypeOK, CurrentMatches
    <3> QED
      BY <2>1, <2>2, <2>3, <2>6, <3>1 DEF StartsIntent, BeginIntent
  <2>7. CASE intent = Absent /\ ~IsBlocked(pins, q) /\ execs # Absent
             /\ BeginIntent(c, p, RotatedExecutions(q))
    BY <2>1, <2>2, <2>3, <2>7, RotatedTypes DEF StartsIntent, BeginIntent
  <2> QED
    BY <1>3, <2>4, <2>5, <2>6, <2>7 DEF Rollback
<1>4. ASSUME NEW q \in Pairs, NEW terminal \in BOOLEAN, Block(q, terminal) PROVE Started
  <2> DEFINE p == [pins EXCEPT !.blocked = @ \cup {[pair |-> q, terminal |-> terminal]}]
  <2>1. p \in Pins /\ p.pair = pins.pair /\ pins.blocked \subseteq p.blocked
    BY <1>0 DEF Pins, SourceBlock
  <2>2. Command("block", "none", q) \in Commands /\ Command("block", "none", q).name # "rotate"
    BY DEF Commands, Command
  <2> QED
    BY <1>4, <2>1, <2>2 DEF Block, Gated, Run, StartsSource
<1>5. ASSUME BlockExecution PROVE Started
  <2> DEFINE x == [execs EXCEPT !.blocked = @ \cup {[pair |-> execs.pair, manager |-> execs.manager]}]
  <2>1. execs \in Executions /\ execs.pair = pins.pair
    BY <1>5 DEF BlockExecution, TypeOK, CurrentMatches
  <2>2. x \in Executions /\ x.pair = pins.pair /\ execs.blocked \subseteq x.blocked
    BY <2>1 DEF Executions, ExecutionBlock
  <2>3. Command("block_execution", "none", pins.pair) \in Commands
    BY <1>0 DEF Commands, Command
  <2> QED
    BY <1>5, <2>2, <2>3 DEF BlockExecution, Gated, Run, StartsExecutions
<1>6. ASSUME Rebind PROVE Started
  <2>1. Command("rebind", "none", pins.pair) \in Commands
    BY <1>0 DEF Commands, Command
  <2> QED
    BY <1>0, <1>6, <2>1, RotatedTypes DEF Rebind, Gated, Run, StartsExecutions
<1>7. ASSUME MigrateExecution PROVE Started
  <2>1. Command("migrate", "none", pins.pair) \in Commands
    BY <1>0 DEF Commands, Command
  <2>2. [pair |-> pins.pair, manager |-> trusted, blocked |-> {}] \in Executions
    BY <1>0 DEF TypeOK, Executions
  <2> QED
    BY <1>7, <2>1, <2>2 DEF MigrateExecution, Gated, Run, StartsExecutions
<1>8. ASSUME Reseed PROVE Started
  <2>1. Command("init", "none", Seed) \in Commands /\ Command("init", "none", Seed).name = "init"
    BY DEF Commands, Command
  <2>2. /\ [pins EXCEPT !.pair = Seed] \in Pins /\ [pins EXCEPT !.pair = Seed].pair = Seed
        /\ [pins EXCEPT !.pair = Seed].blocked = pins.blocked
    BY <1>0 DEF Pins
  <2> QED
    BY <1>8, <2>1, <2>2 DEF Reseed, Gated, BeginSourceOnly, Run, StartsSource
<1> QED
  BY <1>1, <1>2, <1>3, <1>4, <1>5, <1>6, <1>7, <1>8, OneRoleTypes DEF CommandStep

-----------------------------------------------------------------------------
(* Types.                                                                    *)

Targets == [pins : Pins, execs : Executions \cup {Absent}, rotates : BOOLEAN]

\* A new intent is written for both registries.
IntentTarget == step = "intent" => target.execs \in Executions

\* The part of TypeOK that every step of a command changes.
ProcessType ==
    /\ step \in WriteSteps /\ cmd \in Commands
    /\ IF Idle THEN target = Absent ELSE target \in Targets
    /\ IntentTarget

\* The command of an idle host is one.
LEMMA NoCommandType == NoCommand \in Commands
BY SeedAssumption DEF NoCommand, Command, Commands

\* However a command starts, it knows what it writes.
LEMMA RunType ==
    ASSUME NEW c \in Commands, NEW first \in WriteSteps \ {"idle"}, NEW p \in Pins,
           NEW x \in Executions \cup {Absent}, NEW rotates \in BOOLEAN,
           first = "intent" => x \in Executions, Run(c, first, p, x, rotates)
    PROVE  ProcessType'
<1>1. target' = [pins |-> p, execs |-> x, rotates |-> rotates] /\ step' = first /\ cmd' = c
  BY DEF Run
<1> QED
  BY <1>1 DEF ProcessType, IntentTarget, Targets, Idle

\* Each of the four ways to start names documents that exist.
LEMMA StartType ==
    ASSUME TypeOK, StartsResumed \/ StartsIntent \/ StartsSource \/ StartsExecutions
    PROVE  ProcessType'
<1>1. CASE StartsResumed
  <2>1. intent # Absent => intent.pins \in Pins /\ intent.execs \in Executions
    BY DEF TypeOK, Intents
  <2>2. {"preserve"} \subseteq WriteSteps \ {"idle"}
    BY DEF WriteSteps
  <2> QED
    BY <1>1, <2>1, <2>2, RunType DEF StartsResumed
<1>2. CASE StartsIntent
  <2>1. {"intent"} \subseteq WriteSteps \ {"idle"}
    BY DEF WriteSteps
  <2> QED
    BY <1>2, <2>1, RunType DEF StartsIntent
<1>3. CASE StartsSource
  <2>1. {"preserve", "pins"} \subseteq WriteSteps \ {"idle"}
    BY DEF WriteSteps
  <2>2. execs \in Executions \cup {Absent}
    BY DEF TypeOK
  <2> QED
    BY <1>3, <2>1, <2>2, RunType DEF StartsSource
<1>4. CASE StartsExecutions
  <2>1. {"execs"} \subseteq WriteSteps \ {"idle"} /\ pins \in Pins
    BY DEF WriteSteps, TypeOK
  <2> QED
    BY <1>4, <2>1, RunType DEF StartsExecutions
<1> QED
  BY <1>1, <1>2, <1>3, <1>4

\* A command that goes on keeps its target, and no write comes before the intent.
LEMMA WritesType ==
    ASSUME TypeOK, NEW write \in WriteSteps \ {"idle"}, Writes(write)
    PROVE  ProcessType' /\ target \in Targets /\ ~Idle
<1>1. target \in Targets /\ ~Idle
  BY DEF Writes, TypeOK, Idle, Targets
<1>2. CASE Done
  BY <1>1, <1>2, NoCommandType DEF ProcessType, IntentTarget, Done, WriteSteps, Idle
<1>3. CASE After(write) # "idle" /\ step' = After(write) /\ UNCHANGED <<target, cmd>>
  <2>1. After(write) \in WriteSteps \ {"intent"}
    <3>1. CASE target.rotates
      BY <3>1 DEF After, WriteSteps
    <3>2. CASE ~target.rotates
      BY <3>2 DEF After, WriteSteps
    <3> QED
      BY <3>1, <3>2
  <2> QED
    BY <1>1, <1>3, <2>1 DEF ProcessType, IntentTarget, TypeOK, Idle, Writes
<1> QED
  BY <1>1, <1>2, <1>3 DEF Writes

\* Files, registries and targets have their shape at first ...
LEMMA TypesInit == Init => TypeOK /\ IntentTarget
<1> SUFFICES ASSUME Init PROVE TypeOK /\ IntentTarget
  OBVIOUS
<1>1. pins \in Pins /\ pinsPublic \in Pins
  BY SeedAssumption DEF Init, Pins
<1>2. step \in WriteSteps /\ cmd \in Commands /\ Idle /\ target = Absent
  BY NoCommandType DEF Init, WriteSteps, Idle
<1>3. faults \in 0 .. MaxFaults /\ installs \in 0 .. MaxInstalls
  BY BoundAssumption DEF Init
<1>4. reseeded \in BOOLEAN
  BY DEF Init
<1>5. IntentTarget
  BY DEF Init, IntentTarget
<1> QED
  BY <1>1, <1>2, <1>3, <1>4, <1>5 DEF Init, TypeOK

\* ... and keep it whatever dies.
LEMMA TypesStep ==
    ASSUME TypeOK, IntentTarget, [Next]_vars
    PROVE  (TypeOK /\ IntentTarget)'
<1>1. CASE CommandStep
  <2>1. ProcessType' /\ UNCHANGED <<files, rest>>
    BY <1>1, CommandStart, StartType
  <2> QED
    BY <2>1 DEF ProcessType, Targets, TypeOK, files, rest, Idle
<1>2. CASE WriteIntent
  <2>1. ProcessType' /\ target \in Targets /\ target.execs \in Executions
    BY <1>2, WritesType DEF WriteIntent, WriteSteps, Writes, IntentTarget
  <2>2. intent' \in Intents
    BY <1>2, <2>1 DEF WriteIntent, Intents, Targets, TypeOK
  <2> QED
    BY <1>2, <2>1, <2>2 DEF WriteIntent, ProcessType, Targets, TypeOK, rest, Idle
<1>3. CASE Preserve
  <2>1. ProcessType'
    BY <1>3, WritesType DEF Preserve, WriteSteps
  <2>2. preserved' \subseteq Pairs
    BY <1>3 DEF Preserve, TypeOK, Pins
  <2> QED
    BY <1>3, <2>1, <2>2 DEF Preserve, ProcessType, Targets, TypeOK, rest, Idle
<1>4. CASE WritePins
  <2>1. ProcessType' /\ target \in Targets
    BY <1>4, WritesType DEF WritePins, WriteSteps
  <2>2. reseeded' \in BOOLEAN
    BY <1>4 DEF WritePins
  <2>3. pins' \in Pins
    BY <1>4, <2>1 DEF WritePins, Targets
  <2> QED
    BY <1>4, <2>1, <2>2, <2>3 DEF WritePins, ProcessType, Targets, TypeOK, Idle
<1>5. CASE PublishPins \/ WriteExecutions \/ PublishExecutions
  <2>1. ProcessType' /\ target \in Targets
    BY <1>5, WritesType DEF PublishPins, WriteExecutions, PublishExecutions, WriteSteps
  <2>2. /\ pinsPublic' \in Pins
        /\ execs' \in Executions \cup {Absent} /\ execsPublic' \in Executions \cup {Absent}
    BY <1>5, <2>1 DEF PublishPins, WriteExecutions, PublishExecutions, Targets, TypeOK
  <2>3. UNCHANGED <<pins, preserved, intent, rest>>
    BY <1>5 DEF PublishPins, WriteExecutions, PublishExecutions
  <2> QED
    BY <2>1, <2>2, <2>3 DEF ProcessType, Targets, TypeOK, rest, Idle
<1>6. CASE ClearIntent
  <2>1. ProcessType'
    BY <1>6, WritesType DEF ClearIntent, WriteSteps
  <2>2. reseeded' \in BOOLEAN
    BY <1>6 DEF ClearIntent
  <2> QED
    BY <1>6, <2>1, <2>2 DEF ClearIntent, ProcessType, Targets, TypeOK, Idle
<1>7. CASE Die
  <2>1. ProcessType'
    BY <1>7, NoCommandType DEF Die, Done, ProcessType, IntentTarget, WriteSteps, Idle
  <2>2. faults' \in 0 .. MaxFaults
    BY <1>7, BoundAssumption DEF Die, TypeOK
  <2> QED
    BY <1>7, <2>1, <2>2 DEF Die, ProcessType, Targets, TypeOK, files, Idle
<1>8. CASE InstallManager
  <2>1. installs' \in 0 .. MaxInstalls /\ trusted' \in Managers
    BY <1>8, BoundAssumption DEF InstallManager, TypeOK
  <2> QED
    BY <1>8, <2>1 DEF InstallManager, TypeOK, IntentTarget, files, process, Idle
<1>9. CASE UNCHANGED vars
  BY <1>9 DEF TypeOK, IntentTarget, vars, files, process, rest, Idle
<1> QED
  BY <1>1, <1>2, <1>3, <1>4, <1>5, <1>6, <1>7, <1>8, <1>9, NextCases DEF Write

\* The types of a specification of the pins alone.
THEOREM RotationTypes == Spec => [](TypeOK /\ IntentTarget)
<1>1. TypeOK /\ IntentTarget /\ [Next]_vars => (TypeOK /\ IntentTarget)'
  BY TypesStep
<1> QED
  BY TypesInit, <1>1, PTL DEF Spec

-----------------------------------------------------------------------------
(* The invariant.                                                            *)

\* A rotation to p and x by that command may still be published over the registries
\* as they are: it forgets no block, and either p's pair is pinned already or it
\* is not blocked and the command may leave the one that is.
Sound(p, x, by) ==
    /\ execs # Absent
    /\ p.pair = x.pair
    /\ pins.blocked \subseteq p.blocked /\ execs.blocked \subseteq x.blocked
    /\ \/ pins.pair = p.pair
       \/ /\ ~IsBlocked(pins, p.pair)
          /\ by.name = "rotate" => ~IsTerminal(pins, pins.pair) /\ ~IsTerminalExecution(execs)

IntentSound == intent # Absent => Sound(intent.pins, intent.execs, intent.by)

NewIntent == intent = Absent /\ Sound(target.pins, target.execs, cmd)

\* A rotation under way writes what its intent says, and has written what its step
\* comes after.
Publishes ==
    /\ intent # Absent /\ target.pins = intent.pins /\ target.execs = intent.execs
    /\ step \in {"pins_public", "execs", "execs_public", "clear"} => pins = target.pins
    /\ step \in {"execs", "execs_public", "clear"} => pinsPublic = target.pins
    /\ step \in {"execs_public", "clear"} => execs = target.execs
    /\ step = "clear" => execsPublic = target.execs

\* Any other command writes one registry, which it read under the same lock.
WritesOne ==
    /\ intent = Absent /\ step \notin {"intent", "clear"}
    /\ step \in {"preserve", "pins"} =>
         /\ pins.blocked \subseteq target.pins.blocked
         /\ \/ cmd.name = "init" /\ target.pins.pair = Seed
            \/ target.pins.pair = pins.pair
            \/ execs = Absent /\ ~IsBlocked(pins, target.pins.pair)
         /\ cmd.name = "rotate" => ~IsTerminal(pins, pins.pair)
    /\ step = "execs" =>
         /\ target.execs # Absent /\ target.execs.pair = pins.pair
         /\ execs # Absent => execs.blocked \subseteq target.execs.blocked

TargetCurrent ==
    /\ ~Idle /\ target.rotates /\ step = "intent" => NewIntent
    /\ ~Idle /\ target.rotates /\ step # "intent" => Publishes
    /\ ~Idle /\ ~target.rotates => WritesOne

RotationInv == IntentSound /\ TargetCurrent /\ HalfRotatedHasIntent

\* A step that leaves the registries and the intent alone disturbs neither.
LEMMA FilesKept ==
    ASSUME IntentSound, HalfRotatedHasIntent, UNCHANGED <<pins, execs, intent, reseeded>>
    PROVE  IntentSound' /\ HalfRotatedHasIntent'
BY DEF IntentSound, Sound, HalfRotatedHasIntent, IsBlocked, IsTerminal, IsTerminalExecution

\* A command that starts has a current target.
LEMMA StartCurrent ==
    ASSUME TypeOK, RotationInv, CommandStep
    PROVE  RotationInv'
<1>1. UNCHANGED <<pins, execs, intent, reseeded>> /\ Idle
  BY CommandStart DEF files, rest
<1>2. IntentSound' /\ HalfRotatedHasIntent'
  BY <1>1, FilesKept DEF RotationInv
<1>3. CASE StartsResumed
  <2>1. /\ intent # Absent /\ step' = "preserve"
        /\ target' = [pins |-> intent.pins, execs |-> intent.execs, rotates |-> TRUE]
    BY <1>3 DEF StartsResumed, Run
  <2> QED
    BY <1>1, <1>2, <2>1 DEF RotationInv, TargetCurrent, Publishes
<1>4. CASE StartsIntent
  <2>1. PICK c \in Commands, p \in Pins, x \in Executions :
            /\ intent = Absent /\ execs # Absent
            /\ Run(c, "intent", p, x, TRUE)
            /\ p.pair = x.pair /\ ~IsBlocked(pins, p.pair)
            /\ pins.blocked \subseteq p.blocked /\ execs.blocked \subseteq x.blocked
            /\ c.name = "rotate" => ~IsTerminal(pins, pins.pair) /\ ~IsTerminalExecution(execs)
    BY <1>4 DEF StartsIntent
  <2>2. cmd' = c /\ step' = "intent" /\ target' = [pins |-> p, execs |-> x, rotates |-> TRUE]
    BY <2>1 DEF Run
  <2>3. NewIntent'
    BY <1>1, <2>1, <2>2 DEF NewIntent, Sound, IsBlocked, IsTerminal, IsTerminalExecution
  <2> QED
    BY <1>2, <2>2, <2>3 DEF RotationInv, TargetCurrent
<1>5. CASE StartsSource
  <2>1. PICK c \in Commands, first \in {"preserve", "pins"}, p \in Pins :
            /\ intent = Absent
            /\ Run(c, first, p, execs, FALSE)
            /\ pins.blocked \subseteq p.blocked
            /\ \/ c.name = "init" /\ p.pair = Seed
               \/ p.pair = pins.pair
               \/ execs = Absent /\ ~IsBlocked(pins, p.pair)
            /\ c.name = "rotate" => ~IsTerminal(pins, pins.pair)
    BY <1>5 DEF StartsSource
  <2>2. cmd' = c /\ step' = first /\ target' = [pins |-> p, execs |-> execs, rotates |-> FALSE]
    BY <2>1 DEF Run
  <2>3. WritesOne'
    BY <1>1, <2>1, <2>2 DEF WritesOne, IsBlocked, IsTerminal
  <2> QED
    BY <1>2, <2>2, <2>3 DEF RotationInv, TargetCurrent
<1>6. CASE StartsExecutions
  <2>1. PICK c \in Commands, x \in Executions :
            /\ intent = Absent
            /\ Run(c, "execs", pins, x, FALSE)
            /\ x.pair = pins.pair
            /\ execs # Absent => execs.blocked \subseteq x.blocked
    BY <1>6 DEF StartsExecutions
  <2>2. cmd' = c /\ step' = "execs" /\ target' = [pins |-> pins, execs |-> x, rotates |-> FALSE]
    BY <2>1 DEF Run
  <2>3. WritesOne'
    BY <1>1, <2>1, <2>2, AbsentAssumption DEF WritesOne
  <2> QED
    BY <1>2, <2>2, <2>3 DEF RotationInv, TargetCurrent
<1> QED
  BY <1>3, <1>4, <1>5, <1>6, CommandStart

\* A command that ends leaves no target to be current.
LEMMA DoneCurrent ==
    ASSUME Done
    PROVE  TargetCurrent'
BY DEF Done, TargetCurrent, Idle

\* Where a write leads: the end of the command, or the next step with its target.
LEMMA WritesOn ==
    ASSUME NEW write, Writes(write)
    PROVE  /\ step = write
           /\ Done \/ (step' = After(write) /\ UNCHANGED <<target, cmd>>)
BY DEF Writes

\* The order of the writes.
LEMMA AfterValues ==
    /\ After("intent") = "preserve" /\ After("preserve") = "pins" /\ After("pins") = "pins_public"
    /\ target.rotates => After("pins_public") = "execs"
    /\ ~target.rotates => After("pins_public") = "idle"
    /\ After("execs") = "execs_public"
    /\ target.rotates => After("execs_public") = "clear"
    /\ ~target.rotates => After("execs_public") = "idle"
    /\ After("clear") = "idle"
<1>1. /\ After("intent") = "preserve" /\ After("preserve") = "pins" /\ After("pins") = "pins_public"
      /\ After("execs") = "execs_public" /\ After("clear") = "idle"
  BY DEF After
<1>2. CASE target.rotates
  BY <1>1, <1>2 DEF After
<1>3. CASE ~target.rotates
  BY <1>1, <1>3 DEF After
<1> QED
  BY <1>2, <1>3

\* The intent that is written is sound, and what follows publishes it.
LEMMA WriteIntentCurrent ==
    ASSUME TypeOK, IntentTarget, RotationInv, WriteIntent
    PROVE  RotationInv'
<1>1. /\ step = "intent" /\ ~Idle
      /\ intent' = [pins |-> target.pins, execs |-> target.execs, by |-> cmd]
      /\ UNCHANGED <<pins, execs, reseeded>>
  BY WritesOn DEF WriteIntent, rest, Idle
<1>2. target.rotates /\ NewIntent
  BY <1>1 DEF RotationInv, TargetCurrent, WritesOne, TypeOK
<1>3. intent' # Absent
  <2>1. target.pins \in Pins /\ cmd \in Commands /\ target.execs \in Executions \cup {Absent}
    BY <1>1 DEF TypeOK
  <2>2. target.execs \in Executions
    BY <1>1 DEF IntentTarget
  <2> QED
    BY <1>1, <2>1, <2>2, AbsentAssumption DEF Intents
<1>4. IntentSound' /\ HalfRotatedHasIntent'
  BY <1>1, <1>2, <1>3
     DEF IntentSound, NewIntent, Sound, IsBlocked, IsTerminal, IsTerminalExecution, HalfRotatedHasIntent
<1>5. TargetCurrent'
  <2>1. CASE Done
    BY <2>1, DoneCurrent
  <2>2. CASE step' = "preserve" /\ UNCHANGED <<target, cmd>>
    <3>1. Publishes'
      BY <1>1, <1>3, <2>2 DEF Publishes
    <3> QED
      BY <1>2, <2>2, <3>1 DEF TargetCurrent
  <2> QED
    BY <2>1, <2>2, WritesOn, AfterValues DEF WriteIntent
<1> QED
  BY <1>4, <1>5 DEF RotationInv

\* The preserved copies are no part of the invariant.
LEMMA PreserveCurrent ==
    ASSUME TypeOK, RotationInv, Preserve
    PROVE  RotationInv'
<1>1. step = "preserve" /\ ~Idle /\ UNCHANGED <<pins, execs, intent, reseeded>>
  BY WritesOn DEF Preserve, rest, Idle
<1>2. IntentSound' /\ HalfRotatedHasIntent'
  BY <1>1, FilesKept DEF RotationInv
<1>3. CASE Done
  BY <1>2, <1>3, DoneCurrent DEF RotationInv
<1>4. CASE step' = "pins" /\ UNCHANGED <<target, cmd>>
  <2>1. CASE target.rotates
    <3>1. Publishes
      BY <1>1, <2>1 DEF RotationInv, TargetCurrent
    <3>2. Publishes'
      BY <1>1, <1>4, <3>1 DEF Publishes
    <3> QED
      BY <1>2, <1>4, <2>1, <3>2 DEF RotationInv, TargetCurrent
  <2>2. CASE ~target.rotates
    <3>1. WritesOne
      BY <1>1, <2>2 DEF RotationInv, TargetCurrent
    <3>2. WritesOne'
      BY <1>1, <1>4, <3>1 DEF WritesOne, IsBlocked, IsTerminal
    <3> QED
      BY <1>2, <1>4, <2>2, <3>2 DEF RotationInv, TargetCurrent
  <2> QED
    BY <2>1, <2>2
<1> QED
  BY <1>3, <1>4, WritesOn, AfterValues DEF Preserve

\* What the step that replaces the source registry may rely on: the rotation it
\* belongs to is sound, or it writes that registry alone.
LEMMA PinsWrite ==
    ASSUME TypeOK, RotationInv, WritePins
    PROVE  /\ step = "pins" /\ ~Idle
           /\ pins' = target.pins /\ UNCHANGED <<pinsPublic, execs, execsPublic, intent>>
           /\ reseeded' = (reseeded \/ (cmd.name = "init" /\ execs # Absent))
           /\ target.rotates => Publishes /\ Sound(target.pins, target.execs, intent.by)
           /\ ~target.rotates => WritesOne
<1>1. step = "pins" /\ ~Idle
  BY WritesOn DEF WritePins, Idle
<1>2. target.rotates => Publishes
  BY <1>1 DEF RotationInv, TargetCurrent
<1>3. target.rotates => Sound(target.pins, target.execs, intent.by)
  BY <1>2 DEF Publishes, RotationInv, IntentSound
<1>4. ~target.rotates => WritesOne
  BY <1>1 DEF RotationInv, TargetCurrent
<1> QED
  BY <1>1, <1>2, <1>3, <1>4 DEF WritePins

\* The source registry is replaced.
LEMMA WritePinsCurrent ==
    ASSUME TypeOK, RotationInv, WritePins
    PROVE  RotationInv'
<1>1. step = "pins" /\ ~Idle /\ pins' = target.pins /\ UNCHANGED <<execs, intent>>
  BY PinsWrite
<1>2. CASE target.rotates
  <2>1. Publishes /\ Sound(target.pins, target.execs, intent.by)
    BY <1>2, PinsWrite
  <2>2. intent # Absent /\ pins' = intent.pins
    BY <1>1, <2>1 DEF Publishes
  <2>3. IntentSound'
    BY <1>1, <2>1, <2>2 DEF Publishes, IntentSound, Sound
  <2>4. HalfRotatedHasIntent'
    BY <1>1, <2>2 DEF HalfRotatedHasIntent
  <2>5. CASE Done
    BY <2>3, <2>4, <2>5, DoneCurrent DEF RotationInv
  <2>6. CASE step' = "pins_public" /\ UNCHANGED <<target, cmd>>
    <3>1. Publishes'
      BY <1>1, <2>1, <2>6 DEF Publishes
    <3> QED
      BY <1>2, <2>3, <2>4, <2>6, <3>1 DEF RotationInv, TargetCurrent
  <2> QED
    BY <2>5, <2>6, WritesOn, AfterValues DEF WritePins
<1>3. CASE ~target.rotates
  <2>1. WritesOne
    BY <1>3, PinsWrite
  <2>2. intent = Absent /\ intent' = Absent
    BY <1>1, <2>1 DEF WritesOne
  <2>3. IntentSound'
    BY <2>2 DEF IntentSound
  <2>4. HalfRotatedHasIntent'
    <3>1. cmd.name = "init" /\ execs # Absent => reseeded'
      BY PinsWrite
    <3>2. cmd.name = "init" \/ target.pins.pair = pins.pair \/ execs = Absent
      BY <1>1, <2>1 DEF WritesOne
    <3>3. reseeded => reseeded'
      BY PinsWrite
    <3> QED
      BY <1>1, <2>2, <3>1, <3>2, <3>3 DEF RotationInv, HalfRotatedHasIntent
  <2>5. CASE Done
    BY <2>3, <2>4, <2>5, DoneCurrent DEF RotationInv
  <2>6. CASE step' = "pins_public" /\ UNCHANGED <<target, cmd>>
    <3>1. WritesOne'
      BY <2>2, <2>6 DEF WritesOne
    <3> QED
      BY <1>3, <2>3, <2>4, <2>6, <3>1 DEF RotationInv, TargetCurrent
  <2> QED
    BY <2>5, <2>6, WritesOn, AfterValues DEF WritePins
<1> QED
  BY <1>2, <1>3

\* The public copies are no part of the two registries' bond.
LEMMA PublishPinsCurrent ==
    ASSUME TypeOK, RotationInv, PublishPins
    PROVE  RotationInv'
<1>1. /\ step = "pins_public" /\ ~Idle /\ pinsPublic' = target.pins
      /\ UNCHANGED <<pins, execs, intent, reseeded>>
  BY WritesOn DEF PublishPins, rest, Idle
<1>2. IntentSound' /\ HalfRotatedHasIntent'
  BY <1>1, FilesKept DEF RotationInv
<1>3. CASE Done
  BY <1>2, <1>3, DoneCurrent DEF RotationInv
<1>4. CASE target.rotates /\ step' = "execs" /\ UNCHANGED <<target, cmd>>
  <2>1. Publishes
    BY <1>1, <1>4 DEF RotationInv, TargetCurrent
  <2>2. Publishes'
    BY <1>1, <1>4, <2>1 DEF Publishes
  <2> QED
    BY <1>2, <1>4, <2>2 DEF RotationInv, TargetCurrent
<1>5. ASSUME ~target.rotates PROVE Done
  BY <1>5, AfterValues DEF PublishPins, Writes
<1> QED
  BY <1>3, <1>4, <1>5, WritesOn, AfterValues DEF PublishPins

\* The execution registry is replaced: by the intent's, or for the pair that is
\* pinned.
LEMMA WriteExecutionsCurrent ==
    ASSUME TypeOK, RotationInv, WriteExecutions
    PROVE  RotationInv'
<1>1. /\ step = "execs" /\ ~Idle /\ execs' = target.execs
      /\ UNCHANGED <<pins, pinsPublic, intent, reseeded>>
  BY WritesOn DEF WriteExecutions, rest, Idle
<1>2. Done \/ (step' = "execs_public" /\ UNCHANGED <<target, cmd>>)
  BY WritesOn, AfterValues DEF WriteExecutions
<1>3. CASE target.rotates
  <2>1. Publishes /\ IntentSound
    BY <1>1, <1>3 DEF RotationInv, TargetCurrent
  <2>2. intent # Absent /\ pins = intent.pins /\ execs' = intent.execs
    BY <1>1, <2>1 DEF Publishes
  <2>3. execs' # Absent
    BY <2>2, AbsentAssumption DEF TypeOK, Intents
  <2>4. IntentSound'
    BY <1>1, <2>1, <2>2, <2>3 DEF IntentSound, Sound
  <2>5. HalfRotatedHasIntent'
    BY <1>1, <2>2 DEF HalfRotatedHasIntent
  <2>6. CASE step' = "execs_public" /\ UNCHANGED <<target, cmd>>
    <3>1. Publishes'
      BY <1>1, <2>1, <2>6 DEF Publishes
    <3> QED
      BY <1>3, <2>4, <2>5, <2>6, <3>1 DEF RotationInv, TargetCurrent
  <2> QED
    BY <1>2, <2>4, <2>5, <2>6, DoneCurrent DEF RotationInv
<1>4. CASE ~target.rotates
  <2>1. WritesOne
    BY <1>1, <1>4 DEF RotationInv, TargetCurrent
  <2>2. intent' = Absent /\ execs'.pair = pins'.pair
    BY <1>1, <2>1 DEF WritesOne
  <2>3. IntentSound' /\ HalfRotatedHasIntent'
    BY <2>2 DEF IntentSound, HalfRotatedHasIntent
  <2>4. CASE step' = "execs_public" /\ UNCHANGED <<target, cmd>>
    <3>1. WritesOne'
      BY <2>2, <2>4 DEF WritesOne
    <3> QED
      BY <1>4, <2>3, <2>4, <3>1 DEF RotationInv, TargetCurrent
  <2> QED
    BY <1>2, <2>3, <2>4, DoneCurrent DEF RotationInv
<1> QED
  BY <1>3, <1>4

\* The public copy of the execution registry comes last before the intent goes.
LEMMA PublishExecutionsCurrent ==
    ASSUME TypeOK, RotationInv, PublishExecutions
    PROVE  RotationInv'
<1>1. /\ step = "execs_public" /\ ~Idle /\ execsPublic' = target.execs
      /\ UNCHANGED <<pins, pinsPublic, execs, intent, reseeded>>
  BY WritesOn DEF PublishExecutions, rest, Idle
<1>2. IntentSound' /\ HalfRotatedHasIntent'
  BY <1>1, FilesKept DEF RotationInv
<1>3. CASE Done
  BY <1>2, <1>3, DoneCurrent DEF RotationInv
<1>4. CASE target.rotates /\ step' = "clear" /\ UNCHANGED <<target, cmd>>
  <2>1. Publishes
    BY <1>1, <1>4 DEF RotationInv, TargetCurrent
  <2>2. Publishes'
    BY <1>1, <1>4, <2>1 DEF Publishes
  <2> QED
    BY <1>2, <1>4, <2>2 DEF RotationInv, TargetCurrent
<1>5. ASSUME ~target.rotates PROVE Done
  BY <1>5, AfterValues DEF PublishExecutions, Writes
<1> QED
  BY <1>3, <1>4, <1>5, WritesOn, AfterValues DEF PublishExecutions

\* Only a rotation that has written all four files clears an intent.
LEMMA Cleared ==
    ASSUME TypeOK, RotationInv, ClearIntent
    PROVE  /\ Publishes /\ step = "clear" /\ Done /\ intent' = Absent
           /\ UNCHANGED <<pins, execs>>
<1>1. step = "clear" /\ ~Idle /\ Done /\ intent' = Absent /\ UNCHANGED <<pins, execs>>
  BY AfterValues DEF ClearIntent, Writes, Idle
<1>2. target.rotates
  BY <1>1 DEF RotationInv, TargetCurrent, WritesOne
<1> QED
  BY <1>1, <1>2 DEF RotationInv, TargetCurrent

\* Without its intent the pair is whole.
LEMMA ClearIntentCurrent ==
    ASSUME TypeOK, RotationInv, ClearIntent
    PROVE  RotationInv'
<1>1. /\ Publishes /\ step = "clear" /\ Done /\ intent' = Absent /\ UNCHANGED <<pins, execs>>
  BY Cleared
<1>2. pins = intent.pins /\ execs = intent.execs /\ intent # Absent
  BY <1>1 DEF Publishes
<1>3. pins.pair = execs.pair
  BY <1>2 DEF RotationInv, IntentSound, Sound
<1>4. IntentSound' /\ HalfRotatedHasIntent'
  BY <1>1, <1>3 DEF IntentSound, HalfRotatedHasIntent
<1> QED
  BY <1>1, <1>4, DoneCurrent DEF RotationInv

-----------------------------------------------------------------------------
(* The theorems.                                                             *)

\* Nothing is pending at first.
LEMMA RotationInit == Init => RotationInv
BY DEF Init, RotationInv, IntentSound, TargetCurrent, HalfRotatedHasIntent, Idle

\* Whatever a step does, it leaves the targets worth what they were.
LEMMA RotationStep ==
    ASSUME TypeOK, IntentTarget, RotationInv, [Next]_vars
    PROVE  RotationInv'
<1>1. CASE CommandStep
  BY <1>1, StartCurrent
<1>2. CASE WriteIntent
  BY <1>2, WriteIntentCurrent
<1>3. CASE Preserve
  BY <1>3, PreserveCurrent
<1>4. CASE WritePins
  BY <1>4, WritePinsCurrent
<1>5. CASE PublishPins
  BY <1>5, PublishPinsCurrent
<1>6. CASE WriteExecutions
  BY <1>6, WriteExecutionsCurrent
<1>7. CASE PublishExecutions
  BY <1>7, PublishExecutionsCurrent
<1>8. CASE ClearIntent
  BY <1>8, ClearIntentCurrent
<1>9. CASE Die
  <2>1. UNCHANGED <<pins, execs, intent, reseeded>> /\ Done
    BY <1>9 DEF Die, files
  <2> QED
    BY <2>1, FilesKept, DoneCurrent DEF RotationInv
<1>10. CASE InstallManager
  <2>1. UNCHANGED <<pins, execs, intent, reseeded>> /\ Idle /\ step' = step
    BY <1>10 DEF InstallManager, files, process
  <2> QED
    BY <2>1, FilesKept DEF RotationInv, TargetCurrent, Idle
<1>11. CASE UNCHANGED vars
  <2>1. UNCHANGED <<files, process, rest>>
    BY <1>11 DEF vars
  <2>2. IntentSound' /\ HalfRotatedHasIntent'
    BY <2>1, FilesKept DEF RotationInv, files, rest
  <2>3. TargetCurrent'
    BY <2>1 DEF RotationInv, TargetCurrent, NewIntent, Sound, Publishes, WritesOne, IsBlocked,
                IsTerminal, IsTerminalExecution, Idle, files, process
  <2> QED
    BY <2>2, <2>3 DEF RotationInv
<1> QED
  BY <1>1, <1>2, <1>3, <1>4, <1>5, <1>6, <1>7, <1>8, <1>9, <1>10, <1>11, NextCases DEF Write

\* Whatever is killed between which two writes, a pending intent and a running
\* command's target stay worth publishing over the registries as they are.
THEOREM RotationSound == Spec => [](TypeOK /\ IntentTarget /\ RotationInv)
<1>1. TypeOK /\ IntentTarget /\ RotationInv /\ [Next]_vars => RotationInv'
  BY RotationStep
<1> QED
  BY RotationInit, <1>1, RotationTypes, PTL DEF Spec

\* Every file always holds a document of its kind.
THEOREM TypeCorrect == Spec => []TypeOK
BY RotationTypes, PTL

\* The registries name different pairs only under an intent, or after a forced reseed.
THEOREM HalfRotated == Spec => []HalfRotatedHasIntent
<1>1. RotationInv => HalfRotatedHasIntent
  BY DEF RotationInv
<1> QED
  BY <1>1, RotationSound, PTL

-----------------------------------------------------------------------------
(* What a step may never do: only the writes change the registries.          *)

\* The source registry changes in one write, the execution registry in another,
\* and an intent goes in a third.
LEMMA OnlyWrites ==
    ASSUME TypeOK, [Next]_vars
    PROVE  /\ UNCHANGED pins \/ WritePins
           /\ UNCHANGED execs \/ WriteExecutions
           /\ UNCHANGED intent \/ WriteIntent \/ ClearIntent
<1>1. CASE CommandStep
  BY <1>1, CommandStart DEF files
<1>2. CASE Write
  BY <1>2 DEF Write, WriteIntent, Preserve, WritePins, PublishPins, WriteExecutions,
              PublishExecutions, ClearIntent
<1>3. CASE Die \/ InstallManager \/ UNCHANGED vars
  BY <1>3 DEF Die, InstallManager, vars, files
<1> QED
  BY <1>1, <1>2, <1>3, NextCases

\* Both block lists only grow.
THEOREM BlocksKept == Spec => BlocksSurvive
<1>1. TypeOK /\ RotationInv /\ [Next]_vars
      => [ /\ pins.blocked \subseteq pins'.blocked
           /\ execs # Absent => execs' # Absent /\ execs.blocked \subseteq execs'.blocked ]_vars
  <2> SUFFICES ASSUME TypeOK, RotationInv, [Next]_vars
               PROVE  /\ pins.blocked \subseteq pins'.blocked
                      /\ execs # Absent => execs' # Absent /\ execs.blocked \subseteq execs'.blocked
    OBVIOUS
  <2>1. pins.blocked \subseteq pins'.blocked
    <3>1. CASE WritePins /\ target.rotates
      BY <3>1, PinsWrite DEF Sound
    <3>2. CASE WritePins /\ ~target.rotates
      BY <3>2, PinsWrite DEF WritesOne
    <3> QED
      BY <3>1, <3>2, OnlyWrites
  <2>2. execs # Absent => execs' # Absent /\ execs.blocked \subseteq execs'.blocked
    <3>1. ASSUME WriteExecutions PROVE step = "execs" /\ ~Idle /\ execs' = target.execs
      BY <3>1, WritesOn DEF WriteExecutions, Idle
    <3>2. CASE WriteExecutions /\ target.rotates
      <4>1. Publishes
        BY <3>1, <3>2 DEF RotationInv, TargetCurrent
      <4>2. intent # Absent /\ execs' = intent.execs
        BY <3>1, <3>2, <4>1 DEF Publishes
      <4>3. intent.execs \in Executions
        BY <4>2 DEF TypeOK, Intents
      <4> QED
        BY <4>2, <4>3, AbsentAssumption DEF RotationInv, IntentSound, Sound
    <3>3. CASE WriteExecutions /\ ~target.rotates
      BY <3>1, <3>3 DEF RotationInv, TargetCurrent, WritesOne
    <3> QED
      BY <3>2, <3>3, OnlyWrites
  <2> QED
    BY <2>1, <2>2
<1> QED
  BY <1>1, RotationSound, PTL DEF Spec, BlocksSurvive

\* No rotation or rollback lands on a blocked pair.
THEOREM NoBlockedEntry == Spec => NeverEntersBlocked
<1>1. TypeOK /\ RotationInv /\ [Next]_vars
      => [ pins'.pair # pins.pair /\ cmd.name # "init" => ~IsBlocked(pins, pins'.pair) ]_vars
  <2> SUFFICES ASSUME TypeOK, RotationInv, [Next]_vars, pins'.pair # pins.pair, cmd.name # "init"
               PROVE  ~IsBlocked(pins, pins'.pair)
    OBVIOUS
  <2>1. WritePins
    BY OnlyWrites
  <2>2. CASE target.rotates
    BY <2>1, <2>2, PinsWrite DEF Sound
  <2>3. CASE ~target.rotates
    BY <2>1, <2>3, PinsWrite DEF WritesOne
  <2> QED
    BY <2>2, <2>3
<1> QED
  BY <1>1, RotationSound, PTL DEF Spec, NeverEntersBlocked

\* A rotation of one role never leaves a terminal candidate.
THEOREM TerminalLeft == Spec => TerminalLeftByPair
<1> DEFINE LeftByPair ==
        /\ pins'.pair # pins.pair
        /\ IsTerminal(pins, pins.pair) \/ (execs # Absent /\ IsTerminalExecution(execs))
        => IF intent # Absent THEN intent.by.name # "rotate" ELSE cmd.name # "rotate"
<1>1. TypeOK /\ RotationInv /\ [Next]_vars => LeftByPair
  <2> SUFFICES ASSUME TypeOK, RotationInv, [Next]_vars, pins'.pair # pins.pair,
                      IsTerminal(pins, pins.pair) \/ (execs # Absent /\ IsTerminalExecution(execs))
               PROVE  IF intent # Absent THEN intent.by.name # "rotate" ELSE cmd.name # "rotate"
    OBVIOUS
  <2>1. WritePins
    BY OnlyWrites
  <2>2. CASE target.rotates
    <3>1. Publishes /\ Sound(target.pins, target.execs, intent.by) /\ pins' = target.pins
      BY <2>1, <2>2, PinsWrite
    <3>2. intent # Absent
      BY <3>1 DEF Publishes
    <3>3. intent.by.name # "rotate"
      BY <3>1 DEF Sound
    <3> QED
      BY <3>2, <3>3
  <2>3. CASE ~target.rotates
    <3>1. WritesOne /\ step = "pins" /\ pins' = target.pins
      BY <2>1, <2>3, PinsWrite
    <3>2. intent = Absent
      BY <3>1 DEF WritesOne
    <3>3. cmd.name # "rotate"
      BY <3>1 DEF WritesOne
    <3> QED
      BY <3>2, <3>3
  <2> QED
    BY <2>2, <2>3
<1>2. TypeOK /\ RotationInv /\ [Next]_vars => [LeftByPair]_vars
  BY <1>1
<1> QED
  BY <1>2, RotationSound, PTL DEF Spec, TerminalLeftByPair

\* An intent is forgotten only when all four files hold its target.
THEOREM IntentPublished == Spec => ClearsWhenPublished
<1> DEFINE WhenPublished ==
        intent # Absent /\ intent' = Absent
        => /\ pins = intent.pins /\ pinsPublic = intent.pins
           /\ execs = intent.execs /\ execsPublic = intent.execs
<1>1. TypeOK /\ IntentTarget /\ RotationInv /\ [Next]_vars => WhenPublished
  <2> SUFFICES ASSUME TypeOK, IntentTarget, RotationInv, [Next]_vars,
                      intent # Absent, intent' = Absent
               PROVE  /\ pins = intent.pins /\ pinsPublic = intent.pins
                      /\ execs = intent.execs /\ execsPublic = intent.execs
    OBVIOUS
  <2>1. CASE ClearIntent
    <3>1. Publishes /\ step = "clear"
      BY <2>1, Cleared
    <3> QED
      BY <3>1 DEF Publishes
  <2>2. CASE WriteIntent
    <3>1. step = "intent" /\ ~Idle
      BY <2>2, WritesOn DEF WriteIntent, Idle
    <3>2. intent = Absent
      BY <3>1 DEF RotationInv, TargetCurrent, NewIntent, WritesOne
    <3> QED
      BY <3>2
  <2> QED
    BY <2>1, <2>2, OnlyWrites
<1>2. TypeOK /\ IntentTarget /\ RotationInv /\ [Next]_vars => [WhenPublished]_vars
  BY <1>1
<1> QED
  BY <1>2, RotationSound, PTL DEF Spec, ClearsWhenPublished

-----------------------------------------------------------------------------
(* The refinement: what each write does to the registries as they count.     *)

\* The two registries as they count.
Counted == << IF intent # Absent THEN intent.pins ELSE pins,
              IF intent # Absent THEN intent.execs ELSE execs >>

\* Free is IsBlocked, read through the mapping.
LEMMA FreePair ==
    ASSUME intent = Absent, NEW q, q = pins.pair \/ ~IsBlocked(pins, q)
    PROVE  Atomic!Free(q)
BY DEF Atomic!Free, IsBlocked

\* Making the intent durable is the rotation.
LEMMA IntentRotates ==
    ASSUME TypeOK, IntentTarget, RotationInv, WriteIntent
    PROVE  Atomic!Rotate
<1>1. /\ step = "intent" /\ ~Idle /\ UNCHANGED <<pins, execs>>
      /\ intent' = [pins |-> target.pins, execs |-> target.execs, by |-> cmd]
  BY WritesOn DEF WriteIntent, Idle
<1>2. NewIntent /\ target.rotates
  BY <1>1 DEF RotationInv, TargetCurrent, WritesOne
<1>3. target.pins \in Pins /\ target.execs \in Executions
  BY <1>1, <1>2 DEF TypeOK, NewIntent, Sound, IntentTarget
<1>4. intent' \in Intents
  BY <1>1, <1>3 DEF Intents, TypeOK
<1>5. intent = Absent /\ intent' # Absent /\ Sound(target.pins, target.execs, cmd)
  BY <1>2, <1>4, AbsentAssumption DEF NewIntent
<1>6. intent'.pins = target.pins /\ intent'.execs = target.execs
  BY <1>1
<1>7. Atomic!Free(target.pins.pair)
  BY <1>5, FreePair DEF Sound
<1> QED
  BY <1>3, <1>5, <1>6, <1>7 DEF Atomic!Rotate, Atomic!Keeps, Sound

\* A write of the source registry is one of its own, or what the intent counts for.
LEMMA PinsStep ==
    ASSUME TypeOK, IntentTarget, RotationInv, WritePins
    PROVE  Atomic!UpdateSource \/ Atomic!Reseed \/ UNCHANGED Counted
<1>1. /\ step = "pins" /\ ~Idle /\ pins' = target.pins /\ UNCHANGED <<execs, intent>>
      /\ target.rotates => Publishes
      /\ ~target.rotates => WritesOne
  BY PinsWrite
<1>2. CASE target.rotates
  BY <1>1, <1>2 DEF Publishes, Counted
<1>3. CASE ~target.rotates
  <2>1. /\ intent = Absent /\ intent' = Absent /\ pins.blocked \subseteq target.pins.blocked
        /\ \/ target.pins.pair = Seed \/ target.pins.pair = pins.pair
           \/ execs = Absent /\ ~IsBlocked(pins, target.pins.pair)
    BY <1>1, <1>3 DEF WritesOne
  <2>2. target.pins \in Pins
    BY <1>1 DEF TypeOK
  <2>3. ~IsBlocked(pins, target.pins.pair) => Atomic!Free(target.pins.pair)
    BY <2>1, FreePair
  <2> QED
    BY <1>1, <2>1, <2>2, <2>3 DEF Atomic!UpdateSource, Atomic!Reseed, Atomic!Keeps
<1> QED
  BY <1>2, <1>3

\* So is a write of the execution registry.
LEMMA ExecutionsStep ==
    ASSUME TypeOK, IntentTarget, RotationInv, WriteExecutions
    PROVE  Atomic!UpdateExecution \/ UNCHANGED Counted
<1>1. /\ step = "execs" /\ ~Idle /\ execs' = target.execs /\ UNCHANGED <<pins, intent>>
  BY WritesOn DEF WriteExecutions, rest, Idle
<1>2. CASE target.rotates
  BY <1>1, <1>2 DEF RotationInv, TargetCurrent, Publishes, Counted
<1>3. CASE ~target.rotates
  <2>1. /\ intent = Absent /\ intent' = Absent
        /\ target.execs # Absent /\ target.execs.pair = pins.pair
        /\ execs # Absent => execs.blocked \subseteq target.execs.blocked
    BY <1>1, <1>3 DEF RotationInv, TargetCurrent, WritesOne
  <2>2. target.execs \in Executions
    BY <1>1, <2>1 DEF TypeOK
  <2> QED
    BY <1>1, <2>1, <2>2 DEF Atomic!UpdateExecution, Atomic!Keeps
<1> QED
  BY <1>2, <1>3

\* An intent that goes has been written everywhere.
LEMMA ClearStep ==
    ASSUME TypeOK, RotationInv, ClearIntent
    PROVE  UNCHANGED Counted
BY Cleared DEF Publishes, Counted

\* A rotation takes effect in one step, in the sight of every command.
THEOREM RotatesInOneStep == Spec => RotatesAtOnce
<1>1. Init => Atomic!Init
  BY SeedAssumption DEF Init, Atomic!Init, Pins
<1>2. TypeOK /\ IntentTarget /\ RotationInv /\ [Next]_vars => [Atomic!Next]_Counted
  <2> SUFFICES ASSUME TypeOK, IntentTarget, RotationInv, [Next]_vars
               PROVE  [Atomic!Next]_Counted
    OBVIOUS
  <2>1. CASE WriteIntent
    BY <2>1, IntentRotates DEF Atomic!Next
  <2>2. CASE WritePins
    BY <2>2, PinsStep DEF Atomic!Next
  <2>3. CASE WriteExecutions
    BY <2>3, ExecutionsStep DEF Atomic!Next
  <2>4. CASE ClearIntent
    BY <2>4, ClearStep
  <2>5. CASE UNCHANGED <<pins, execs, intent>>
    BY <2>5 DEF Counted
  <2> QED
    BY <2>1, <2>2, <2>3, <2>4, <2>5, OnlyWrites
<1> QED
  BY <1>1, <1>2, RotationSound, PTL DEF Spec, RotatesAtOnce, Atomic!Spec, Atomic!registries, Counted

-----------------------------------------------------------------------------
(* The pending requests: the pins under them, and what a step is to the pins.*)

PostsType ==
    /\ posts \in [Posters -> [at : {"idle", "create", "fill", "chmod"},
                              request : Requests \cup {NoRequest}]]
    /\ \A p \in Posters : posts[p].at # "idle" =>
           posts[p].request \in Requests /\ posts[p].request.id <= filed

RequestType ==
    /\ filed \in 0 .. MaxRequests /\ recorded \subseteq 1 .. filed
    /\ file \in [request : Requests, whole : BOOLEAN] \cup {Absent}
    /\ PostsType
    /\ removals \in [Removers -> [at : {"idle", "unlink"}, id : 0 .. MaxRequests]]
    /\ applying \in [at : {"idle", "rotate", "unlink"}, request : Requests \cup {NoRequest}]

\* A failed write of a POST, the kill of the backend and that of a ktdctl which is
\* not writing cost a fault and leave the pins as they are.
FaultOnly ==
    /\ faults < MaxFaults /\ faults' = faults + 1
    /\ UNCHANGED <<files, process, trusted, reseeded, installs>>

\* A step of the requests is a step of the pins, or a fault beside them.
LEMMA StepOfPins ==
    ASSUME RequestType, RequestsNext
    PROVE  [Next]_vars \/ FaultOnly
<1>1. CASE OtherCommand
  BY <1>1 DEF OtherCommand, Next
<1>2. CASE CommandWrites
  BY <1>2 DEF CommandWrites, Next
<1>3. CASE KtdctlDies
  BY <1>3 DEF KtdctlDies, Next, FaultOnly
<1>4. CASE BackendDies
  BY <1>4 DEF BackendDies, FaultOnly
<1>5. CASE PostSome
  <2>1. ASSUME NEW p \in Posters, PostFails(p) PROVE FaultOnly
    BY <2>1 DEF PostFails, FaultOnly
  <2>2. ASSUME NEW p \in Posters, ~PostFails(p),
               \/ \E revision \in Maps : PostReads(p, "map", revision)
               \/ \E revision \in Pinvis : PostReads(p, "pinvi", revision)
               \/ PostCreates(p) \/ PostFills(p) \/ PostEnds(p)
        PROVE  UNCHANGED vars
    BY <2>2 DEF PostReads, PostCreates, PostFills, PostEnds
  <2> QED
    BY <1>5, <2>1, <2>2 DEF PostSome
<1>6. CASE RemoveSome
  BY <1>6 DEF RemoveSome, ClearReads, ForceReads, RemoverUnlinks
<1>7. CASE ApplyCompares \/ ApplyUnlinks
  BY <1>7 DEF ApplyCompares, ApplyUnlinks
<1>8. ASSUME NEW b \in BOOLEAN, ApplyPending(b) PROVE Next
  <2>1. file.request \in Requests
    BY <1>8, NoFileAssumption DEF ApplyPending, Readable, Opened, RequestType
  <2>2. /\ file.request.role \in {"map", "pinvi"}
        /\ file.request.next.map \in Maps /\ file.request.next.pinvi \in Pinvis
    BY <2>1 DEF Requests, Pairs
  <2>3. RotateRole(file.request.role, file.request.next[file.request.role], b)
    BY <1>8 DEF ApplyPending
  <2>4. RotateSome
    <3>1. CASE file.request.role = "map"
      BY <2>2, <2>3, <3>1 DEF RotateSome
    <3>2. CASE file.request.role = "pinvi"
      BY <2>2, <2>3, <3>2 DEF RotateSome
    <3> QED
      BY <2>2, <3>1, <3>2
  <2> QED
    BY <2>4 DEF Next
<1> QED
  BY <1>1, <1>2, <1>3, <1>4, <1>5, <1>6, <1>7, <1>8 DEF RequestsNext, ApplySome

\* So the invariant of the pins is kept beside the requests.
LEMMA PinsBesideRequests ==
    ASSUME TypeOK, IntentTarget, RotationInv, RequestType, RequestsNext
    PROVE  (TypeOK /\ IntentTarget /\ RotationInv)'
<1>1. CASE [Next]_vars
  BY <1>1, TypesStep, RotationStep
<1>2. CASE FaultOnly
  <2>1. faults' \in 0 .. MaxFaults
    BY <1>2, BoundAssumption DEF FaultOnly, TypeOK
  <2>2. (TypeOK /\ IntentTarget)'
    BY <1>2, <2>1 DEF FaultOnly, TypeOK, IntentTarget, files, process, Idle
  <2>3. IntentSound' /\ HalfRotatedHasIntent'
    BY <1>2, FilesKept DEF FaultOnly, RotationInv, files
  <2>4. TargetCurrent'
    BY <1>2 DEF FaultOnly, RotationInv, TargetCurrent, NewIntent, Sound, Publishes, WritesOne,
                IsBlocked, IsTerminal, IsTerminalExecution, Idle, files, process
  <2> QED
    BY <2>2, <2>3, <2>4 DEF RotationInv
<1> QED
  BY <1>1, <1>2, StepOfPins

\* What a POST files is a request, by the pins it read.
LEMMA NewRequest ==
    ASSUME TypeOK, RequestType, filed < MaxRequests,
           NEW role \in {"map", "pinvi"}, NEW revision,
           IF role = "map" THEN revision \in Maps ELSE revision \in Pinvis
    PROVE  [id |-> filed + 1, role |-> role, base |-> pinsPublic.pair,
            next |-> Replaced(pinsPublic.pair, role, revision)] \in Requests
<1>1. pinsPublic.pair \in Pairs
  BY DEF TypeOK, Pins
<1>2. Replaced(pinsPublic.pair, role, revision) \in Pairs
  <2>1. CASE role = "map"
    BY <1>1, <2>1 DEF Replaced, Pairs
  <2>2. CASE role = "pinvi"
    BY <1>1, <2>2 DEF Replaced, Pairs
  <2> QED
    BY <2>1, <2>2
<1>3. filed + 1 \in 1 .. MaxRequests
  BY RequestsAssumption DEF RequestType
<1> QED
  BY <1>1, <1>2, <1>3 DEF Requests

\* The steps of the requests, one POST, removal or apply at a time.
LEMMA RequestCases ==
    ASSUME RequestsNext
    PROVE  \/ OtherCommand \/ CommandWrites \/ KtdctlDies \/ BackendDies
           \/ \E p \in Posters, revision \in Maps : PostReads(p, "map", revision)
           \/ \E p \in Posters, revision \in Pinvis : PostReads(p, "pinvi", revision)
           \/ \E p \in Posters : PostCreates(p) \/ PostFills(p) \/ PostEnds(p) \/ PostFails(p)
           \/ \E r \in Removers : ClearReads(r) \/ ForceReads(r) \/ RemoverUnlinks(r)
           \/ \E b \in BOOLEAN : ApplyPending(b)
           \/ ApplyCompares \/ ApplyUnlinks
BY DEF RequestsNext, PostSome, RemoveSome, ApplySome

\* NoRequest is none.
LEMMA NoRequestId == NoRequest.id = 0 /\ NoRequest \notin Requests
BY DEF NoRequest, Requests

\* A thread goes on with a request that has an id already.
LEMMA PostTyped ==
    ASSUME RequestType, NEW p \in Posters, NEW at \in {"idle", "create", "fill", "chmod"},
           NEW request \in Requests \cup {NoRequest}, Post(p, at, request),
           at # "idle" => request \in Requests /\ request.id <= filed',
           filed' \in Nat, filed <= filed'
    PROVE  PostsType'
<1>1. posts' = [posts EXCEPT ![p] = [at |-> at, request |-> request]]
  BY DEF Post
<1>2. posts' \in [Posters -> [at : {"idle", "create", "fill", "chmod"},
                              request : Requests \cup {NoRequest}]]
  BY <1>1 DEF RequestType, PostsType
<1>3. ASSUME NEW o \in Posters, posts'[o].at # "idle"
      PROVE  posts'[o].request \in Requests /\ posts'[o].request.id <= filed'
  <2>1. CASE o = p
    BY <1>1, <1>3, <2>1 DEF RequestType, PostsType
  <2>2. CASE o # p
    <3>1. posts'[o] = posts[o] /\ filed \in Nat
      BY <1>1, <2>2 DEF RequestType, PostsType
    <3>2. posts[o].request \in Requests /\ posts[o].request.id <= filed
      BY <1>3, <3>1 DEF RequestType, PostsType
    <3>3. posts[o].request.id \in Nat
      BY <3>2 DEF Requests
    <3> QED
      BY <3>1, <3>2, <3>3
  <2> QED
    BY <2>1, <2>2
<1> QED
  BY <1>2, <1>3 DEF PostsType

\* The file, the threads and the counters keep their shape.
LEMMA RequestTypeStep ==
    ASSUME TypeOK, RequestType, RequestsNext
    PROVE  RequestType'
<1> USE RequestsAssumption, NoFileAssumption
<1>0. NoRequest \in Requests \cup {NoRequest} /\ filed \in Nat
  BY DEF RequestType
<1>1. CASE OtherCommand \/ CommandWrites \/ KtdctlDies
  <2>1. UNCHANGED <<file, posts, removals, filed, recorded>>
    BY <1>1 DEF OtherCommand, CommandWrites, KtdctlDies, requestVars
  <2>2. applying' = applying \/ EndApply
    BY <1>1 DEF OtherCommand, CommandWrites, KtdctlDies, requestVars
  <2> QED
    BY <2>1, <2>2 DEF RequestType, PostsType, EndApply
<1>2. CASE BackendDies
  BY <1>2 DEF BackendDies, RequestType, PostsType
<1>3. ASSUME NEW p \in Posters, NEW role \in {"map", "pinvi"}, NEW revision,
             IF role = "map" THEN revision \in Maps ELSE revision \in Pinvis,
             PostReads(p, role, revision)
      PROVE  RequestType'
  <2> DEFINE q == [id |-> filed + 1, role |-> role, base |-> pinsPublic.pair,
                   next |-> Replaced(pinsPublic.pair, role, revision)]
  <2>1. q \in Requests /\ filed < MaxRequests
    BY <1>3, NewRequest DEF PostReads
  <2>2. Post(p, "create", q) /\ filed' = filed + 1 /\ q.id = filed'
    BY <1>3 DEF PostReads
  <2>3. UNCHANGED <<file, removals, applying, recorded>>
    BY <1>3 DEF PostReads
  <2>4. filed' \in 0 .. MaxRequests /\ recorded' \subseteq 1 .. filed'
    BY <2>1, <2>2, <2>3 DEF RequestType
  <2> HIDE DEF q
  <2>5. PostsType'
    BY <1>0, <2>1, <2>2, <2>4, PostTyped
  <2> QED
    BY <2>3, <2>4, <2>5 DEF RequestType
<1>4. ASSUME NEW p \in Posters, PostCreates(p) PROVE RequestType'
  <2>1. /\ posts[p].request \in Requests /\ posts[p].request.id <= filed
        /\ filed' = filed /\ UNCHANGED <<removals, applying, recorded>>
    BY <1>4 DEF PostCreates, RequestType, PostsType
  <2>2. Post(p, "fill", posts[p].request) \/ Post(p, "idle", NoRequest)
    BY <1>4 DEF PostCreates, EndPost
  <2>3. PostsType'
    BY <1>0, <2>1, <2>2, PostTyped
  <2>4. file' = [request |-> posts[p].request, whole |-> FALSE] \/ file' = file
    BY <1>4 DEF PostCreates
  <2>5. file' \in [request : Requests, whole : BOOLEAN] \cup {Absent}
    <3>1. [request |-> posts[p].request, whole |-> FALSE] \in [request : Requests, whole : BOOLEAN]
      BY <2>1
    <3> QED
      BY <2>4, <3>1 DEF RequestType
  <2> QED
    BY <2>1, <2>3, <2>5 DEF RequestType
<1>5. ASSUME NEW p \in Posters, PostFills(p) PROVE RequestType'
  <2>1. /\ posts[p].request \in Requests /\ posts[p].request.id <= filed
        /\ filed' = filed /\ UNCHANGED <<removals, applying, recorded>>
        /\ Post(p, "chmod", posts[p].request)
    BY <1>5 DEF PostFills, RequestType, PostsType
  <2>2. PostsType'
    BY <1>0, <2>1, PostTyped
  <2>3. file' \in [request : Requests, whole : BOOLEAN] \cup {Absent}
    BY <1>5 DEF PostFills, RequestType
  <2> QED
    BY <2>1, <2>2, <2>3 DEF RequestType
<1>6. ASSUME NEW p \in Posters, PostEnds(p) PROVE RequestType'
  <2>1. /\ posts[p].request \in Requests /\ posts[p].request.id <= filed
        /\ Post(p, "idle", NoRequest) /\ UNCHANGED <<file, filed, removals, applying>>
    BY <1>6 DEF PostEnds, EndPost, RequestType, PostsType
  <2>2. PostsType'
    BY <1>0, <2>1, PostTyped
  <2>3. posts[p].request.id \in 1 .. filed
    BY <1>0, <2>1 DEF Requests
  <2>4. recorded' \subseteq 1 .. filed
    BY <1>6, <2>3 DEF PostEnds, RequestType
  <2> QED
    BY <2>1, <2>2, <2>4 DEF RequestType
<1>7. ASSUME NEW p \in Posters, PostFails(p) PROVE RequestType'
  <2>1. /\ Post(p, "idle", NoRequest) /\ file' = Absent
        /\ UNCHANGED <<filed, removals, applying, recorded>>
    BY <1>7 DEF PostFails, EndPost
  <2>2. PostsType'
    BY <1>0, <2>1, PostTyped
  <2> QED
    BY <2>1, <2>2 DEF RequestType
<1>8. ASSUME NEW r \in Removers, ClearReads(r) PROVE RequestType'
  <2>1. file.request.id \in 0 .. MaxRequests
    BY <1>8 DEF ClearReads, Readable, Opened, RequestType, Requests
  <2> QED
    BY <1>8, <2>1 DEF ClearReads, Remove, RequestType, PostsType
<1>9. ASSUME NEW r \in Removers, ForceReads(r) \/ RemoverUnlinks(r) PROVE RequestType'
  <2>1. /\ Remove(r, "unlink", 0) \/ Remove(r, "idle", 0)
        /\ file' = file \/ file' = Absent
        /\ UNCHANGED <<filed, posts, applying, recorded>>
    BY <1>9 DEF ForceReads, RemoverUnlinks
  <2>2. removals' \in [Removers -> [at : {"idle", "unlink"}, id : 0 .. MaxRequests]]
    BY <2>1 DEF Remove, RequestType
  <2> QED
    BY <2>1, <2>2 DEF RequestType, PostsType
<1>10. ASSUME NEW b \in BOOLEAN, ApplyPending(b) PROVE RequestType'
  <2>1. file.request \in Requests
    BY <1>10 DEF ApplyPending, Readable, Opened, RequestType
  <2> QED
    BY <1>10, <2>1 DEF ApplyPending, RequestType, PostsType
<1>11. CASE ApplyCompares
  BY <1>11 DEF ApplyCompares, EndApply, RequestType, PostsType
<1>12. CASE ApplyUnlinks
  BY <1>12 DEF ApplyUnlinks, EndApply, RequestType, PostsType
<1> QED
  BY <1>1, <1>2, <1>3, <1>4, <1>5, <1>6, <1>7, <1>8, <1>9, <1>10, <1>11, <1>12, RequestCases

-----------------------------------------------------------------------------
(* What a POST and a removal go back to.                                     *)

\* A request in the making has an id of its own, and is not recorded yet.
PostInv ==
    /\ \A p \in Posters : posts[p].at # "idle" =>
           posts[p].request.id \notin recorded
    /\ \A p, q \in Posters : p # q /\ posts[p].at # "idle" /\ posts[q].at # "idle"
           => posts[p].request.id # posts[q].request.id

\* The ids stay apart, and a request that is recorded is no longer in the making.
LEMMA PostInvStep ==
    ASSUME RequestType, PostInv, RequestsNext
    PROVE  PostInv'
<1>1. CASE OtherCommand \/ CommandWrites \/ KtdctlDies \/ ApplyCompares \/ ApplyUnlinks
           \/ (\E r \in Removers : ClearReads(r) \/ ForceReads(r) \/ RemoverUnlinks(r))
           \/ (\E b \in BOOLEAN : ApplyPending(b))
  <2>1. UNCHANGED <<posts, recorded>>
    BY <1>1 DEF OtherCommand, CommandWrites, KtdctlDies, requestVars, ApplyCompares, ApplyUnlinks,
                ClearReads, ForceReads, RemoverUnlinks, ApplyPending
  <2> QED
    BY <2>1 DEF PostInv
<1>2. CASE BackendDies
  BY <1>2 DEF BackendDies, PostInv
<1>3. ASSUME NEW p \in Posters, NEW role, NEW revision, PostReads(p, role, revision)
      PROVE  PostInv'
  <2> DEFINE q == [id |-> filed + 1, role |-> role, base |-> pinsPublic.pair,
                   next |-> Replaced(pinsPublic.pair, role, revision)]
  <2>1. posts' = [posts EXCEPT ![p] = [at |-> "create", request |-> q]] /\ UNCHANGED recorded
    BY <1>3 DEF PostReads, Post
  <2>2. q.id = filed + 1 /\ filed + 1 \notin recorded
    BY RequestsAssumption DEF RequestType
  <2> HIDE DEF q
  <2>3. \A o \in Posters : posts[o].at # "idle" => posts[o].request.id # filed + 1
    <3>1. ASSUME NEW o \in Posters, posts[o].at # "idle" PROVE posts[o].request.id # filed + 1
      <4>1. /\ posts[o].request \in Requests /\ posts[o].request.id <= filed
            /\ filed \in Nat
        BY <3>1 DEF RequestType, PostsType
      <4>2. posts[o].request.id \in Nat
        BY <4>1 DEF Requests
      <4> QED
        BY <4>1, <4>2
    <3> QED
      BY <3>1
  <2>4. \A o \in Posters : posts'[o] = IF o = p THEN [at |-> "create", request |-> q] ELSE posts[o]
    BY <2>1 DEF RequestType, PostsType
  <2> QED
    BY <2>1, <2>2, <2>3, <2>4 DEF PostInv
<1>4. ASSUME NEW p \in Posters, PostCreates(p) \/ PostFills(p) \/ PostFails(p) PROVE PostInv'
  <2>1. /\ posts[p].at # "idle" /\ UNCHANGED recorded
        /\ \/ Post(p, "fill", posts[p].request) \/ Post(p, "chmod", posts[p].request)
           \/ Post(p, "idle", NoRequest)
    BY <1>4 DEF PostCreates, PostFills, PostFails, EndPost
  <2>2. \A o \in Posters : posts'[o].at # "idle"
            => posts[o].at # "idle" /\ posts'[o].request = posts[o].request
    BY <2>1 DEF Post, RequestType, PostsType
  <2> QED
    BY <2>1, <2>2 DEF PostInv
<1>5. ASSUME NEW p \in Posters, PostEnds(p) PROVE PostInv'
  <2>1. /\ posts[p].at # "idle" /\ Post(p, "idle", NoRequest)
        /\ recorded' \subseteq recorded \cup {posts[p].request.id}
    BY <1>5 DEF PostEnds, EndPost
  <2>2. \A o \in Posters : posts'[o].at # "idle" => o # p /\ posts'[o] = posts[o]
    BY <2>1 DEF Post, RequestType, PostsType
  <2> QED
    BY <2>1, <2>2 DEF PostInv
<1> QED
  BY <1>1, <1>2, <1>3, <1>4, <1>5, RequestCases

-----------------------------------------------------------------------------
(* What an apply has rotated.                                                *)

Asked == applying.request.next

\* A rotation that apply-pending began goes to the pair that was proposed, by an
\* intent or over the source registry alone; at rest it is there.
AskInv ==
    applying.at # "idle" =>
        IF Idle THEN /\ pins.pair = Asked /\ pinsPublic.pair = Asked
                     /\ intent = Absent
                     /\ execs # Absent => execs.pair = Asked /\ execsPublic.pair = Asked
        ELSE /\ applying.at = "rotate" /\ target.pins.pair = Asked
             /\ ~target.rotates => /\ execs = Absent
                                   /\ step \in {"preserve", "pins", "pins_public"}
                                   /\ step = "pins_public" => pins.pair = Asked

\* The rotation that starts is the one that was asked for.
LEMMA ApplyStarts ==
    ASSUME TypeOK, RequestType, NEW b \in BOOLEAN, ApplyPending(b)
    PROVE  AskInv'
<1> DEFINE request == file.request
           q == OneRole(request.role, request.next[request.role])
           c == Command("rotate", request.role, q)
<1>1. /\ RotateRole(request.role, request.next[request.role], b) /\ MayApply(request)
      /\ applying' = [at |-> "rotate", request |-> request]
  BY DEF ApplyPending
<1>2. Asked' = request.next /\ applying'.at = "rotate"
  BY <1>1 DEF Asked
<1>3. CASE intent # Absent /\ Resume(c)
  <2>1. intent.pins.pair = request.next
    BY <1>1, <1>3 DEF MayApply
  <2>2. step' = "preserve" /\ target'.pins = intent.pins /\ target'.rotates
    BY <1>3 DEF Resume, Run
  <2> QED
    BY <1>2, <2>1, <2>2 DEF AskInv, Idle
<1>4. CASE intent = Absent /\ execs = Absent /\ BeginSourceOnly(c, RotatedPins(q, b))
  <2>1. RotatedPins(q, b).pair = request.next
    BY <1>1, <1>4 DEF MayApply, Replaced, OneRole, RotatedPins
  <2>2. step' = "preserve" /\ target'.pins = RotatedPins(q, b) /\ execs' = Absent
    BY <1>4 DEF BeginSourceOnly, Run, files
  <2> QED
    BY <1>2, <2>1, <2>2 DEF AskInv, Idle
<1>5. CASE intent = Absent /\ BeginIntent(c, RotatedPins(q, b), RotatedExecutions(q))
  <2>1. RotatedPins(q, b).pair = request.next
    BY <1>1, <1>5 DEF MayApply, Replaced, OneRole, RotatedPins
  <2>2. step' = "intent" /\ target'.pins = RotatedPins(q, b) /\ target'.rotates
    BY <1>5 DEF BeginIntent, Run
  <2> QED
    BY <1>2, <2>1, <2>2 DEF AskInv, Idle
<1> QED
  BY <1>1, <1>3, <1>4, <1>5 DEF RotateRole

\* Its last write leaves every file on the pair that was asked for.
LEMMA WriteAsked ==
    ASSUME TypeOK, IntentTarget, RotationInv, AskInv, applying.at # "idle",
           Write, UNCHANGED applying
    PROVE  AskInv'
<1>1. ~Idle
  BY DEF Write, WriteIntent, Preserve, WritePins, PublishPins, WriteExecutions, PublishExecutions,
         ClearIntent, Writes, Idle
<1>2. /\ applying.at = "rotate" /\ target.pins.pair = Asked
      /\ ~target.rotates => /\ execs = Absent
                            /\ step \in {"preserve", "pins", "pins_public"}
                            /\ step = "pins_public" => pins.pair = Asked
  BY <1>1 DEF AskInv
<1>3. applying' = applying /\ Asked' = Asked
  BY DEF Asked
<1>4. CASE WriteIntent
  <2>1. step' = "preserve" /\ target' = target /\ execs' = execs
    BY <1>4, AfterValues DEF WriteIntent, Writes
  <2> QED
    BY <1>2, <1>3, <2>1 DEF AskInv, Idle
<1>5. CASE Preserve
  <2>1. step' = "pins" /\ target' = target /\ execs' = execs
    BY <1>5, AfterValues DEF Preserve, Writes
  <2> QED
    BY <1>2, <1>3, <2>1 DEF AskInv, Idle
<1>6. CASE WritePins
  <2>1. step' = "pins_public" /\ target' = target /\ execs' = execs /\ pins' = target.pins
    BY <1>6, AfterValues DEF WritePins, Writes
  <2> QED
    BY <1>2, <1>3, <2>1 DEF AskInv, Idle
<1>7. CASE PublishPins
  <2>1. step = "pins_public" /\ UNCHANGED <<pins, execs, intent>> /\ pinsPublic' = target.pins
    BY <1>7 DEF PublishPins, Writes
  <2>2. CASE target.rotates
    <3>1. step' = "execs" /\ target' = target
      BY <1>7, <2>2, AfterValues DEF PublishPins, Writes
    <3> QED
      BY <1>2, <1>3, <2>2, <3>1 DEF AskInv, Idle
  <2>3. CASE ~target.rotates
    <3>1. step' = "idle"
      BY <1>7, <2>3, AfterValues DEF PublishPins, Writes, Done
    <3>2. intent = Absent
      BY <1>1, <2>3 DEF RotationInv, TargetCurrent, WritesOne
    <3> QED
      BY <1>2, <1>3, <2>1, <2>3, <3>1, <3>2 DEF AskInv, Idle
  <2> QED
    BY <2>2, <2>3
<1>8. CASE WriteExecutions
  <2>1. step = "execs" /\ step' = "execs_public" /\ target' = target
    BY <1>8, AfterValues DEF WriteExecutions, Writes
  <2>2. target.rotates
    BY <1>2, <2>1 DEF TypeOK
  <2> QED
    BY <1>2, <1>3, <2>1, <2>2 DEF AskInv, Idle
<1>9. CASE PublishExecutions
  <2>1. step = "execs_public" /\ target.rotates
    BY <1>2, <1>9 DEF PublishExecutions, Writes
  <2>2. step' = "clear" /\ target' = target
    BY <1>9, <2>1, AfterValues DEF PublishExecutions, Writes
  <2> QED
    BY <1>2, <1>3, <2>1, <2>2 DEF AskInv, Idle
<1>10. CASE ClearIntent
  <2>1. /\ Publishes /\ step = "clear" /\ step' = "idle" /\ intent' = Absent
        /\ UNCHANGED <<pins, pinsPublic, execs, execsPublic>>
    BY <1>10, Cleared DEF ClearIntent, Done
  <2>2. intent.pins.pair = intent.execs.pair
    BY <2>1 DEF Publishes, RotationInv, IntentSound, Sound
  <2>3. /\ pins.pair = Asked /\ pinsPublic.pair = Asked
        /\ execs.pair = Asked /\ execsPublic.pair = Asked
    BY <1>2, <2>1, <2>2 DEF Publishes
  <2> QED
    BY <1>3, <2>1, <2>3 DEF AskInv, Idle
<1> QED
  BY <1>4, <1>5, <1>6, <1>7, <1>8, <1>9, <1>10 DEF Write

\* No other step moves the pins under an apply.
LEMMA AskInvStep ==
    ASSUME TypeOK, IntentTarget, RotationInv, RequestType, AskInv, RequestsNext
    PROVE  AskInv'
<1>1. CASE OtherCommand
  BY <1>1 DEF OtherCommand, requestVars, AskInv
<1>2. CASE CommandWrites
  BY <1>2, WriteAsked DEF CommandWrites, requestVars, AskInv
<1>3. CASE KtdctlDies
  BY <1>3 DEF KtdctlDies, EndApply, AskInv
<1>4. ASSUME UNCHANGED <<files, process, applying>> PROVE AskInv'
  BY <1>4 DEF AskInv, Asked, Idle, files, process
<1>5. CASE BackendDies
  BY <1>4, <1>5 DEF BackendDies
<1>6. ASSUME NEW p \in Posters, PostCreates(p) \/ PostFills(p) \/ PostEnds(p) \/ PostFails(p)
      PROVE  AskInv'
  BY <1>4, <1>6 DEF PostCreates, PostFills, PostEnds, PostFails, vars
<1>7. ASSUME NEW p \in Posters, NEW role, NEW revision, PostReads(p, role, revision) PROVE AskInv'
  BY <1>4, <1>7 DEF PostReads, vars
<1>8. ASSUME NEW r \in Removers, ClearReads(r) \/ ForceReads(r) \/ RemoverUnlinks(r) PROVE AskInv'
  BY <1>4, <1>8 DEF ClearReads, ForceReads, RemoverUnlinks, vars
<1>9. ASSUME NEW b \in BOOLEAN, ApplyPending(b) PROVE AskInv'
  BY <1>9, ApplyStarts
<1>10. CASE ApplyCompares
  <2>1. applying.at = "rotate" /\ Idle /\ UNCHANGED <<files, process>>
    BY <1>10 DEF ApplyCompares, vars
  <2>2. applying'.at = "idle" \/ Asked' = Asked
    BY <1>10 DEF ApplyCompares, EndApply, Asked, RequestType
  <2> QED
    BY <2>1, <2>2 DEF AskInv, Idle, files, process
<1>11. CASE ApplyUnlinks
  BY <1>11 DEF ApplyUnlinks, EndApply, AskInv
<1> QED
  BY <1>1, <1>2, <1>3, <1>5, <1>6, <1>7, <1>8, <1>9, <1>10, <1>11, RequestCases

-----------------------------------------------------------------------------
(* What is kept.                                                             *)

Posting(p) == posts[p].at \in {"fill", "chmod"}

RecordedKept ==
    \A id \in recorded : id \in applied \cup cancelled \/ (file # Absent /\ file.request.id = id)

\* As long as nothing ran beside a removal: a POST that is writing finds its own file
\* under the name, a half-written file was never recorded, and a removal that has
\* decided takes what it decided about.
FileInv ==
    /\ \A p \in Posters : Posting(p) =>
           file # Absent /\ file.request = posts[p].request /\ (posts[p].at = "chmod" => file.whole)
    /\ file # Absent /\ ~file.whole => file.request.id \notin recorded
    /\ \A r \in Removers : Unlinking(r) =>
           /\ file # Absent
           /\ IF removals[r].id = 0 THEN ~file.whole ELSE file.request.id = removals[r].id
    /\ Unlinks => /\ file # Absent /\ file.request.id = applying.request.id
                  /\ applying.request.id \in applied
    /\ RecordedKept

KeptInv == ~overlapped => ~Overlap /\ FileInv

\* A POST that writes is alone with its file: no other one writes, and no removal
\* has decided.
LEMMA PostsAlone ==
    ASSUME RequestType, PostInv, FileInv, ~Overlap, NEW p \in Posters, Posting(p)
    PROVE  /\ \A q \in Posters : Posting(q) => q = p
           /\ \A r \in Removers : ~Unlinking(r)
           /\ ~Unlinks
<1>1. ASSUME NEW q \in Posters, Posting(q), q # p PROVE FALSE
  <2>1. posts[p].request = posts[q].request
    BY <1>1 DEF FileInv
  <2>2. posts[p].at # "idle" /\ posts[q].at # "idle"
    BY <1>1 DEF Posting
  <2> QED
    BY <1>1, <2>1, <2>2 DEF PostInv
<1> QED
  BY <1>1 DEF Overlap, Posting

\* Steps of the pins and of the apply that leave the file and its users alone.
LEMMA FileInvKept ==
    ASSUME FileInv, UNCHANGED <<file, removals, recorded, cancelled>>,
           \A p \in Posters : Posting(p)' => posts' = posts,
           applying' = applying \/ ~Unlinks', applied \subseteq applied'
    PROVE  FileInv'
BY DEF FileInv, RecordedKept, Posting, Unlinking, Unlinks

\* What a POST does to the file.
LEMMA PostKeeps ==
    ASSUME RequestType, RequestType', PostInv, FileInv, ~Overlap, NEW p \in Posters,
           PostCreates(p) \/ PostFills(p) \/ PostEnds(p) \/ PostFails(p)
    PROVE  FileInv'
<1> USE NoFileAssumption
<1>0. /\ UNCHANGED <<removals, applying, cancelled, applied>>
      /\ posts[p].at # "idle"
  BY DEF PostCreates, PostFills, PostEnds, PostFails
<1>1. CASE PostCreates(p) /\ file = Absent
  <2>1. /\ file' = [request |-> posts[p].request, whole |-> FALSE]
        /\ posts' = [posts EXCEPT ![p] = [at |-> "fill", request |-> posts[p].request]]
        /\ recorded' = recorded
    BY <1>1 DEF PostCreates, Post
  <2>2. \A q \in Posters : Posting(q)' => q = p
    BY <1>1, <2>1 DEF FileInv, Posting, RequestType, PostsType
  <2>3. file' # Absent /\ file'.request = posts[p].request /\ ~file'.whole
    <3>1. posts[p].request \in Requests
      BY <1>0 DEF RequestType, PostsType
    <3>2. [request |-> posts[p].request, whole |-> FALSE] \in [request : Requests, whole : BOOLEAN]
      BY <3>1
    <3> QED
      BY <2>1, <3>2
  <2>4. posts'[p].request = posts[p].request /\ posts'[p].at = "fill"
    BY <2>1 DEF RequestType, PostsType
  <2>5. posts[p].request.id \notin recorded
    BY <1>0 DEF PostInv
  <2>6. \A r \in Removers : ~Unlinking(r)'
    BY <1>0, <1>1 DEF FileInv, Unlinking
  <2>7. ~Unlinks'
    BY <1>0, <1>1 DEF FileInv, Unlinks
  <2>8. RecordedKept'
    BY <1>0, <1>1, <2>1 DEF FileInv, RecordedKept
  <2> QED
    BY <2>1, <2>2, <2>3, <2>4, <2>5, <2>6, <2>7, <2>8 DEF FileInv
<1>2. CASE PostCreates(p) /\ file # Absent
  <2>1. /\ posts' = [posts EXCEPT ![p] = [at |-> "idle", request |-> NoRequest]]
        /\ UNCHANGED <<file, recorded>>
    BY <1>2 DEF PostCreates, EndPost, Post
  <2>2. \A q \in Posters : Posting(q)' => Posting(q) /\ posts'[q] = posts[q]
    BY <2>1 DEF Posting, RequestType, PostsType
  <2> QED
    BY <1>0, <2>1, <2>2 DEF FileInv, RecordedKept, Unlinking, Unlinks
<1>3. CASE PostFills(p)
  <2>1. Posting(p) /\ UNCHANGED recorded
    BY <1>3 DEF PostFills, Posting
  <2>2. /\ \A q \in Posters : Posting(q) => q = p
        /\ \A r \in Removers : ~Unlinking(r)
        /\ ~Unlinks
    BY <2>1, PostsAlone
  <2>3. file # Absent /\ file.request = posts[p].request
    BY <2>1 DEF FileInv
  <2>4. file' = [file EXCEPT !.whole = TRUE]
    BY <1>3, <2>3 DEF PostFills
  <2>5. file' # Absent /\ file'.request = file.request /\ file'.whole
    BY <2>3, <2>4 DEF RequestType
  <2>6. posts' = [posts EXCEPT ![p] = [at |-> "chmod", request |-> posts[p].request]]
    BY <1>3 DEF PostFills, Post
  <2>7. /\ \A q \in Posters : Posting(q)' => q = p
        /\ posts'[p].request = posts[p].request
    BY <2>2, <2>6 DEF Posting, RequestType, PostsType
  <2>8. RecordedKept'
    BY <1>0, <2>1, <2>3, <2>5 DEF FileInv, RecordedKept
  <2> QED
    BY <1>0, <2>2, <2>3, <2>5, <2>7, <2>8 DEF FileInv, Unlinking, Unlinks
<1>4. CASE PostEnds(p)
  <2>1. Posting(p) /\ posts[p].at = "chmod" /\ file' = file
    BY <1>4 DEF PostEnds, Posting
  <2>2. file # Absent /\ file.request = posts[p].request /\ file.whole
    BY <2>1 DEF FileInv
  <2>3. /\ posts' = [posts EXCEPT ![p] = [at |-> "idle", request |-> NoRequest]]
        /\ recorded' = recorded \cup {posts[p].request.id}
    BY <1>4, <2>2 DEF PostEnds, EndPost, Post
  <2>4. \A q \in Posters : Posting(q)' => Posting(q) /\ posts'[q] = posts[q]
    BY <2>3 DEF Posting, RequestType, PostsType
  <2>5. RecordedKept'
    BY <1>0, <2>1, <2>2, <2>3 DEF FileInv, RecordedKept
  <2> QED
    BY <1>0, <2>1, <2>2, <2>4, <2>5 DEF FileInv, Unlinking, Unlinks
<1>5. CASE PostFails(p)
  <2>1. Posting(p) /\ file' = Absent /\ UNCHANGED recorded
    BY <1>5 DEF PostFails, Posting
  <2>2. /\ \A q \in Posters : Posting(q) => q = p
        /\ \A r \in Removers : ~Unlinking(r)
        /\ ~Unlinks
    BY <2>1, PostsAlone
  <2>3. posts' = [posts EXCEPT ![p] = [at |-> "idle", request |-> NoRequest]]
    BY <1>5 DEF PostFails, EndPost, Post
  <2>4. \A q \in Posters : ~Posting(q)'
    BY <2>2, <2>3 DEF Posting, RequestType, PostsType
  <2>5. file.request.id \notin recorded
    BY <1>0, <2>1 DEF FileInv, PostInv
  <2>6. RecordedKept'
    BY <1>0, <2>1, <2>5 DEF FileInv, RecordedKept
  <2> QED
    BY <1>0, <2>1, <2>2, <2>4, <2>6 DEF FileInv, Unlinking, Unlinks
<1> QED
  BY <1>1, <1>2, <1>3, <1>4, <1>5

\* What a removal does to the file.
LEMMA RemovalKeeps ==
    ASSUME RequestType, RequestType', PostInv, FileInv, ~Overlap, NEW r \in Removers,
           ClearReads(r) \/ ForceReads(r) \/ RemoverUnlinks(r)
    PROVE  FileInv'
<1>0. UNCHANGED <<posts, applying, recorded, applied>>
  BY DEF ClearReads, ForceReads, RemoverUnlinks
<1>1. ASSUME NEW id, Remove(r, "unlink", id), file # Absent, UNCHANGED <<file, cancelled>>,
             IF id = 0 THEN ~file.whole ELSE file.request.id = id
      PROVE  FileInv'
  <2>1. \A o \in Removers : o # r => removals'[o] = removals[o]
    BY <1>1 DEF Remove, RequestType
  <2>2. removals'[r].id = id
    BY <1>1 DEF Remove, RequestType
  <2>3. \A o \in Removers : Unlinking(o)' =>
            IF removals'[o].id = 0 THEN ~file.whole ELSE file.request.id = removals'[o].id
    BY <1>1, <2>1, <2>2 DEF FileInv, Unlinking
  <2> QED
    BY <1>0, <1>1, <2>3 DEF FileInv, RecordedKept, Posting, Unlinks
<1>2. CASE ClearReads(r)
  <2>1. file # Absent /\ file.request \in Requests
    BY <1>2 DEF ClearReads, Readable, Opened, RequestType
  <2>2. file.request.id # 0
    BY <2>1 DEF Requests
  <2> QED
    BY <1>1, <1>2, <2>1, <2>2 DEF ClearReads
<1>3. CASE ForceReads(r)
  BY <1>1, <1>3 DEF ForceReads, Opened
<1>4. CASE RemoverUnlinks(r)
  <2>1. /\ Unlinking(r) /\ file' = Absent
        /\ cancelled' = cancelled \cup ({removals[r].id} \ {0})
        /\ removals' = [removals EXCEPT ![r] = [at |-> "idle", id |-> 0]]
    BY <1>4 DEF RemoverUnlinks, Unlinking, Remove
  <2>2. \A p \in Posters : ~Posting(p)
    BY <2>1 DEF Overlap, Posting
  <2>3. ~Unlinks /\ \A q \in Removers : Unlinking(q) => q = r
    BY <2>1 DEF Overlap
  <2>4. \A q \in Removers : ~Unlinking(q)'
    BY <2>1, <2>3 DEF Unlinking, RequestType
  <2>5. RecordedKept'
    <3>1. IF removals[r].id = 0 THEN ~file.whole ELSE file.request.id = removals[r].id
      BY <2>1 DEF FileInv
    <3>2. CASE removals[r].id = 0
      BY <1>0, <2>1, <3>1, <3>2 DEF FileInv, RecordedKept
    <3>3. CASE removals[r].id # 0
      BY <1>0, <2>1, <3>1, <3>3 DEF FileInv, RecordedKept
    <3> QED
      BY <3>2, <3>3
  <2> QED
    BY <1>0, <2>1, <2>2, <2>3, <2>4, <2>5 DEF FileInv, Posting, Unlinks
<1> QED
  BY <1>2, <1>3, <1>4

\* What the end of an apply does to the file.
LEMMA ApplyKeeps ==
    ASSUME RequestType, FileInv, ~Overlap, ApplyCompares \/ ApplyUnlinks
    PROVE  FileInv'
<1>0. UNCHANGED <<posts, removals, recorded, cancelled>>
  BY DEF ApplyCompares, ApplyUnlinks
<1>1. CASE ApplyCompares
  <2>1. /\ file' = file /\ applied' = applied \cup {applying.request.id}
        /\ \/ /\ file # Absent /\ file.request.id = applying.request.id
              /\ applying' = [applying EXCEPT !.at = "unlink"]
           \/ EndApply
    BY <1>1 DEF ApplyCompares, Readable, Opened
  <2>2. applying'.at = "unlink" => /\ file # Absent /\ file.request.id = applying.request.id
                                   /\ applying'.request = applying.request
    BY <2>1 DEF EndApply, RequestType
  <2> QED
    BY <1>0, <2>1, <2>2 DEF FileInv, RecordedKept, Posting, Unlinking, Unlinks
<1>2. CASE ApplyUnlinks
  <2>1. /\ Unlinks /\ file' = Absent /\ applied' = applied /\ applying'.at = "idle"
    BY <1>2 DEF ApplyUnlinks, Unlinks, EndApply
  <2>2. \A p \in Posters : ~Posting(p)
    BY <2>1 DEF Overlap, Posting
  <2>3. \A r \in Removers : ~Unlinking(r)
    BY <2>1 DEF Overlap
  <2>4. RecordedKept'
    BY <1>0, <2>1 DEF FileInv, RecordedKept
  <2> QED
    BY <1>0, <2>1, <2>2, <2>3, <2>4 DEF FileInv, Posting, Unlinking, Unlinks
<1> QED
  BY <1>1, <1>2

\* Every step keeps what is recorded, unless something ran beside a removal.
LEMMA KeptInvStep ==
    ASSUME RequestType, RequestType', PostInv, KeptInv, RequestsNext
    PROVE  KeptInv'
<1> SUFFICES ASSUME ~overlapped' PROVE ~Overlap' /\ FileInv'
  BY DEF KeptInv
<1>1. ~Overlap' /\ ~Overlap /\ FileInv
  BY DEF RequestsNext, KeptInv
<1>2. CASE OtherCommand \/ CommandWrites \/ KtdctlDies \/ (\E b \in BOOLEAN : ApplyPending(b))
  <2>1. /\ UNCHANGED <<file, posts, removals, recorded, cancelled, applied>>
        /\ applying' = applying \/ applying'.at # "unlink"
    BY <1>2 DEF OtherCommand, CommandWrites, KtdctlDies, ApplyPending, requestVars, EndApply
  <2> QED
    BY <1>1, <2>1, FileInvKept DEF Unlinks
<1>3. CASE BackendDies
  <2>1. /\ UNCHANGED <<file, removals, applying, recorded, cancelled, applied>>
        /\ \A p \in Posters : ~Posting(p)'
    BY <1>3 DEF BackendDies, Posting
  <2> QED
    BY <1>1, <2>1, FileInvKept
<1>4. ASSUME NEW p \in Posters, NEW role, NEW revision, PostReads(p, role, revision) PROVE FileInv'
  <2>1. /\ UNCHANGED <<file, removals, applying, recorded, cancelled, applied>>
        /\ posts'[p].at = "create"
        /\ \A q \in Posters : q # p => posts'[q] = posts[q]
    BY <1>4 DEF PostReads, Post, RequestType, PostsType
  <2>2. \A q \in Posters : Posting(q)' => Posting(q) /\ posts'[q] = posts[q]
    BY <2>1 DEF Posting
  <2> QED
    BY <1>1, <2>1, <2>2 DEF FileInv, RecordedKept, Unlinking, Unlinks
<1>5. ASSUME NEW p \in Posters, PostCreates(p) \/ PostFills(p) \/ PostEnds(p) \/ PostFails(p)
      PROVE  FileInv'
  BY <1>1, <1>5, PostKeeps
<1>6. ASSUME NEW r \in Removers, ClearReads(r) \/ ForceReads(r) \/ RemoverUnlinks(r) PROVE FileInv'
  BY <1>1, <1>6, RemovalKeeps
<1>7. CASE ApplyCompares \/ ApplyUnlinks
  BY <1>1, <1>7, ApplyKeeps
<1> QED
  BY <1>1, <1>2, <1>3, <1>4, <1>5, <1>6, <1>7, RequestCases

-----------------------------------------------------------------------------
(* The theorems of the requests.                                             *)

\* The pins, the file and the apply at first.
LEMMA RequestsStart ==
    ASSUME RequestsInit
    PROVE  /\ TypeOK /\ IntentTarget /\ RotationInv
           /\ RequestType /\ PostInv /\ AskInv /\ KeptInv
<1>1. TypeOK /\ IntentTarget /\ RotationInv
  BY TypesInit, RotationInit DEF RequestsInit
<1>2. /\ posts = [p \in Posters |-> [at |-> "idle", request |-> NoRequest]]
      /\ removals = [r \in Removers |-> [at |-> "idle", id |-> 0]]
      /\ applying = [at |-> "idle", request |-> NoRequest]
      /\ file = Absent /\ filed = 0 /\ recorded = {}
  BY DEF RequestsInit
<1>3. RequestType
  BY <1>2, RequestsAssumption DEF RequestType, PostsType
<1>4. PostInv /\ AskInv /\ KeptInv
  BY <1>2 DEF PostInv, AskInv, KeptInv, FileInv, RecordedKept, Overlap, Posting, Unlinking, Unlinks
<1> QED
  BY <1>1, <1>3, <1>4

\* The pins stay sound under the requests of the console, and the requests stay what
\* a POST, a removal and an apply take them for.
THEOREM RequestsInvariant ==
    RequestsSpec => [](TypeOK /\ IntentTarget /\ RotationInv
                       /\ RequestType /\ PostInv /\ AskInv /\ KeptInv)
<1> DEFINE Inv == /\ TypeOK /\ IntentTarget /\ RotationInv
                  /\ RequestType /\ PostInv /\ AskInv /\ KeptInv
<1>1. RequestsInit => Inv
  BY RequestsStart
<1>2. Inv /\ [RequestsNext]_allVars => Inv'
  <2>1. ASSUME Inv, RequestsNext PROVE Inv'
    BY <2>1, PinsBesideRequests, RequestTypeStep, PostInvStep, AskInvStep, KeptInvStep
  <2>2. ASSUME Inv, UNCHANGED allVars PROVE Inv'
    <3>1. UNCHANGED vars /\ UNCHANGED <<files, process, applying>>
      BY <2>2 DEF allVars, vars, requestVars
    <3>2. (TypeOK /\ IntentTarget /\ RotationInv)'
      BY <2>2, <3>1, TypesStep, RotationStep
    <3>3. RequestType' /\ PostInv'
      BY <2>2 DEF allVars, requestVars, RequestType, PostsType, PostInv
    <3>4. AskInv'
      BY <2>2, <3>1 DEF AskInv, Asked, Idle, files, process
    <3>5. KeptInv'
      BY <2>2 DEF allVars, requestVars, KeptInv, FileInv, RecordedKept, Overlap, Posting,
                  Unlinking, Unlinks
    <3> QED
      BY <3>2, <3>3, <3>4, <3>5
  <2> QED
    BY <2>1, <2>2
<1> QED
  BY <1>1, <1>2, PTL DEF RequestsSpec

\* What apply-pending counts as applied is what the request proposed.
THEOREM ApplyIsAsked == RequestsSpec => []AppliesWhatWasAsked
<1>1. AskInv => AppliesWhatWasAsked
  BY DEF AskInv, Asked, AppliesWhatWasAsked
<1> QED
  BY <1>1, RequestsInvariant, PTL

\* A recorded request stays until it is applied or cancelled by its id.
THEOREM RecordsAreKept == RequestsSpec => []RecordedIsKept
<1>1. KeptInv => RecordedIsKept
  BY DEF KeptInv, FileInv, RecordedKept, RecordedIsKept
<1> QED
  BY <1>1, RequestsInvariant, PTL
=============================================================================
