--------------------------- MODULE AtomicRotation ---------------------------
(***************************************************************************)
(* What the pair rotation promises to the commands that read the pins: the *)
(* source and the execution registry as one document, in which a rotation  *)
(* is a single step.  Which writes it takes, where they may stop, and who  *)
(* finishes them is no part of the promise (PairRotation implements it).   *)
(***************************************************************************)
CONSTANTS
    Pins, Executions,   \* the documents of the two registries
    Absent,             \* an execution registry that does not exist
    Floor,              \* the pairs that the code itself blocks
    Seed                \* the packaged seed's pair

VARIABLES
    source,             \* the source registry
    execution           \* the execution registry, or Absent

registries == <<source, execution>>

\* A pair is free to move to when nothing blocks it, or when it is pinned already.
Free(q) ==
    \/ q = source.pair
    \/ q \notin Floor /\ \A b \in source.blocked : b.pair # q

\* No verdict is forgotten.
Keeps(old, new) == old.blocked \subseteq new.blocked

\* Both registries move to one free pair at once.
Rotate ==
    /\ execution # Absent
    /\ source' \in Pins /\ execution' \in Executions
    /\ source'.pair = execution'.pair /\ Free(source'.pair)
    /\ Keeps(source, source') /\ Keeps(execution, execution')

\* A verdict about a pair; without an execution registry, also a rotation.
UpdateSource ==
    /\ source' \in Pins /\ Keeps(source, source')
    /\ source'.pair = source.pair \/ (execution = Absent /\ Free(source'.pair))
    /\ UNCHANGED execution

\* The one command that parts the two registries.
Reseed ==
    /\ source' \in Pins /\ Keeps(source, source') /\ source'.pair = Seed
    /\ UNCHANGED execution

\* Another Manager or another verdict for the pair that is pinned.
UpdateExecution ==
    /\ execution' \in Executions /\ execution'.pair = source.pair
    /\ execution # Absent => Keeps(execution, execution')
    /\ UNCHANGED source

Init == source \in Pins /\ source.pair = Seed /\ execution = Absent

Next == Rotate \/ UpdateSource \/ Reseed \/ UpdateExecution

Spec == Init /\ [][Next]_registries
=============================================================================
