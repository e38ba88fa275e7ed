---------------------------- MODULE StatusSnapshot ----------------------------
(***************************************************************************)
(* The container status that REST handlers and the WebSocket broadcaster    *)
(* share (status_snapshot.py): one collection at a time, callers that join  *)
(* it, a cache of two seconds, and the epoch by which every mutating method *)
(* (@invalidates_status) disowns what was observed across it.               *)
(*                                                                          *)
(* A caller is a thread.  A row is the version of one container: how often  *)
(* a Manager mutation has changed it.  A Future is its joined callers: they *)
(* all hold the result once the leader sets it.                             *)
(***************************************************************************)
EXTENDS Integers, FiniteSets

CONSTANTS
    Callers,     \* threads that may call get at the same time
    Mutators,    \* threads that may run a mutating method
    Containers,
    None,        \* no flight, no answer
    MaxEpoch,    \* bound: how many mutations begin and end
    MaxVersion   \* bound: changes of one container

ASSUME CallersAssumption == None \notin Callers /\ IsFiniteSet(Callers)
ASSUME BoundAssumption == MaxEpoch \in Nat /\ MaxVersion \in Nat

VARIABLES
    epoch, active,   \* _epoch, and the mutators that _mutations counts
    world,           \* the containers
    flight,          \* the leader of the collection in progress
    cached, fresh,   \* _cached with its _epoch, and whether _expires lies ahead
    pc, attempt,     \* of each caller; attempt is that of the two it is in
    seen, rows,      \* what the caller's observation was of: its epoch, its rows
    settled,         \* history: the containers when a mutation last ended
    answer           \* the rows get returned in this step

caller == <<pc, attempt, seen, rows>>
shared == <<flight, cached, fresh>>
mutation == <<epoch, active, world, settled>>
vars == <<mutation, shared, caller, answer>>

-----------------------------------------------------------------------------
Unread == -1
NoRows == [c \in Containers |-> Unread]
NoCache == [epoch |-> -1, rows |-> NoRows]

Init ==
    /\ epoch = 0 /\ active = {}
    /\ world = [c \in Containers |-> 0] /\ settled = world
    /\ flight = None /\ cached = NoCache /\ fresh = FALSE
    /\ pc = [t \in Callers |-> "idle"] /\ attempt = [t \in Callers |-> 1]
    /\ seen = [t \in Callers |-> 0] /\ rows = [t \in Callers |-> NoRows]
    /\ answer = None

\* The caller leaves get, with an answer or with an exception.
Leave(t) ==
    /\ pc' = [pc EXCEPT ![t] = "idle"] /\ attempt' = [attempt EXCEPT ![t] = 1]
    /\ seen' = [seen EXCEPT ![t] = 0] /\ rows' = [rows EXCEPT ![t] = NoRows]

Call(t) ==
    /\ pc[t] = "idle"
    /\ pc' = [pc EXCEPT ![t] = "ask"]
    /\ answer' = None
    /\ UNCHANGED <<mutation, shared, attempt, seen, rows>>

\* One pass under the lock: the cache, a flight of one's own, or the one there is.
Ask(t) ==
    /\ pc[t] = "ask"
    /\ LET hit == active = {} /\ cached.epoch = epoch /\ fresh
       IN  \/ hit /\ Leave(t) /\ answer' = cached.rows /\ UNCHANGED shared
           \/ /\ ~hit /\ flight = None /\ flight' = t
              /\ pc' = [pc EXCEPT ![t] = "leading"] /\ seen' = [seen EXCEPT ![t] = epoch]
              /\ answer' = None /\ UNCHANGED <<cached, fresh, attempt, rows>>
           \/ /\ ~hit /\ flight # None
              /\ pc' = [pc EXCEPT ![t] = "joined"]
              /\ answer' = None /\ UNCHANGED <<shared, attempt, seen, rows>>
    /\ UNCHANGED mutation

\* The leader reads the containers one by one, holding no lock.
Read(t, c) ==
    /\ pc[t] = "leading" /\ rows[t][c] = Unread
    /\ rows' = [rows EXCEPT ![t][c] = world[c]]
    /\ answer' = None
    /\ UNCHANGED <<mutation, shared, pc, attempt, seen>>

\* The result is set: for the leader and for everyone that joined.
Deliver(t) ==
    LET S == {t} \cup {f \in Callers : pc[f] = "joined"}
    IN  /\ pc' = [f \in Callers |-> IF f \in S THEN "observed" ELSE pc[f]]
        /\ seen' = [f \in Callers |-> IF f \in S THEN seen[t] ELSE seen[f]]
        /\ rows' = [f \in Callers |-> IF f \in S THEN rows[t] ELSE rows[f]]
        /\ flight' = None /\ answer' = None
        /\ UNCHANGED <<mutation, attempt>>

\* Mutant: the observation is cached under the epoch of its end.
Publish_LateEpoch(t) ==
    /\ pc[t] = "leading" /\ \A c \in Containers : rows[t][c] # Unread
    /\ \/ active = {} /\ cached' = [epoch |-> epoch, rows |-> rows[t]] /\ fresh' = TRUE
       \/ UNCHANGED <<cached, fresh>>
    /\ Deliver(t)

\* The end of a collection.  It is cached when no mutation crossed it and when it
\* shows no container in trouble, which the second disjunct stands for.
Publish(t) ==
    /\ pc[t] = "leading" /\ \A c \in Containers : rows[t][c] # Unread
    /\ \/ /\ epoch = seen[t] /\ active = {}
          /\ cached' = [epoch |-> epoch, rows |-> rows[t]] /\ fresh' = TRUE
       \/ UNCHANGED <<cached, fresh>>
    /\ Deliver(t)

\* collect raises: so does every get that leads or has joined the flight.
CollectFails(t) ==
    LET S == {t} \cup {f \in Callers : pc[f] = "joined"}
    IN  /\ pc[t] = "leading"
        /\ pc' = [f \in Callers |-> IF f \in S THEN "idle" ELSE pc[f]]
        /\ attempt' = [f \in Callers |-> IF f \in S THEN 1 ELSE attempt[f]]
        /\ seen' = [f \in Callers |-> IF f \in S THEN 0 ELSE seen[f]]
        /\ rows' = [f \in Callers |-> IF f \in S THEN NoRows ELSE rows[f]]
        /\ flight' = None /\ answer' = None
        /\ UNCHANGED <<mutation, cached, fresh>>

\* Mutant: only the first wait has a deadline.
TimeOut_FirstOnly(t) ==
    /\ pc[t] = "joined" /\ attempt[t] = 1
    /\ Leave(t) /\ answer' = None
    /\ UNCHANGED <<mutation, shared>>

\* Five seconds after the call a joined caller gives up, whatever attempt it is in.
TimeOut(t) ==
    /\ pc[t] = "joined"
    /\ Leave(t) /\ answer' = None
    /\ UNCHANGED <<mutation, shared>>

\* Mutant: a collection that a mutation crossed is returned all the same.
Settle_NoRecheck(t) ==
    /\ pc[t] = "observed"
    /\ Leave(t) /\ answer' = rows[t]
    /\ UNCHANGED <<mutation, shared>>

\* The result is returned if no mutation began or ended since; else once more.
Settle(t) ==
    /\ pc[t] = "observed"
    /\ \/ seen[t] = epoch /\ Leave(t) /\ answer' = rows[t]
       \/ /\ seen[t] # epoch /\ attempt[t] = 1
          /\ pc' = [pc EXCEPT ![t] = "ask"] /\ attempt' = [attempt EXCEPT ![t] = 2]
          /\ seen' = [seen EXCEPT ![t] = 0] /\ rows' = [rows EXCEPT ![t] = NoRows]
          /\ answer' = None
       \/ seen[t] # epoch /\ attempt[t] = 2 /\ Leave(t) /\ answer' = None
    /\ UNCHANGED <<mutation, shared>>

Expire ==
    /\ fresh /\ fresh' = FALSE
    /\ answer' = None
    /\ UNCHANGED <<mutation, flight, cached, caller>>

-----------------------------------------------------------------------------
(* Mutating methods; one that raises ends like one that returns.             *)

Begin(m) ==
    /\ m \notin active /\ epoch + Cardinality(active) + 2 <= MaxEpoch
    /\ epoch' = epoch + 1 /\ active' = active \cup {m}
    /\ answer' = None
    /\ UNCHANGED <<world, settled, shared, caller>>

Change(m, c) ==
    /\ m \in active /\ world[c] < MaxVersion
    /\ world' = [world EXCEPT ![c] = @ + 1]
    /\ answer' = None
    /\ UNCHANGED <<epoch, active, settled, shared, caller>>

End(m) ==
    /\ m \in active
    /\ epoch' = epoch + 1 /\ active' = active \ {m}
    /\ settled' = world /\ answer' = None
    /\ UNCHANGED <<world, shared, caller>>

-----------------------------------------------------------------------------
Serve(t) == Ask(t) \/ Settle(t) \/ TimeOut(t)
Collect(t) == Publish(t) \/ CollectFails(t) \/ \E c \in Containers : Read(t, c)
Mutate(m) == Begin(m) \/ End(m) \/ \E c \in Containers : Change(m, c)

Next == \/ \E t \in Callers : Call(t) \/ Serve(t) \/ Collect(t)
        \/ \E m \in Mutators : Mutate(m)
        \/ Expire

Spec == Init /\ [][Next]_vars

\* A caller's own steps are taken and its deadline passes; a collection may hang.
FairSpec == Spec /\ \A t \in Callers : WF_vars(Serve(t))

-----------------------------------------------------------------------------
Row == Unread .. MaxVersion
Rows == [Containers -> Row]

\* The cache, the flight and every caller's observation keep their shape; a caller
\* asks twice at most.
TypeOK ==
    /\ epoch \in 0 .. MaxEpoch /\ active \subseteq Mutators
    /\ world \in [Containers -> 0 .. MaxVersion] /\ settled \in [Containers -> 0 .. MaxVersion]
    /\ flight \in Callers \cup {None}
    /\ cached \in [epoch : -1 .. MaxEpoch, rows : Rows] /\ fresh \in BOOLEAN
    /\ pc \in [Callers -> {"idle", "ask", "leading", "joined", "observed"}]
    /\ attempt \in [Callers -> 1 .. 2]
    /\ seen \in [Callers -> 0 .. MaxEpoch] /\ rows \in [Callers -> Rows]
    /\ answer \in Rows \cup {None}

\* What get returns shows every change that was made before the last mutation
\* ended: no cached, joined or retried observation from before it gets through.
AnswersAreFresh == answer # None => \A c \in Containers : answer[c] >= settled[c]

\* A cache entry that would be served is what the containers are now: it was not
\* torn by a mutation and none has happened since.
CacheIsCurrent == active = {} /\ cached.epoch = epoch => cached.rows = world

\* There is a flight exactly while one caller collects for it, so that no joined
\* caller waits for a result that nobody will set.
FlightHasLeader ==
    /\ \A t \in Callers : pc[t] = "leading" <=> flight = t
    /\ \A t \in Callers : pc[t] = "joined" => flight # None

\* A collection that hangs holds up its leader and nobody else.
CallersNotHeld ==
    \A t \in Callers : pc[t] \in {"ask", "joined", "observed"} ~> pc[t] \in {"idle", "leading"}

=============================================================================
