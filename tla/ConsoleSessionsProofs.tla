------------------------ MODULE ConsoleSessionsProofs ------------------------
(***************************************************************************)
(* Proofs about StatusSnapshot and ConsoleSessions, for any number of      *)
(* callers, mutators, containers, sockets, sessions and password changes   *)
(* and every bound: neither the cache nor an answer of the snapshot shows  *)
(* anything from before the last mutation ended, a socket is served no     *)
(* longer than the lease of an ended session, a refused handshake gives    *)
(* its place back, and a change of the password loses nothing of .env.     *)
(*                                                                         *)
(* A step of the console is one of the snapshot, leaves the snapshot alone *)
(* or is the restart of the backend; so the facts about the snapshot are   *)
(* first lemmas about one step and then theorems of both specifications.   *)
(***************************************************************************)
EXTENDS ConsoleSessions, FiniteSetTheorems, TLAPS

\* The actions, one disjunct each, with what they share expanded.
LEMMA NextCases ==
    ASSUME Next
    PROVE  \/ \E t \in Callers : \/ Call(t) \/ Ask(t) \/ Settle(t) \/ TimeOut(t)
                                 \/ Publish(t) \/ CollectFails(t)
                                 \/ \E c \in Containers : Read(t, c)
           \/ \E m \in Mutators : \/ Begin(m) \/ End(m)
                                  \/ \E c \in Containers : Change(m, c)
           \/ Expire
BY DEF Next, Serve, Collect, Mutate

-----------------------------------------------------------------------------
\* The epoch has room for every mutation that began to end.
EpochInv == IsFiniteSet(active) /\ epoch + Cardinality(active) <= MaxEpoch

\* The constants the functions are built from have their types.
LEMMA RowTypes ==
    /\ -1 \in Row /\ NoRows \in Rows
    /\ \A n \in 0 .. MaxVersion : n \in Row
BY BoundAssumption DEF Row, Rows, NoRows, Unread

\* The state has its shape at first ...
LEMMA SnapshotInit == Init => TypeOK /\ EpochInv
<1> SUFFICES ASSUME Init PROVE TypeOK /\ EpochInv
  OBVIOUS
<1>1. EpochInv
  BY FS_EmptySet, BoundAssumption DEF Init, EpochInv
<1>2. NoCache \in [epoch : -1 .. MaxEpoch, rows : Rows]
  BY RowTypes, BoundAssumption DEF NoCache
<1>3. settled = [c \in Containers |-> 0]
  BY DEF Init
<1>4. /\ world \in [Containers -> 0 .. MaxVersion] /\ settled \in [Containers -> 0 .. MaxVersion]
      /\ pc \in [Callers -> {"idle", "ask", "leading", "joined", "observed"}]
      /\ attempt \in [Callers -> 1 .. 2] /\ seen \in [Callers -> 0 .. MaxEpoch]
  BY <1>3, BoundAssumption DEF Init
<1>5. rows \in [Callers -> Rows]
  BY RowTypes DEF Init
<1>6. cached \in [epoch : -1 .. MaxEpoch, rows : Rows]
  BY <1>2 DEF Init
<1>7. epoch \in 0 .. MaxEpoch /\ active \subseteq Mutators
  BY BoundAssumption DEF Init
<1>8. /\ fresh \in BOOLEAN
      /\ flight \in Callers \cup {None} /\ answer \in Rows \cup {None}
  BY DEF Init
<1> QED
  BY <1>1, <1>4, <1>5, <1>6, <1>7, <1>8 DEF TypeOK

\* ... and keeps it; a caller that was crossed twice does not ask again.
LEMMA SnapshotStep ==
    ASSUME TypeOK, EpochInv, [Next]_vars
    PROVE  (TypeOK /\ EpochInv)'
<1> USE BoundAssumption
<1>1. ASSUME NEW t \in Callers, Call(t) PROVE (TypeOK /\ EpochInv)'
  BY <1>1 DEF TypeOK, EpochInv, Call, mutation, shared
<1>2. ASSUME NEW t \in Callers, Ask(t) PROVE (TypeOK /\ EpochInv)'
  BY <1>2, RowTypes DEF TypeOK, EpochInv, Ask, Leave, mutation, shared
<1>3. ASSUME NEW t \in Callers, Settle(t) PROVE (TypeOK /\ EpochInv)'
  BY <1>3, RowTypes DEF TypeOK, EpochInv, Settle, Leave, mutation, shared
<1>4. ASSUME NEW t \in Callers, TimeOut(t) PROVE (TypeOK /\ EpochInv)'
  BY <1>4, RowTypes DEF TypeOK, EpochInv, TimeOut, Leave, mutation, shared
<1>5. ASSUME NEW t \in Callers, Publish(t) PROVE (TypeOK /\ EpochInv)'
  <2>1. cached' \in [epoch : -1 .. MaxEpoch, rows : Rows]
    BY <1>5 DEF TypeOK, Publish
  <2>0. fresh' \in BOOLEAN
    BY <1>5 DEF TypeOK, Publish
  <2>2. /\ pc' \in [Callers -> {"idle", "ask", "leading", "joined", "observed"}]
        /\ seen' \in [Callers -> 0 .. MaxEpoch] /\ rows' \in [Callers -> Rows]
    BY <1>5 DEF TypeOK, Publish, Deliver
  <2> QED
    BY <1>5, <2>0, <2>1, <2>2 DEF TypeOK, EpochInv, Publish, Deliver, mutation
<1>6. ASSUME NEW t \in Callers, CollectFails(t) PROVE (TypeOK /\ EpochInv)'
  BY <1>6, RowTypes DEF TypeOK, EpochInv, CollectFails, mutation
<1>7. ASSUME NEW t \in Callers, NEW c \in Containers, Read(t, c) PROVE (TypeOK /\ EpochInv)'
  <2>1. world[c] \in Row
    BY RowTypes DEF TypeOK
  <2>2. [rows[t] EXCEPT ![c] = world[c]] \in Rows
    BY <2>1 DEF TypeOK, Rows
  <2> QED
    BY <1>7, <2>2 DEF TypeOK, EpochInv, Read, mutation, shared
<1>8. ASSUME NEW m \in Mutators, Begin(m) PROVE (TypeOK /\ EpochInv)'
  <2>1. IsFiniteSet(active') /\ Cardinality(active') = Cardinality(active) + 1
    BY <1>8, FS_AddElement DEF Begin, EpochInv
  <2>2. Cardinality(active) \in Nat
    BY FS_CardinalityType DEF EpochInv
  <2> QED
    BY <1>8, <2>1, <2>2 DEF TypeOK, EpochInv, Begin, shared, caller
<1>9. ASSUME NEW m \in Mutators, End(m) PROVE (TypeOK /\ EpochInv)'
  <2>1. IsFiniteSet(active') /\ Cardinality(active') = Cardinality(active) - 1
    BY <1>9, FS_RemoveElement DEF End, EpochInv
  <2>2. Cardinality(active) \in Nat /\ Cardinality(active') \in Nat
    BY <2>1, FS_CardinalityType DEF EpochInv
  <2> QED
    BY <1>9, <2>1, <2>2 DEF TypeOK, EpochInv, End, shared, caller
<1>10. ASSUME NEW m \in Mutators, NEW c \in Containers, Change(m, c)
       PROVE  (TypeOK /\ EpochInv)'
  BY <1>10 DEF TypeOK, EpochInv, Change, shared, caller
<1>11. CASE Expire
  BY <1>11 DEF TypeOK, EpochInv, Expire, mutation, caller
<1>12. CASE UNCHANGED vars
  BY <1>12 DEF TypeOK, EpochInv, vars, mutation, shared, caller
<1> QED
  BY <1>1, <1>2, <1>3, <1>4, <1>5, <1>6, <1>7, <1>8, <1>9, <1>10, <1>11, <1>12, NextCases

-----------------------------------------------------------------------------
\* A flight has its leader: whoever ends a collection, with a result or with an
\* exception, ends the flight and lets everyone go that joined it.
LEMMA LeaderStep ==
    ASSUME TypeOK, FlightHasLeader, [Next]_vars
    PROVE  FlightHasLeader'
<1> USE CallersAssumption DEF FlightHasLeader
<1>0. pc \in [Callers -> {"idle", "ask", "leading", "joined", "observed"}]
  BY DEF TypeOK
<1>1. ASSUME NEW t \in Callers, Call(t) PROVE FlightHasLeader'
  BY <1>0, <1>1 DEF Call, shared
<1>2. ASSUME NEW t \in Callers, Ask(t) PROVE FlightHasLeader'
  BY <1>0, <1>2 DEF Ask, Leave, shared
<1>3. ASSUME NEW t \in Callers, Settle(t) PROVE FlightHasLeader'
  BY <1>0, <1>3 DEF Settle, Leave, shared
<1>4. ASSUME NEW t \in Callers, TimeOut(t) PROVE FlightHasLeader'
  BY <1>0, <1>4 DEF TimeOut, Leave, shared
<1>5. ASSUME NEW t \in Callers, Publish(t) PROVE FlightHasLeader'
  BY <1>0, <1>5 DEF Publish, Deliver
<1>6. ASSUME NEW t \in Callers, CollectFails(t) PROVE FlightHasLeader'
  BY <1>0, <1>6 DEF CollectFails
<1>7. CASE UNCHANGED <<flight, pc>>
  BY <1>7
<1>8. ASSUME NEW t \in Callers, NEW c \in Containers, Read(t, c)
      PROVE  UNCHANGED <<flight, pc>>
  BY <1>8 DEF Read, shared
<1>9. ASSUME NEW m \in Mutators, Begin(m) \/ End(m) \/ \E c \in Containers : Change(m, c)
      PROVE  UNCHANGED <<flight, pc>>
  BY <1>9 DEF Begin, End, Change, shared, caller
<1>10. Expire \/ UNCHANGED vars => UNCHANGED <<flight, pc>>
  BY DEF Expire, vars, shared, caller
<1> QED
  BY <1>1, <1>2, <1>3, <1>4, <1>5, <1>6, <1>7, <1>8, <1>9, <1>10, NextCases


-----------------------------------------------------------------------------
\* What a caller observed at its epoch: every container it has read shows what was
\* settled then, and, when nothing mutates, what it is.
Observes(t) ==
    /\ seen[t] <= epoch
    /\ seen[t] = epoch => \A c \in Containers : rows[t][c] # Unread =>
          /\ rows[t][c] >= settled[c]
          /\ active = {} => rows[t][c] = world[c]

\* Changes only add up; a caller that holds no observation holds no rows; an
\* observation that is complete has every row; nobody is ahead of the epoch.
FreshInv ==
    /\ \A c \in Containers : settled[c] <= world[c]
    /\ \A t \in Callers : CASE pc[t] = "leading" -> Observes(t)
                            [] pc[t] = "observed" ->
                                  Observes(t) /\ \A c \in Containers : rows[t][c] # Unread
                            [] OTHER -> rows[t] = NoRows
    /\ cached.epoch <= epoch
    /\ CacheIsCurrent

\* Epochs and versions are integers, an unread row is none of them.
LEMMA Numbers ==
    ASSUME TypeOK
    PROVE  /\ epoch \in Int /\ cached.epoch \in Int
           /\ \A t \in Callers : seen[t] \in Int
           /\ \A t \in Callers, c \in Containers : rows[t][c] \in Int
           /\ \A c \in Containers : /\ world[c] \in Nat /\ settled[c] \in Nat
                                    /\ world[c] # Unread
BY BoundAssumption DEF TypeOK, Rows, Row, Unread

\* The cache and the observations keep up with the mutations, and what a step answers
\* The cache and the observations keep up with the mutations, and what a step answers
\* was settled.
LEMMA FreshInit == Init => FreshInv /\ AnswersAreFresh
BY DEF Init, FreshInv, AnswersAreFresh, CacheIsCurrent, NoCache

LEMMA FreshStep ==
    ASSUME TypeOK, TypeOK', FreshInv, AnswersAreFresh, [Next]_vars
    PROVE  FreshInv' /\ AnswersAreFresh'
<1> USE DEF FreshInv, CacheIsCurrent, AnswersAreFresh, Observes
<1>0. /\ pc \in [Callers -> {"idle", "ask", "leading", "joined", "observed"}]
      /\ rows \in [Callers -> Rows] /\ seen \in [Callers -> 0 .. MaxEpoch]
      /\ world \in [Containers -> 0 .. MaxVersion]
  BY DEF TypeOK
<1>1. ASSUME NEW t \in Callers, Call(t) PROVE FreshInv' /\ AnswersAreFresh'
  BY <1>0, <1>1 DEF Call, mutation, shared
<1>2. ASSUME NEW t \in Callers, Ask(t) PROVE FreshInv' /\ AnswersAreFresh'
  <2>1. CASE Leave(t) /\ answer' = cached.rows /\ UNCHANGED <<mutation, shared>>
             /\ active = {} /\ cached.epoch = epoch
    BY <1>0, <2>1, Numbers DEF Leave, mutation, shared
  <2>2. CASE /\ pc' = [pc EXCEPT ![t] = "leading"] /\ seen' = [seen EXCEPT ![t] = epoch]
             /\ answer' = None /\ UNCHANGED <<mutation, cached, rows>>
             /\ pc[t] = "ask"
    BY <1>0, <2>2, Numbers DEF NoRows, mutation
  <2>3. CASE /\ pc[t] = "ask" /\ pc' = [pc EXCEPT ![t] = "joined"]
             /\ answer' = None /\ UNCHANGED <<mutation, shared, seen, rows>>
    BY <1>0, <2>3 DEF mutation, shared
  <2> QED
    BY <1>2, <2>1, <2>2, <2>3 DEF Ask
<1>3. ASSUME NEW t \in Callers, Settle(t) PROVE FreshInv' /\ AnswersAreFresh'
  <2>1. CASE seen[t] = epoch /\ Leave(t) /\ answer' = rows[t]
    BY <1>0, <1>3, <2>1 DEF Settle, Leave, mutation, shared
  <2>2. CASE /\ pc' = [pc EXCEPT ![t] = "ask"] /\ seen' = [seen EXCEPT ![t] = 0]
             /\ rows' = [rows EXCEPT ![t] = NoRows] /\ answer' = None
    BY <1>0, <1>3, <2>2 DEF Settle, mutation, shared
  <2>3. CASE Leave(t) /\ answer' = None
    BY <1>0, <1>3, <2>3 DEF Settle, Leave, mutation, shared
  <2> QED
    BY <1>3, <2>1, <2>2, <2>3 DEF Settle
<1>4. ASSUME NEW t \in Callers, TimeOut(t) PROVE FreshInv' /\ AnswersAreFresh'
  BY <1>0, <1>4 DEF TimeOut, Leave, mutation, shared
<1>5. ASSUME NEW t \in Callers, Publish(t) PROVE FreshInv' /\ AnswersAreFresh'
  <2>1. Observes(t) /\ \A c \in Containers : rows[t][c] # Unread
    BY <1>5 DEF Publish
  <2>2. cached'.epoch <= epoch /\ (active = {} /\ cached'.epoch = epoch => cached'.rows = world)
    <3>1. active = {} /\ epoch = seen[t] => rows[t] = world
      BY <1>0, <2>1 DEF Rows
    <3> QED
      BY <1>5, <3>1, Numbers DEF Publish
  <2> QED
    BY <1>0, <1>5, <2>1, <2>2 DEF Publish, Deliver, mutation
<1>6. ASSUME NEW t \in Callers, CollectFails(t) PROVE FreshInv' /\ AnswersAreFresh'
  BY <1>0, <1>6 DEF CollectFails, mutation
<1>7. ASSUME NEW t \in Callers, NEW c \in Containers, Read(t, c)
      PROVE  FreshInv' /\ AnswersAreFresh'
  <2>1. \A f \in Callers, d \in Containers :
           rows'[f][d] = IF f = t /\ d = c THEN world[c] ELSE rows[f][d]
    BY <1>0, <1>7 DEF Read, Rows
  <2>2. \A f \in Callers : f # t => rows'[f] = rows[f]
    BY <1>0, <1>7 DEF Read
  <2> QED
    BY <1>0, <1>7, <2>1, <2>2, Numbers DEF Read, mutation, shared
<1>8. ASSUME NEW m \in Mutators, Begin(m) \/ End(m) PROVE FreshInv' /\ AnswersAreFresh'
  <2>1. epoch' = epoch + 1 /\ UNCHANGED <<world, shared, caller>> /\ answer' = None
    BY <1>8 DEF Begin, End
  <2>2. \A c \in Containers : settled'[c] <= world'[c]
    BY <1>8, Numbers DEF Begin, End
  <2> QED
    BY <2>1, <2>2, Numbers DEF shared, caller
<1>9. ASSUME NEW m \in Mutators, NEW c \in Containers, Change(m, c)
      PROVE  FreshInv' /\ AnswersAreFresh'
  <2>1. \A d \in Containers : settled'[d] = settled[d] /\ settled'[d] <= world'[d]
    BY <1>0, <1>9, Numbers DEF Change
  <2> QED
    BY <1>9, <2>1 DEF Change, shared, caller
<1>10. CASE Expire
  BY <1>10 DEF Expire, mutation, caller
<1>11. CASE UNCHANGED vars
  BY <1>11 DEF vars, mutation, shared, caller
<1> QED
  BY <1>1, <1>2, <1>3, <1>4, <1>5, <1>6, <1>7, <1>8, <1>9, <1>10, <1>11, NextCases
-----------------------------------------------------------------------------
\* What is always true of the snapshot.
SnapshotInv == TypeOK /\ EpochInv /\ FlightHasLeader /\ FreshInv /\ AnswersAreFresh

LEMMA SnapshotInvInit == Init => SnapshotInv
<1>1. Init => FlightHasLeader
  BY CallersAssumption DEF Init, FlightHasLeader
<1> QED
  BY <1>1, SnapshotInit, FreshInit DEF SnapshotInv

LEMMA SnapshotInvStep == SnapshotInv /\ [Next]_vars => SnapshotInv'
<1> SUFFICES ASSUME SnapshotInv, [Next]_vars PROVE SnapshotInv'
  OBVIOUS
<1>1. TypeOK' /\ EpochInv'
  BY SnapshotStep DEF SnapshotInv
<1>2. FlightHasLeader'
  BY LeaderStep DEF SnapshotInv
<1>3. FreshInv' /\ AnswersAreFresh'
  BY <1>1, FreshStep DEF SnapshotInv
<1> QED
  BY <1>1, <1>2, <1>3 DEF SnapshotInv

\* The snapshot by itself: its shape, its leader, its cache and its answers.
THEOREM SnapshotInvariant == Spec => []SnapshotInv
BY SnapshotInvInit, SnapshotInvStep, PTL DEF Spec

\* A step of the console is one of the snapshot, or its end and new beginning.
LEMMA ConsoleSteps ==
    ASSUME [ConsoleNext]_consoleVars
    PROVE  [Next]_vars \/ Restart
<1>1. CASE FrameStep
  BY <1>1 DEF FrameStep, Recheck, Close, LogChunk, Broadcast
<1>2. ASSUME NEW t \in Callers, Serving(t) \/ Collecting(t) PROVE [Next]_vars
  BY <1>2 DEF Serving, Collecting, Next
<1>3. CASE SessionStep \/ Tick \/ PasswordStep
  BY <1>3 DEF SessionStep, Login, Logout, SessionExpires, Tick, PasswordStep
<1>4. ASSUME BeginBroadcast PROVE [Next]_vars
  BY <1>4, SocketsAssumption DEF BeginBroadcast, Next
<1>5. ASSUME Elsewhere PROVE [Next]_vars
  BY <1>5 DEF Elsewhere, Next
<1>6. ASSUME NEW s \in Sockets, HandlerStep(s) PROVE [Next]_vars
  <2>1. CASE s \in StatusSockets /\ AcceptStatus(s)
    BY <2>1, SocketsAssumption DEF AcceptStatus, Next
  <2>2. CASE ~(s \in StatusSockets /\ AcceptStatus(s))
    BY <1>6, <2>2 DEF HandlerStep, Connect, Refuse, Authorize, AcceptLogs, OpenLogs, PeerSends,
       Receive, Disconnected, HandlerRaises, Close, Wake, DropClient
  <2> QED
    BY <2>1, <2>2
<1>7. CASE UNCHANGED consoleVars
  BY <1>7 DEF consoleVars
<1> QED
  BY <1>1, <1>2, <1>3, <1>4, <1>5, <1>6, <1>7 DEF ConsoleNext

\* After a restart nothing is cached and nobody asks.
LEMMA SnapshotRestart == SnapshotInv /\ Restart => SnapshotInv'
<1> SUFFICES ASSUME SnapshotInv, Restart PROVE SnapshotInv'
  OBVIOUS
<1>1. /\ epoch' = 0 /\ active' = {} /\ flight' = None /\ cached' = NoCache /\ fresh' = FALSE
      /\ pc' = [t \in Callers |-> "idle"] /\ attempt' = [t \in Callers |-> 1]
      /\ seen' = [t \in Callers |-> 0] /\ rows' = [t \in Callers |-> NoRows]
      /\ answer' = None /\ UNCHANGED <<world, settled>>
  BY DEF Restart
<1>2. NoCache \in [epoch : -1 .. MaxEpoch, rows : Rows]
  BY RowTypes, BoundAssumption DEF NoCache
<1>3. TypeOK'
  <2>1. /\ pc' \in [Callers -> {"idle", "ask", "leading", "joined", "observed"}]
        /\ attempt' \in [Callers -> 1 .. 2] /\ seen' \in [Callers -> 0 .. MaxEpoch]
    BY <1>1, BoundAssumption
  <2>2. rows' \in [Callers -> Rows]
    BY <1>1, RowTypes
  <2>3. epoch' \in 0 .. MaxEpoch
    BY <1>1, BoundAssumption
  <2> QED
    BY <1>1, <1>2, <2>1, <2>2, <2>3 DEF SnapshotInv, TypeOK
<1>4. EpochInv'
  BY <1>1, FS_EmptySet, BoundAssumption DEF EpochInv
<1>5. FlightHasLeader'
  BY <1>1, CallersAssumption DEF FlightHasLeader
<1>6. FreshInv' /\ AnswersAreFresh'
  BY <1>1 DEF SnapshotInv, FreshInv, CacheIsCurrent, NoCache, AnswersAreFresh
<1> QED
  BY <1>3, <1>4, <1>5, <1>6 DEF SnapshotInv

\* The snapshot as the console uses it, across its restarts.
THEOREM ConsoleSnapshot == ConsoleSpec => []SnapshotInv
<1>1. ConsoleInit => SnapshotInv
  BY SnapshotInvInit DEF ConsoleInit
<1>2. SnapshotInv /\ [ConsoleNext]_consoleVars => SnapshotInv'
  BY ConsoleSteps, SnapshotInvStep, SnapshotRestart
<1> QED
  BY <1>1, <1>2, PTL DEF ConsoleSpec

\* The cache, the flight and every caller's observation keep their shape.
THEOREM TypeCorrect == ConsoleSpec => []TypeOK
<1>1. SnapshotInv => TypeOK
  BY DEF SnapshotInv
<1> QED
  BY <1>1, ConsoleSnapshot, PTL

\* Nobody waits for a result that nobody will set.
THEOREM FlightLed == ConsoleSpec => []FlightHasLeader
<1>1. SnapshotInv => FlightHasLeader
  BY DEF SnapshotInv
<1> QED
  BY <1>1, ConsoleSnapshot, PTL

\* get never returns what a mutation that has ended had already changed.
THEOREM FreshAnswers == ConsoleSpec => []AnswersAreFresh
<1>1. SnapshotInv => AnswersAreFresh
  BY DEF SnapshotInv
<1> QED
  BY <1>1, ConsoleSnapshot, PTL

\* A cache entry that would be served is what the containers are.
THEOREM CurrentCache == ConsoleSpec => []CacheIsCurrent
<1>1. SnapshotInv => CacheIsCurrent
  BY DEF SnapshotInv, FreshInv
<1> QED
  BY <1>1, ConsoleSnapshot, PTL

-----------------------------------------------------------------------------
(* The password.                                                             *)

\* Inside is the one change that holds the lock.  What it read is .env as it is while
\* the identity is the one it read, and what it writes comes after what was written.
ChangeInv(w) ==
    /\ change[w].at \in {"check", "replace"} =>
          /\ holder = w
          /\ change[w].id <= env.id /\ change[w].hash = wrote + 1
          /\ change[w].id = env.id => change[w].other = env.other
    /\ change[w].at = "replace" /\ ~raced => change[w].other = env.other

PasswordInv ==
    /\ env \in [hash : Nat, other : Nat, id : Nat] /\ wrote \in Nat /\ edits \in Nat
    /\ raced \in BOOLEAN
    /\ change \in [Changers -> [at : {"idle", "lock", "check", "replace", "publish"},
                                id : Nat, hash : Nat, other : Nat]]
    /\ \A w \in Changers : ChangeInv(w)
    /\ EnvKeepsEveryChange

LEMMA PasswordInit == ConsoleInit => PasswordInv
<1> SUFFICES ASSUME ConsoleInit PROVE PasswordInv
  OBVIOUS
<1>1. /\ env = [hash |-> 0, other |-> 0, id |-> 0] /\ edits = 0 /\ wrote = 0 /\ raced = FALSE
      /\ change = [w \in Changers |-> NoChange]
  BY DEF ConsoleInit
<1>2. NoChange \in [at : {"idle", "lock", "check", "replace", "publish"},
                    id : Nat, hash : Nat, other : Nat]
  BY DEF NoChange
<1>3. \A w \in Changers : change[w].at = "idle"
  BY <1>1 DEF NoChange
<1> QED
  BY <1>1, <1>2, <1>3 DEF PasswordInv, ChangeInv, EnvKeepsEveryChange

\* Only one change is inside, so what one writes is not what another has read.
LEMMA PasswordKept ==
    ASSUME PasswordInv, PasswordStep
    PROVE  PasswordInv'
<1> USE ConsoleAssumption DEF PasswordInv, ChangeInv, EnvKeepsEveryChange
<1> DEFINE C == [at : {"idle", "lock", "check", "replace", "publish"},
                 id : Nat, hash : Nat, other : Nat]
<1>0. NoChange \in C /\ NoChange.at = "idle"
  BY DEF NoChange
<1>1. ASSUME NEW w \in Changers, ReadEnv(w) PROVE PasswordInv'
  <2>1. [NoChange EXCEPT !.at = "lock", !.id = env.id] \in C
    BY DEF NoChange
  <2> QED
    BY <1>1, <2>1 DEF ReadEnv, Go, Changing
<1>2. ASSUME NEW w \in Changers, LockEnv(w) PROVE PasswordInv'
  <2>1. CASE /\ holder = None /\ env.id = change[w].id /\ holder' = w
             /\ Go(w, [at |-> "check", id |-> env.id, hash |-> wrote + 1, other |-> env.other])
    BY <1>2, <2>1 DEF LockEnv, Go, Changing
  <2>2. CASE GiveUp(w) /\ UNCHANGED holder
    BY <1>0, <1>2, <2>2 DEF LockEnv, GiveUp, Go, Changing
  <2> QED
    BY <1>2, <2>1, <2>2 DEF LockEnv
<1>3. ASSUME NEW w \in Changers, CheckIdentity(w) PROVE PasswordInv'
  <2>1. CASE env.id = change[w].id /\ Go(w, [change[w] EXCEPT !.at = "replace"]) /\ UNCHANGED holder
    <3>1. [change[w] EXCEPT !.at = "replace"] \in C
      OBVIOUS
    <3> QED
      BY <1>3, <2>1, <3>1 DEF CheckIdentity, Go, Changing
  <2>2. CASE GiveUp(w) /\ holder' = None
    BY <1>0, <1>3, <2>2 DEF CheckIdentity, GiveUp, Go, Changing
  <2> QED
    BY <1>3, <2>1, <2>2 DEF CheckIdentity
<1>4. ASSUME NEW w \in Changers, ReplaceEnv(w) PROVE PasswordInv'
  <2>1. [change[w] EXCEPT !.at = "publish"] \in C
    OBVIOUS
  <2>2. \A v \in Changers : change'[v].at \notin {"check", "replace"}
    BY <1>4, <2>1 DEF ReplaceEnv, Go, Changing
  <2>3. change' \in [Changers -> C]
    BY <1>4, <2>1 DEF ReplaceEnv, Go
  <2>4. /\ env' \in [hash : Nat, other : Nat, id : Nat] /\ wrote' \in Nat
        /\ env'.hash = wrote' /\ (~raced => env'.other = edits)
    BY <1>4 DEF ReplaceEnv, Changing
  <2> QED
    BY <1>4, <2>2, <2>3, <2>4 DEF ReplaceEnv
<1>5. ASSUME NEW w \in Changers, SetEnviron(w) PROVE PasswordInv'
  BY <1>0, <1>5 DEF SetEnviron, GiveUp, Go, Changing
<1>6. ASSUME NEW w \in Changers, ChangeFails(w) PROVE PasswordInv'
  BY <1>0, <1>6 DEF ChangeFails, GiveUp, Go, Changing
<1>7. ASSUME EditEnv PROVE PasswordInv'
  <2>0. /\ env' = [hash |-> env.hash, other |-> env.other + 1, id |-> env.id + 1] /\ edits' = edits + 1
    BY <1>7 DEF EditEnv
  <2>1. /\ edits' = edits + 1 /\ env' \in [hash : Nat, other : Nat, id : Nat]
        /\ env'.id = env.id + 1 /\ env'.other = env.other + 1 /\ env'.hash = env.hash
    BY <2>0
  <2>2. /\ UNCHANGED <<holder, change, wrote>>
        /\ raced' = (raced \/ \E w \in Changers : change[w].at = "replace")
    BY <1>7 DEF EditEnv, Changing
  <2>3. raced' \in BOOLEAN
    BY <2>2
  <2>4. \A w \in Changers : change[w].at = "replace" => raced'
    BY <2>2
  <2>5. ~raced' => ~raced
    BY <2>2
  <2>6. \A w \in Changers : change[w] \in C
    OBVIOUS
  <2>7. ASSUME NEW w \in Changers PROVE ChangeInv(w)'
    BY <2>1, <2>2, <2>4, <2>6
  <2> QED
    BY <2>1, <2>2, <2>3, <2>5, <2>7
<1> QED
  BY <1>1, <1>2, <1>3, <1>4, <1>5, <1>6, <1>7 DEF PasswordStep

\* The other steps of the console leave .env and its changes alone.
LEMMA PasswordElse ==
    ASSUME [ConsoleNext]_consoleVars
    PROVE  PasswordStep \/ Restart \/ UNCHANGED password
<1>1. ASSUME NEW t \in Callers, Serving(t) \/ Collecting(t) PROVE UNCHANGED password
  BY <1>1 DEF Serving, Collecting, AfterGet
<1>2. CASE FrameStep \/ SessionStep \/ Tick \/ BeginBroadcast \/ Elsewhere
  BY <1>2 DEF FrameStep, Recheck, Close, LogChunk, Broadcast, SessionStep, Login, Logout,
     SessionExpires, Tick, BeginBroadcast, Elsewhere
<1>3. ASSUME NEW s \in Sockets, HandlerStep(s) PROVE UNCHANGED password
  BY <1>3 DEF HandlerStep, Connect, Refuse, Authorize, AcceptStatus, AcceptLogs, OpenLogs,
     PeerSends, Receive, Disconnected, HandlerRaises, Close, Wake, DropClient
<1>4. CASE UNCHANGED consoleVars
  BY <1>4 DEF consoleVars
<1> QED
  BY <1>1, <1>2, <1>3, <1>4 DEF ConsoleNext

\* Whatever password changes run, fail or are refused beside the operator's edits, .env
\* has every edit and the password that was written last, until an edit falls between
\* the last identity check of a change and its replace.
THEOREM EnvIsKept == ConsoleSpec => []EnvKeepsEveryChange
<1>1. ConsoleInit => PasswordInv
  BY PasswordInit
<1>2. PasswordInv /\ [ConsoleNext]_consoleVars => PasswordInv'
  <2> SUFFICES ASSUME PasswordInv, [ConsoleNext]_consoleVars PROVE PasswordInv'
    OBVIOUS
  <2>1. CASE PasswordStep
    BY <2>1, PasswordKept
  <2>2. CASE UNCHANGED password
    BY <2>2 DEF PasswordInv, ChangeInv, EnvKeepsEveryChange, password
  <2>3. CASE Restart
    <3>1. change' = [w \in Changers |-> NoChange] /\ UNCHANGED <<env, edits, wrote, raced>>
      BY <2>3 DEF Restart
    <3> QED
      BY <3>1 DEF PasswordInv, ChangeInv, EnvKeepsEveryChange, NoChange
  <2> QED
    BY <2>1, <2>2, <2>3, PasswordElse
<1>3. PasswordInv => EnvKeepsEveryChange
  BY DEF PasswordInv
<1> QED
  BY <1>1, <1>2, <1>3, PTL DEF ConsoleSpec

-----------------------------------------------------------------------------
(* The places of the handshakes.                                             *)

Authorizing == {s \in Sockets : at[s] = "authorizing"}
PlacesInv ==
    /\ at \in [Sockets -> {"closed", "authorizing", "accepting", "collecting", "opening",
                            "open", "checking"}]
    /\ IsFiniteSet(Authorizing) /\ pending = Cardinality(Authorizing)

\* A handler leaves the handshake with its place, or moves where no place counts.
LEMMA PlacesStep ==
    ASSUME PlacesInv, NEW s \in Sockets,
           NEW to \in {"closed", "authorizing", "accepting", "collecting", "opening", "open",
                       "checking"},
           at' = [at EXCEPT ![s] = to],
           pending' = (pending + IF to = "authorizing" THEN 1 ELSE 0)
                      - (IF at[s] = "authorizing" THEN 1 ELSE 0)
    PROVE  PlacesInv'
<1>0. pending \in Nat
  BY FS_CardinalityType DEF PlacesInv
<1>1. CASE at[s] = "authorizing" <=> to = "authorizing"
  <2>1. Authorizing' = Authorizing
    BY <1>1 DEF PlacesInv, Authorizing
  <2>2. pending' = pending
    BY <1>0, <1>1
  <2> QED
    BY <2>1, <2>2 DEF PlacesInv
<1>2. CASE at[s] = "authorizing" /\ to # "authorizing"
  <2>1. Authorizing' = Authorizing \ {s} /\ s \in Authorizing
    BY <1>2 DEF PlacesInv, Authorizing
  <2>2. IsFiniteSet(Authorizing') /\ Cardinality(Authorizing') = Cardinality(Authorizing) - 1
    BY <2>1, FS_RemoveElement DEF PlacesInv
  <2>3. pending' = pending - 1
    BY <1>0, <1>2
  <2> QED
    BY <2>2, <2>3 DEF PlacesInv
<1>3. CASE at[s] # "authorizing" /\ to = "authorizing"
  <2>1. Authorizing' = Authorizing \cup {s} /\ s \notin Authorizing
    BY <1>3 DEF PlacesInv, Authorizing
  <2>2. IsFiniteSet(Authorizing') /\ Cardinality(Authorizing') = Cardinality(Authorizing) + 1
    BY <2>1, FS_AddElement DEF PlacesInv
  <2>3. pending' = pending + 1
    BY <1>0, <1>3
  <2> QED
    BY <2>2, <2>3 DEF PlacesInv
<1> QED
  BY <1>1, <1>2, <1>3

-----------------------------------------------------------------------------
(* The lease of an ended session.                                            *)

Looping(s) == at[s] \in {"open", "checking"}

\* A loop's next recheck is at most a lease away; once its session has ended, neither
\* the recheck nor the clock is past the end of the lease, unless a recheck is under
\* way, which will find it.
LoopInv(s) ==
    /\ IF Looping(s) THEN opened[s] \in Nat ELSE opened[s] = None
    /\ Looping(s) => deadline[s] <= now + Lease
    /\ at[s] = "open" /\ Ended(s) => deadline[s] <= LeaseEnd(s) /\ now <= LeaseEnd(s)

\* A status socket that asks the snapshot has not begun its loop.
LeaseInv ==
    /\ now \in Nat
    /\ ended \in [Sessions -> Nat \cup {None}]
    /\ \A k \in Sessions : ended[k] # None => ended[k] <= now
    /\ cookie \in Sessions \cup {None}
    /\ at \in [Sockets -> {"closed", "authorizing", "accepting", "collecting", "opening",
                            "open", "checking"}]
    /\ carried \in [Sockets -> Sessions \cup {None}]
    /\ deadline \in [Sockets -> Nat] /\ opened \in [Sockets -> Nat \cup {None}]
    /\ \A s \in Sockets : LoopInv(s)
    /\ \A s \in StatusSockets : pc[s] # "idle" => at[s] = "collecting"

LEMMA LeaseInit == ConsoleInit => LeaseInv
<1> SUFFICES ASSUME ConsoleInit PROVE LeaseInv
  OBVIOUS
<1>1. /\ now = 0 /\ cookie = None /\ ended = [k \in Sessions |-> None]
      /\ at = [s \in Sockets |-> "closed"] /\ carried = [s \in Sockets |-> None]
      /\ deadline = [s \in Sockets |-> 0] /\ opened = [s \in Sockets |-> None]
      /\ pc = [t \in Callers |-> "idle"]
  BY DEF ConsoleInit, Init
<1> QED
  BY <1>1, SocketsAssumption DEF LeaseInv, LoopInv, Looping

\* One handler moves, the clock and the sessions stand.
LEMMA OneMoves ==
    ASSUME LeaseInv, NEW s \in Sockets,
           UNCHANGED <<now, cookie, ended>>,
           at' \in [Sockets -> {"closed", "authorizing", "accepting", "collecting", "opening",
                                "open", "checking"}],
           carried' \in [Sockets -> Sessions \cup {None}],
           deadline' \in [Sockets -> Nat], opened' \in [Sockets -> Nat \cup {None}],
           \A r \in Sockets \ {s} : /\ at'[r] = at[r] /\ carried'[r] = carried[r]
                                    /\ deadline'[r] = deadline[r] /\ opened'[r] = opened[r],
           LoopInv(s)',
           \A r \in StatusSockets : pc'[r] # "idle" => at'[r] = "collecting"
    PROVE  LeaseInv'
<1>1. ASSUME NEW r \in Sockets PROVE LoopInv(r)'
  BY <1>1 DEF LeaseInv, LoopInv, Looping, Ended, LeaseEnd
<1> QED
  BY <1>1 DEF LeaseInv

\* A handler ends: nothing is left of its loop.
LEMMA Closing ==
    ASSUME LeaseInv, NEW s \in Sockets, at' = [at EXCEPT ![s] = "closed"], Gone({s}),
           UNCHANGED clocks, UNCHANGED pc, at[s] # "collecting"
    PROVE  LeaseInv'
<1>1. /\ carried' = [r \in Sockets |-> IF r = s THEN None ELSE carried[r]]
      /\ deadline' = [r \in Sockets |-> IF r = s THEN 0 ELSE deadline[r]]
      /\ opened' = [r \in Sockets |-> IF r = s THEN None ELSE opened[r]]
  BY DEF Gone
<1>2. LoopInv(s)'
  BY <1>1 DEF LeaseInv, LoopInv, Looping
<1>3. /\ carried' \in [Sockets -> Sessions \cup {None}]
      /\ deadline' \in [Sockets -> Nat] /\ opened' \in [Sockets -> Nat \cup {None}]
      /\ at' \in [Sockets -> {"closed", "authorizing", "accepting", "collecting", "opening",
                               "open", "checking"}]
  BY <1>1 DEF LeaseInv
<1>4. \A r \in StatusSockets : pc'[r] # "idle" => at'[r] = "collecting"
  BY DEF LeaseInv, Sockets
<1> QED
  BY <1>1, <1>2, <1>3, <1>4, OneMoves DEF LeaseInv, clocks

LEMMA Dues ==
    ASSUME now \in Nat, NEW due \in DueFrom(now)
    PROVE  due \in Nat /\ due <= now + Lease
BY TimeAssumption DEF DueFrom

\* Sessions end now, the clock and the handlers stand.
LEMMA SessionsEnd ==
    ASSUME LeaseInv, SessionStep PROVE LeaseInv'
<1>1. /\ UNCHANGED <<now, at, carried, deadline, opened, pc>>
      /\ cookie' \in Sessions \cup {None}
  BY DEF SessionStep, Login, Logout, SessionExpires, sockets, vars, caller, LeaseInv
<1>2. /\ ended' \in [Sessions -> Nat \cup {None}]
      /\ \A k \in Sessions : ended'[k] # None => ended'[k] <= now
      /\ \A k \in Sessions : ended'[k] = ended[k] \/ (ended[k] = None /\ ended'[k] = now)
  <2>1. CASE ended' = Revoked
    BY <2>1 DEF Revoked, LeaseInv
  <2>2. ASSUME NEW k \in Sessions, SessionExpires(k) PROVE <1>2!1 /\ <1>2!2 /\ <1>2!3
    BY <2>2 DEF SessionExpires, LeaseInv
  <2> QED
    BY <2>1, <2>2 DEF SessionStep, Login, Logout
<1>3. ASSUME NEW s \in Sockets PROVE LoopInv(s)'
  <2>1. CASE carried[s] = None
    BY <1>1, <2>1 DEF LeaseInv, LoopInv, Looping, Ended
  <2>2. CASE carried[s] \in Sessions /\ ended'[carried[s]] = ended[carried[s]]
    BY <1>1, <2>2 DEF LeaseInv, LoopInv, Looping, Ended, LeaseEnd
  <2>3. CASE carried[s] \in Sessions /\ ended'[carried[s]] = now
    BY <1>1, <2>3, TimeAssumption, ConsoleAssumption
       DEF LeaseInv, LoopInv, Looping, Ended, LeaseEnd, Later
  <2> QED
    BY <1>2, <2>1, <2>2, <2>3 DEF LeaseInv
<1> QED
  BY <1>1, <1>2, <1>3 DEF LeaseInv

\* The clock waits for the handlers whose recheck is due.
LEMMA ClockTicks ==
    ASSUME LeaseInv, Tick PROVE LeaseInv'
<1>1. /\ now' = now + 1 /\ UNCHANGED <<cookie, ended, at, carried, deadline, opened, pc>>
      /\ \A s \in Sockets : at[s] = "open" => now < deadline[s]
  BY DEF Tick, sockets, vars, caller
<1>2. ASSUME NEW s \in Sockets PROVE LoopInv(s)'
  <2>1. Ended(s) => LeaseEnd(s) = LeaseEnd(s)' /\ (Ended(s) <=> Ended(s)')
    BY <1>1 DEF Ended, LeaseEnd
  <2>2. at[s] = "open" /\ Ended(s) => LeaseEnd(s) \in Nat
    BY TimeAssumption DEF LeaseInv, LoopInv, Looping, Ended, LeaseEnd, Later
  <2> QED
    BY <1>1, <2>1, <2>2, TimeAssumption DEF LeaseInv, LoopInv, Looping, Ended, LeaseEnd
<1>3. \A k \in Sessions : ended'[k] # None => ended'[k] <= now'
  BY <1>1 DEF LeaseInv
<1> QED
  BY <1>1, <1>2, <1>3 DEF LeaseInv

LEMMA HandlerMoves ==
    ASSUME LeaseInv, NEW s \in Sockets, HandlerStep(s)
    PROVE  LeaseInv'
<1> USE DEF LeaseInv, LoopInv, Looping, clocks, Sockets
<1>1. CASE Refuse(s) \/ Disconnected(s) \/ HandlerRaises(s)
  <2>1. /\ at' = [at EXCEPT ![s] = "closed"] /\ Gone({s}) /\ UNCHANGED <<clocks, pc>>
        /\ at[s] # "collecting"
    BY <1>1 DEF Refuse, Disconnected, HandlerRaises, Close, vars, caller
  <2> QED
    BY <2>1, Closing
<1>2. CASE Connect(s) \/ Authorize(s) \/ AcceptLogs(s)
  <2>1. PICK to \in {"authorizing", "accepting", "opening"} :
           /\ at' = [at EXCEPT ![s] = to] /\ at[s] \in {"closed", "authorizing", "accepting"}
           /\ carried' \in {carried, [carried EXCEPT ![s] = cookie]}
           /\ UNCHANGED <<deadline, opened, now, cookie, used, ended, pc>>
    BY <1>2 DEF Connect, Authorize, AcceptLogs, vars, caller
  <2>2. LoopInv(s)' /\ \A r \in StatusSockets : pc'[r] # "idle" => at'[r] = "collecting"
    BY <2>1
  <2>3. \A r \in Sockets \ {s} : at'[r] = at[r] /\ carried'[r] = carried[r]
    BY <2>1
  <2>4. carried' \in [Sockets -> Sessions \cup {None}]
    BY <2>1
  <2> HIDE DEF LoopInv, Looping
  <2> QED
    BY <2>1, <2>2, <2>3, <2>4, OneMoves
<1>3. CASE s \in StatusSockets /\ AcceptStatus(s)
  <2>1. /\ at' = [at EXCEPT ![s] = "collecting"] /\ at[s] = "accepting"
        /\ pc' = [pc EXCEPT ![s] = "ask"]
        /\ UNCHANGED <<carried, deadline, opened, now, cookie, ended>>
    BY <1>3 DEF AcceptStatus, Call
  <2>2. LoopInv(s)' /\ \A r \in StatusSockets : pc'[r] # "idle" => at'[r] = "collecting"
    BY <2>1
  <2> HIDE DEF LoopInv, Looping
  <2> QED
    BY <2>1, <2>2, OneMoves
<1>4. CASE OpenLogs(s) \/ Wake(s)
  <2>1. PICK due \in DueFrom(now), to \in {"open", "checking"} :
           /\ at' = [at EXCEPT ![s] = to] /\ deadline' = [deadline EXCEPT ![s] = due]
           /\ \/ to = "open" /\ opened' = [opened EXCEPT ![s] = now] /\ at[s] = "opening"
              \/ to = "checking" /\ opened' = opened /\ at[s] = "open"
           /\ UNCHANGED <<carried, now, cookie, ended, pc>>
    BY <1>4 DEF OpenLogs, Open, Wake, vars, caller
  <2>2. due \in Nat /\ due <= now + Lease
    BY Dues
  <2>3. LoopInv(s)'
    <3>1. at'[s] = to /\ deadline'[s] = due
      BY <2>1
    <3>2. to = "open" => opened'[s] = now
      BY <2>1
    <3>3. to = "open" /\ Ended(s)' => LeaseEnd(s)' >= now + Lease /\ LeaseEnd(s)' >= now
      <4> SUFFICES ASSUME to = "open", Ended(s)'
                   PROVE  LeaseEnd(s)' >= now + Lease /\ LeaseEnd(s)' >= now
        OBVIOUS
      <4>1. carried'[s] \in Sessions /\ ended'[carried'[s]] \in Nat
        BY <2>1 DEF Ended
      <4> QED
        BY <3>2, <4>1, TimeAssumption DEF LeaseEnd, Later
    <3>4. to = "checking" => opened'[s] \in Nat
      BY <2>1
    <3>5. to = "open" /\ Ended(s)' => LeaseEnd(s)' \in Nat
      <4> SUFFICES ASSUME to = "open", Ended(s)' PROVE LeaseEnd(s)' \in Nat
        OBVIOUS
      <4>1. carried'[s] \in Sessions /\ ended'[carried'[s]] \in Nat
        BY <2>1 DEF Ended
      <4> QED
        BY <3>2, <4>1, TimeAssumption DEF LeaseEnd, Later
    <3> QED
      BY <2>1, <2>2, <3>1, <3>2, <3>3, <3>4, <3>5, TimeAssumption
  <2>4. \A r \in StatusSockets : pc'[r] # "idle" => at'[r] = "collecting"
    BY <2>1
  <2>5. deadline' \in [Sockets -> Nat] /\ opened' \in [Sockets -> Nat \cup {None}]
    BY <2>1, <2>2
  <2> HIDE DEF LoopInv, Looping
  <2> QED
    BY <2>1, <2>3, <2>4, <2>5, OneMoves
<1>5. CASE (\E message \in {"frame", "gone"} : PeerSends(s, message)) \/ Receive(s) \/ DropClient(s)
  <2>1. UNCHANGED <<now, cookie, ended, at, carried, deadline, opened, pc>>
    BY <1>5 DEF PeerSends, Receive, DropClient, vars, caller
  <2> QED
    BY <2>1 DEF Ended, LeaseEnd
<1> QED
  BY <1>1, <1>2, <1>3, <1>4, <1>5 DEF HandlerStep

\* A recheck goes on only with a session that has not ended.
LEMMA FramesGoOut ==
    ASSUME LeaseInv, FrameStep PROVE LeaseInv'
<1>1. ASSUME NEW s \in Sockets, Recheck(s) PROVE LeaseInv'
  <2>1. CASE Close(s) /\ at[s] = "checking"
    <3>1. /\ at' = [at EXCEPT ![s] = "closed"] /\ Gone({s}) /\ UNCHANGED <<clocks, pc>>
      BY <2>1 DEF Close, vars, caller
    <3> QED
      BY <2>1, <3>1, Closing
  <2>2. CASE /\ Live(carried[s]) /\ at[s] = "checking" /\ at' = [at EXCEPT ![s] = "open"]
             /\ UNCHANGED <<carried, deadline, opened, pc, clocks>>
    <3>1. ~Ended(s)'
      BY <2>2 DEF Live, Ended, clocks
    <3>2. LoopInv(s)'
      BY <2>2, <3>1 DEF LeaseInv, LoopInv, Looping, clocks
    <3>3. \A r \in StatusSockets : pc'[r] # "idle" => at'[r] = "collecting"
      BY <2>2 DEF LeaseInv, Sockets
    <3> QED
      BY <2>2, <3>2, <3>3, OneMoves DEF LeaseInv, clocks
  <2> QED
    BY <1>1, <2>1, <2>2 DEF Recheck, vars, caller
<1>2. ASSUME NEW s \in Sockets, LogChunk(s) \/ Broadcast(s) PROVE LeaseInv'
  <2>1. UNCHANGED <<now, cookie, ended, at, carried, deadline, opened, pc>>
    BY <1>2 DEF LogChunk, Broadcast, vars, caller, clocks, sockets
  <2> QED
    BY <2>1 DEF LeaseInv, LoopInv, Looping, Ended, LeaseEnd
<1> QED
  BY <1>1, <1>2 DEF FrameStep, Sockets

\* A caller that serves itself or collects asks no more than before.
LEMMA Asking ==
    ASSUME TypeOK, NEW t \in Callers, Serve(t) \/ Collect(t), NEW f \in Callers, pc'[f] # "idle"
    PROVE  pc[f] # "idle"
<1>0. pc \in [Callers -> {"idle", "ask", "leading", "joined", "observed"}]
  BY DEF TypeOK
<1>1. CASE Ask(t) \/ Settle(t) \/ TimeOut(t)
  BY <1>0, <1>1 DEF Ask, Settle, TimeOut, Leave
<1>2. CASE Publish(t) \/ CollectFails(t) \/ \E c \in Containers : Read(t, c)
  BY <1>0, <1>2 DEF Publish, Deliver, CollectFails, Read
<1> QED
  BY <1>1, <1>2 DEF Serve, Collect

\* What get's return does to a handler: its loop begins, or it ends.
LEMMA GetReturns ==
    ASSUME LeaseInv, TypeOK, NEW t \in Callers, Serving(t) \/ Collecting(t)
    PROVE  /\ LeaseInv'
           /\ \A s \in Sockets : at'[s] = at[s] \/ (at[s] = "collecting" /\ at'[s] \in {"open", "closed"})
           /\ \A s \in sent' : s \in Sockets /\ opened[s] = None
<1> USE DEF Sockets
<1> DEFINE failed == IF Answered THEN {} ELSE Returned \cap StatusSockets
           served == IF Answered THEN Returned \cap StatusSockets ELSE {}
<1>1. PICK due \in DueFrom(now) :
         /\ at' = [s \in Sockets |-> CASE s \in failed -> "closed"
                                       [] s \in served -> "open"
                                       [] OTHER -> at[s]]
         /\ deadline' = [s \in Sockets |-> CASE s \in failed -> 0
                                             [] s \in served -> due
                                             [] OTHER -> deadline[s]]
  BY DEF Serving, Collecting, AfterGet
<1>2. /\ opened' = [s \in Sockets |-> IF s \in served THEN now ELSE opened[s]]
      /\ carried' = [s \in Sockets |-> IF s \in failed THEN None ELSE carried[s]]
      /\ sent' = served /\ UNCHANGED <<now, cookie, ended>>
  BY DEF Serving, Collecting, AfterGet, clocks
<1>3. failed \cap served = {}
  OBVIOUS
<1>4. \A s \in failed \cup served : s \in StatusSockets /\ pc[s] # "idle" /\ pc'[s] = "idle"
  BY SocketsAssumption DEF Returned
<1>5. \A s \in failed \cup served : at[s] = "collecting" /\ opened[s] = None
  BY <1>4 DEF LeaseInv, LoopInv, Looping
<1>6. due \in Nat /\ due <= now + Lease
  BY Dues DEF LeaseInv
<1>7. /\ at' \in [Sockets -> {"closed", "authorizing", "accepting", "collecting", "opening",
                               "open", "checking"}]
      /\ carried' \in [Sockets -> Sessions \cup {None}]
      /\ deadline' \in [Sockets -> Nat] /\ opened' \in [Sockets -> Nat \cup {None}]
  <2>1. at' \in [Sockets -> {"closed", "authorizing", "accepting", "collecting", "opening",
                             "open", "checking"}]
    BY <1>1 DEF LeaseInv
  <2>2. deadline' \in [Sockets -> Nat]
    BY <1>1, <1>6 DEF LeaseInv
  <2>3. carried' \in [Sockets -> Sessions \cup {None}] /\ opened' \in [Sockets -> Nat \cup {None}]
    BY <1>2 DEF LeaseInv
  <2> QED
    BY <2>1, <2>2, <2>3
<1>8. ASSUME NEW s \in Sockets PROVE LoopInv(s)'
  <2>1. CASE s \in failed
    <3>1. at'[s] = "closed" /\ opened'[s] = None
      BY <1>1, <1>2, <1>3, <1>5, <2>1
    <3> QED
      BY <3>1 DEF LoopInv, Looping
  <2>2. CASE s \in served
    <3>1. at'[s] = "open" /\ opened'[s] = now /\ deadline'[s] = due
      BY <1>1, <1>2, <1>3, <2>2
    <3>2. ASSUME Ended(s)' PROVE LeaseEnd(s)' \in Nat /\ LeaseEnd(s)' >= now + Lease
      <4>1. carried'[s] \in Sessions /\ ended'[carried'[s]] \in Nat
        BY <1>2, <1>7, <3>2 DEF Ended, LeaseInv
      <4> QED
        BY <3>1, <4>1, TimeAssumption DEF LeaseEnd, Later, LeaseInv
    <3> QED
      BY <1>2, <1>6, <3>1, <3>2, TimeAssumption DEF LoopInv, Looping, LeaseInv
  <2>3. CASE s \notin failed /\ s \notin served
    <3>1. /\ at'[s] = at[s] /\ opened'[s] = opened[s] /\ deadline'[s] = deadline[s]
          /\ carried'[s] = carried[s]
      BY <1>1, <1>2, <2>3
    <3> QED
      BY <1>2, <3>1 DEF LeaseInv, LoopInv, Looping, Ended, LeaseEnd
  <2> QED
    BY <2>1, <2>2, <2>3
<1>9. ASSUME NEW s \in StatusSockets, pc'[s] # "idle" PROVE at'[s] = "collecting"
  <2>1. pc[s] # "idle"
    BY <1>9, Asking, SocketsAssumption DEF Serving, Collecting
  <2>2. at[s] = "collecting" /\ s \notin failed /\ s \notin served
    BY <1>4, <1>9, <2>1 DEF LeaseInv
  <2> QED
    BY <1>1, <2>2
<1>10. LeaseInv'
  BY <1>2, <1>7, <1>8, <1>9 DEF LeaseInv
<1>11. ASSUME NEW s \in Sockets
       PROVE  at'[s] = at[s] \/ (at[s] = "collecting" /\ at'[s] \in {"open", "closed"})
  BY <1>1, <1>5
<1> QED
  BY <1>2, <1>5, <1>10, <1>11

\* The steps that belong to no handler, and the restart.
LEMMA LeaseElse ==
    ASSUME LeaseInv, TypeOK,
           BeginBroadcast \/ Elsewhere \/ PasswordStep \/ Restart \/ UNCHANGED consoleVars
    PROVE  LeaseInv'
<1>1. CASE BeginBroadcast \/ Elsewhere
  <2>1. UNCHANGED <<now, cookie, ended, at, carried, deadline, opened>>
    BY <1>1 DEF BeginBroadcast, Elsewhere, clocks, sockets
  <2>2. ASSUME NEW s \in StatusSockets PROVE pc'[s] = pc[s]
    <3>1. CASE Call(Broadcaster)
      BY <3>1, ConsoleAssumption, SocketsAssumption DEF Call, TypeOK
    <3>2. ASSUME NEW t \in Callers \ (StatusSockets \cup {Broadcaster}), Call(t)
          PROVE  pc'[s] = pc[s]
      BY <3>2, SocketsAssumption DEF Call, TypeOK
    <3>3. ASSUME Expire \/ \E m \in Mutators : Mutate(m) PROVE pc'[s] = pc[s]
      BY <3>3 DEF Mutate, Begin, End, Change, Expire, caller
    <3> QED
      BY <1>1, <3>1, <3>2, <3>3 DEF BeginBroadcast, Elsewhere
  <2> QED
    BY <2>1, <2>2 DEF LeaseInv, LoopInv, Looping, Ended, LeaseEnd
<1>2. CASE PasswordStep \/ UNCHANGED consoleVars
  <2>1. UNCHANGED <<now, cookie, ended, at, carried, deadline, opened, pc>>
    BY <1>2 DEF PasswordStep, consoleVars, vars, caller, clocks, sockets
  <2> QED
    BY <2>1 DEF LeaseInv, LoopInv, Looping, Ended, LeaseEnd
<1>3. CASE Restart
  <2>1. /\ at' = [s \in Sockets |-> "closed"] /\ carried' = [s \in Sockets |-> None]
        /\ deadline' = [s \in Sockets |-> 0] /\ opened' = [s \in Sockets |-> None]
        /\ pc' = [t \in Callers |-> "idle"] /\ UNCHANGED <<now, cookie, ended>>
    BY <1>3 DEF Restart, Gone, clocks
  <2> QED
    BY <2>1, SocketsAssumption DEF LeaseInv, LoopInv, Looping
<1> QED
  BY <1>1, <1>2, <1>3

LEMMA LeaseStep ==
    ASSUME LeaseInv, TypeOK, [ConsoleNext]_consoleVars
    PROVE  LeaseInv'
BY SessionsEnd, ClockTicks, HandlerMoves, FramesGoOut, GetReturns, LeaseElse DEF ConsoleNext

LEMMA LeaseInvariant == ConsoleSpec => [](LeaseInv /\ TypeOK)
<1>1. LeaseInv /\ TypeOK /\ [ConsoleNext]_consoleVars => LeaseInv'
  BY LeaseStep
<1> QED
  BY <1>1, LeaseInit, TypeCorrect, PTL DEF ConsoleSpec

\* A log socket gets no chunk from the end of its session's lease on, a status socket
\* no frame after it except while its recheck is under way, whatever the peer sends and
\* however long a recheck takes.
THEOREM LeasesHold == ConsoleSpec => LeaseHolds
<1> DEFINE Served(s) == \/ now < LeaseEnd(s)
                        \/ s \in StatusSockets /\ (now = LeaseEnd(s) \/ at[s] = "checking")
           Frames == \A s \in sent' : Ended(s) /\ opened[s] # None => Served(s)
<1>1. ASSUME LeaseInv, TypeOK, [ConsoleNext]_consoleVars PROVE Frames \/ UNCHANGED consoleVars
  <2> USE <1>1
  <2>0. ASSUME NEW s \in Sockets, at[s] = "open", Ended(s), opened[s] # None
        PROVE  /\ deadline[s] <= LeaseEnd(s) /\ now <= LeaseEnd(s)
               /\ deadline[s] \in Nat /\ now \in Nat /\ LeaseEnd(s) \in Nat
    <3>1. carried[s] \in Sessions /\ ended[carried[s]] \in Nat /\ opened[s] \in Nat
      BY <2>0 DEF LeaseInv, Ended
    <3>2. LeaseEnd(s) \in Nat
      BY <3>1, TimeAssumption DEF LeaseEnd, Later
    <3> QED
      BY <2>0, <3>2 DEF LeaseInv, LoopInv
  <2>1. ASSUME NEW s \in Sockets, Recheck(s) PROVE Frames
    <3>1. sent' = {} \/ (sent' \subseteq {s} /\ Live(carried[s]))
      BY <2>1 DEF Recheck
    <3> QED
      BY <3>1 DEF Live, Ended
  <2>2. ASSUME NEW s \in LogSockets, LogChunk(s) PROVE Frames
    BY <2>0, <2>2 DEF LogChunk, Sockets
  <2>3. ASSUME NEW s \in StatusSockets, Broadcast(s) PROVE Frames
    <3>1. sent' = {s}
      BY <2>3 DEF Broadcast
    <3>2. opened[s] # None => at[s] = "open" \/ at[s] = "checking"
      BY DEF LeaseInv, LoopInv, Looping, Sockets
    <3> QED
      BY <2>0, <3>1, <3>2 DEF Sockets
  <2>4. ASSUME NEW t \in Callers, Serving(t) \/ Collecting(t) PROVE Frames
    BY <2>4, GetReturns
  <2>5. CASE sent' = {}
    BY <2>5
  <2> QED
    BY <2>1, <2>2, <2>3, <2>4, <2>5 DEF ConsoleNext, FrameStep
<1>2. LeaseInv /\ TypeOK /\ [ConsoleNext]_consoleVars => [Frames]_consoleVars
  BY <1>1
<1>3. ConsoleSpec => [][Frames]_consoleVars
  BY <1>2, LeaseInvariant, PTL DEF ConsoleSpec
<1> QED
  BY <1>3 DEF LeaseHolds

-----------------------------------------------------------------------------
\* Handshakes that are refused, raise or are admitted give their place back, so the
\* limit sheds only while that many are really being authorized.
THEOREM PlacesReturn == ConsoleSpec => []PlacesAreGivenBack
<1>1. ConsoleInit => PlacesInv
  <2> SUFFICES ASSUME ConsoleInit PROVE PlacesInv
    OBVIOUS
  <2>1. at = [s \in Sockets |-> "closed"] /\ pending = 0
    BY DEF ConsoleInit
  <2>2. Authorizing = {}
    BY <2>1 DEF Authorizing
  <2> QED
    BY <2>1, <2>2, FS_EmptySet DEF PlacesInv
<1>2. LeaseInv /\ TypeOK /\ PlacesInv /\ [ConsoleNext]_consoleVars => PlacesInv'
  <2> SUFFICES ASSUME LeaseInv, TypeOK, PlacesInv, [ConsoleNext]_consoleVars PROVE PlacesInv'
    OBVIOUS
  <2>0. pending \in Nat
    BY FS_CardinalityType DEF PlacesInv
  <2>1. CASE UNCHANGED <<at, pending>>
    BY <2>1 DEF PlacesInv, Authorizing
  <2>2. ASSUME NEW s \in Sockets, HandlerStep(s) \/ Recheck(s) PROVE PlacesInv'
    <3>1. CASE Connect(s)
      <4>1. at[s] = "closed" /\ at' = [at EXCEPT ![s] = "authorizing"] /\ pending' = pending + 1
        BY <3>1 DEF Connect
      <4>2. pending' = (pending + 1) - 0
        BY <2>0, <4>1
      <4> QED
        BY <4>1, <4>2, PlacesStep
    <3>2. CASE Refuse(s) \/ Authorize(s)
      BY <2>0, <3>2, PlacesStep DEF Refuse, Authorize
    <3>3. CASE AcceptStatus(s) \/ AcceptLogs(s) \/ OpenLogs(s) \/ Wake(s)
      BY <2>0, <3>3, PlacesStep DEF AcceptStatus, AcceptLogs, OpenLogs, Open, Wake
    <3>4. CASE Disconnected(s) \/ HandlerRaises(s)
      BY <2>0, <3>4, PlacesStep DEF Disconnected, HandlerRaises, Close
    <3>5. CASE Recheck(s)
      BY <2>0, <3>5, PlacesStep DEF Recheck, Close
    <3>6. CASE (\E message \in {"frame", "gone"} : PeerSends(s, message)) \/ Receive(s) \/ DropClient(s)
      BY <2>1, <3>6 DEF PeerSends, Receive, DropClient
    <3> QED
      BY <2>2, <3>1, <3>2, <3>3, <3>4, <3>5, <3>6 DEF HandlerStep
  <2>3. ASSUME NEW t \in Callers, Serving(t) \/ Collecting(t) PROVE PlacesInv'
    <3>1. \A s \in Sockets : at'[s] = at[s]
                             \/ (at[s] = "collecting" /\ at'[s] \in {"open", "closed"})
      BY <2>3, GetReturns
    <3>2. Authorizing' = Authorizing
      BY <3>1 DEF Authorizing
    <3>3. pending' = pending /\ LeaseInv'
      BY <2>3, GetReturns DEF Serving, Collecting, AfterGet
    <3> QED
      BY <3>2, <3>3 DEF PlacesInv, LeaseInv
  <2>4. ASSUME SessionStep \/ Tick \/ BeginBroadcast \/ Elsewhere \/ PasswordStep
               \/ UNCHANGED consoleVars
        PROVE  UNCHANGED <<at, pending>>
    BY <2>4 DEF SessionStep, Login, Logout, SessionExpires, Tick, BeginBroadcast, Elsewhere,
       PasswordStep, consoleVars, sockets
  <2>5. ASSUME NEW s \in Sockets, LogChunk(s) \/ Broadcast(s) PROVE UNCHANGED <<at, pending>>
    BY <2>5 DEF LogChunk, Broadcast, sockets
  <2>6. CASE Restart
    <3>1. at' = [s \in Sockets |-> "closed"] /\ pending' = 0
      BY <2>6 DEF Restart
    <3>2. Authorizing' = {}
      BY <3>1 DEF Authorizing
    <3> QED
      BY <3>1, <3>2, FS_EmptySet DEF PlacesInv
  <2> QED
    BY <2>1, <2>2, <2>3, <2>4, <2>5, <2>6 DEF ConsoleNext, FrameStep, Sockets
<1>3. PlacesInv => PlacesAreGivenBack
  BY DEF PlacesInv, PlacesAreGivenBack, Authorizing
<1> QED
  BY <1>1, <1>2, <1>3, LeaseInvariant, PTL DEF ConsoleSpec
=============================================================================
