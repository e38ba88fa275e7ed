------------------------ MODULE BackupRecoveryProofs ------------------------
(***************************************************************************)
(* Proofs about StandaloneBackup and BackupRecovery, for any number of     *)
(* jobs, ktdctl processes, instances, creates, kills and moves.  First the *)
(* role by itself (Spec): the shape of the state, that a running record    *)
(* has its thread, that one pg_dump loads a database, and that what is     *)
(* listed, and what a gc leaves, is whole.  Then the role beside syncs and *)
(* rehearsals (RecoverySpec): all of that still holds, a verified copy     *)
(* recovers, and a verified rehearsal is true.                             *)
(***************************************************************************)
EXTENDS BackupRecovery, FiniteSetTheorems, WellFoundedInduction, TLAPS

\* The actions, one disjunct each.
LEMMA NextCases ==
    ASSUME Next
    PROVE  \/ \E p \in Procs :
                 \/ LockToCreate(p) \/ StartDump(p) \/ DumpTimesOut(p) \/ PlaceDump(p)
                 \/ EmptyDump(p) \/ WriteSha(p) \/ WriteManifest(p) \/ CreateRaises(p)
                 \/ LockToCollect(p) \/ ListSurplus(p) \/ UnlinkDump(p) \/ UnlinkSha(p)
                 \/ UnlinkManifest(p) \/ CollectOrphans(p) \/ GcRaises(p) \/ GcEnds(p)
           \/ \E p \in Clis : \/ CliCreate(p) \/ KillCli(p)
                              \/ \E k \in Keeps : Gc(p, k)
           \/ \E d \in server : Connect(d) \/ DumpEnds(d)
           \/ \E j \in Jobs : Submit(j) \/ Finish(j) \/ Cancel(j)
           \/ Shutdown \/ Restart \/ KillBackend \/ MoveRole
BY DEF Next, Step, CreateStep, GcStep, Container

-----------------------------------------------------------------------------
(* The shape of the state.                                                   *)

\* What a process at each step knows.
ProcInv ==
    \A p \in Procs :
       /\ proc[p].pc # "idle" => proc[p].src \in Sources
       /\ proc[p].pc \in GcSteps => proc[p].keep \in Keeps
       /\ p \in Jobs => proc[p].pc \notin GcSteps
       /\ proc[p].pc \in {"dumping", "dumped", "placed", "hashed"} =>
             proc[p].stamp \in 1 .. clock

\* The shape of everything but the lock, which a rehearsal may hold as well.
Shape ==
    /\ local \in Files
    /\ madeFrom \in [Stamps -> Sources \cup {None}] /\ clock \in 0 .. MaxStamp
    /\ source \in Sources /\ served \in Sources
    /\ proc \in [Procs -> Processes]
    /\ server \subseteq [stamp : Stamps, src : Sources, seen : BOOLEAN] /\ blind \in BOOLEAN
    /\ jobs \in [Jobs -> {"none", "running", "succeeded", "failed"}] /\ closed \in BOOLEAN
    /\ kills \in 0 .. MaxKills /\ moves \in 0 .. MaxMoves

TypeInv == Shape /\ ProcInv

LEMMA IdleType == Idle \in Processes
BY BoundAssumption DEF Idle, Processes, Steps

\* A step of p that changes nothing of it but its pc.
LEMMA GotoType ==
    ASSUME TypeInv, NEW p \in Procs, NEW step \in Steps, Goto(p, step)
    PROVE  /\ proc' \in [Procs -> Processes]
           /\ proc'[p].pc = step /\ proc'[p].stamp = proc[p].stamp
           /\ proc'[p].src = proc[p].src /\ proc'[p].keep = proc[p].keep
           /\ proc'[p].plan = proc[p].plan
           /\ \A q \in Procs \ {p} : proc'[q] = proc[q]
BY DEF TypeInv, Shape, Goto, Processes

LEMMA EndedType ==
    ASSUME TypeInv, NEW p \in Procs, NEW outcome \in {"ok", "raised"}, Ended(p, outcome)
    PROVE  /\ proc' \in [Procs -> Processes]
           /\ p \in Clis => proc'[p] = Idle
           /\ p \in Jobs => /\ proc'[p].pc = outcome /\ proc'[p].stamp = proc[p].stamp
                            /\ proc'[p].src = proc[p].src
           /\ proc'[p].pc \in {"idle", "ok", "raised"}
           /\ \A q \in Procs \ {p} : proc'[q] = proc[q]
<1>1. CASE p \in Jobs
  BY <1>1, GotoType, ProcessesAssumption DEF Ended, Steps
<1>2. CASE p \notin Jobs
  <2>1. proc' = [proc EXCEPT ![p] = Idle] /\ Idle.pc = "idle"
    BY <1>2 DEF Ended, Idle
  <2> QED
    BY <1>2, <2>1, IdleType DEF TypeInv, Shape
<1> QED
  BY <1>1, <1>2

LEMMA BeginType ==
    ASSUME TypeInv, NEW p \in Procs, NEW step \in Steps, NEW k \in Keeps \cup {0},
           Begin(p, step, k)
    PROVE  /\ proc' \in [Procs -> Processes]
           /\ proc'[p].pc = step /\ proc'[p].keep = k /\ proc'[p].src \in Sources
           /\ proc'[p].stamp = 0 /\ proc'[p].plan = {}
           /\ \A q \in Procs \ {p} : proc'[q] = proc[q]
<1> DEFINE new == [pc |-> step, stamp |-> 0, keep |-> k, plan |-> {},
                   src |-> IF p \in Jobs THEN served ELSE source]
<1>1. new \in Processes /\ new.pc = step /\ new.keep = k /\ new.src \in Sources
      /\ new.stamp = 0 /\ new.plan = {}
  <2>1. 0 \in 0 .. MaxStamp
    BY BoundAssumption
  <2>2. (IF p \in Jobs THEN served ELSE source) \in Sources
    BY DEF TypeInv, Shape
  <2> QED
    BY <2>1, <2>2 DEF Processes
<1>2. proc' = [proc EXCEPT ![p] = new]
  BY DEF Begin
<1>3. /\ proc' \in [Procs -> Processes] /\ proc'[p] = new
      /\ \A q \in Procs \ {p} : proc'[q] = proc[q]
  BY <1>1, <1>2 DEF TypeInv, Shape
<1> HIDE DEF new
<1> QED
  BY <1>1, <1>3

\* A step that ends p and touches neither the stamps nor the records.
LEMMA EndedInv ==
    ASSUME TypeInv, NEW p \in Procs, NEW outcome \in {"ok", "raised"}, Ended(p, outcome),
           proc[p].pc # "idle", clock' = clock
    PROVE  ProcInv'
<1>1. \A q \in Procs \ {p} : proc'[q] = proc[q]
  BY EndedType
<1>2. CASE p \in Jobs
  BY <1>1, <1>2, EndedType DEF TypeInv, ProcInv, GcSteps
<1>3. CASE p \in Clis
  BY <1>1, <1>3, EndedType DEF TypeInv, ProcInv, Idle, GcSteps
<1> QED
  BY <1>2, <1>3 DEF Procs

LEMMA TypeStep == TypeInv /\ [Next]_vars => TypeInv'
<1> SUFFICES ASSUME TypeInv, [Next]_vars PROVE TypeInv'
  OBVIOUS
<1> USE BoundAssumption
<1>t. Shape /\ ProcInv
  BY DEF TypeInv
<1>1. ASSUME NEW p \in Procs, LockToCreate(p) \/ LockToCollect(p) PROVE TypeInv'
  <2>1. ASSUME NEW step \in {"locked", "listing"}, Goto(p, step), lock' = p,
               step = "listing" => proc[p].pc = "gc"
        PROVE  TypeInv'
    <3>1. UNCHANGED <<disk, source, container, runner, bounds>> /\ proc[p].pc # "idle"
      BY <1>1 DEF LockToCreate, LockToCollect
    <3>2. step \in Steps
      BY DEF Steps, CreateSteps, GcSteps
    <3>3. ProcInv'
      BY <1>t, <2>1, <3>1, <3>2, GotoType DEF ProcInv, GcSteps, disk
    <3> QED
      BY <1>t, <2>1, <3>1, <3>2, <3>3, GotoType
      DEF TypeInv, Shape, disk, container, runner, bounds
  <2>2. CASE Ended(p, "raised") /\ UNCHANGED lock
    BY <1>t, <1>1, <2>2, EndedType, EndedInv
    DEF LockToCreate, LockToCollect, TypeInv, Shape, disk, container, runner, bounds
  <2> QED
    BY <1>1, <2>1, <2>2 DEF LockToCreate, LockToCollect, TakeLock
<1>2. ASSUME NEW p \in Procs, StartDump(p) PROVE TypeInv'
  <2>1. /\ proc' \in [Procs -> Processes]
        /\ proc'[p].pc = "dumping" /\ proc'[p].stamp = clock + 1
        /\ proc'[p].src = proc[p].src
        /\ \A q \in Procs \ {p} : proc'[q] = proc[q]
    <3>1. clock + 1 \in 0 .. MaxStamp /\ "dumping" \in Steps
      BY <1>t, <1>2 DEF StartDump, Shape, Steps, CreateSteps
    <3> QED
      BY <1>t, <1>2, <3>1 DEF StartDump, Shape, Processes
  <2>2. proc[p].src \in Sources /\ clock + 1 \in Stamps
    BY <1>t, <1>2 DEF StartDump, Shape, ProcInv, Stamps
  <2>3. ProcInv'
    BY <1>t, <1>2, <2>1, <2>2 DEF StartDump, Shape, ProcInv, GcSteps
  <2>4. server' \subseteq [stamp : Stamps, src : Sources, seen : BOOLEAN]
    <3>1. [stamp |-> clock + 1, src |-> proc[p].src, seen |-> FALSE]
             \in [stamp : Stamps, src : Sources, seen : BOOLEAN]
      BY <2>2
    <3> QED
      BY <1>t, <1>2, <3>1 DEF StartDump, Shape
  <2>5. clock' \in 0 .. MaxStamp
    BY <1>2, <2>2 DEF StartDump, Stamps
  <2> QED
    BY <1>t, <1>2, <2>1, <2>3, <2>4, <2>5 DEF StartDump, TypeInv, Shape, runner, bounds
<1>3. ASSUME NEW p \in Procs,
             DumpTimesOut(p) \/ CreateRaises(p) \/ GcRaises(p) \/ GcEnds(p) PROVE TypeInv'
  <2>1. PICK outcome \in {"ok", "raised"} : Ended(p, outcome)
    BY <1>3 DEF DumpTimesOut, CreateRaises, GcRaises, GcEnds, Unlock
  <2>2. proc[p].pc # "idle" /\ lock' \in {lock, None}
    BY <1>3 DEF DumpTimesOut, CreateRaises, GcRaises, GcEnds, Unlock, GcSteps
  <2>3. UNCHANGED <<disk, source, container, runner, bounds>>
    BY <1>3 DEF DumpTimesOut, CreateRaises, GcRaises, GcEnds
  <2> QED
    BY <1>t, <2>1, <2>2, <2>3, EndedType, EndedInv
    DEF TypeInv, Shape, disk, container, runner, bounds
<1>4. ASSUME NEW p \in Procs, PlaceDump(p) \/ WriteSha(p) PROVE TypeInv'
  <2>1. PICK step \in {"placed", "hashed"} : Goto(p, step)
    BY <1>4 DEF PlaceDump, WriteSha
  <2>2. local' \in Files
    BY <1>t, <1>4 DEF PlaceDump, WriteSha, Shape, ProcInv, Files, Stamps
  <2>3. UNCHANGED <<madeFrom, clock, source, lock, container, runner, bounds>>
    BY <1>4 DEF PlaceDump, WriteSha
  <2>4. ProcInv'
    <3>1. step \in Steps /\ proc[p].pc \in {"dumped", "placed"}
      BY <1>4 DEF PlaceDump, WriteSha, Steps, CreateSteps
    <3> QED
      BY <1>t, <2>1, <2>3, <3>1, GotoType DEF ProcInv, GcSteps
  <2> QED
    BY <1>t, <2>1, <2>2, <2>3, <2>4, GotoType
    DEF TypeInv, Shape, container, runner, bounds, CreateSteps, Steps
<1>5. ASSUME NEW p \in Procs, EmptyDump(p) \/ WriteManifest(p) PROVE TypeInv'
  <2>1. PICK outcome \in {"ok", "raised"} : Ended(p, outcome) /\ lock' = None
    BY <1>5 DEF EmptyDump, WriteManifest, Unlock
  <2>2. local' \in Files
    BY <1>t, <1>5 DEF EmptyDump, WriteManifest, Shape, ProcInv, Files, Stamps
  <2>3. madeFrom' \in [Stamps -> Sources \cup {None}]
    BY <1>t, <1>5 DEF EmptyDump, WriteManifest, Shape, ProcInv, Stamps
  <2>4. UNCHANGED <<clock, source, container, runner, bounds>> /\ proc[p].pc # "idle"
    BY <1>5 DEF EmptyDump, WriteManifest
  <2> QED
    BY <1>t, <2>1, <2>2, <2>3, <2>4, EndedType, EndedInv
    DEF TypeInv, Shape, container, runner, bounds
<1>6. ASSUME NEW p \in Procs, ListSurplus(p) \/ CollectOrphans(p) PROVE TypeInv'
  <2>1. PICK step \in {"unlink_dump", "orphan_dump"}, sets \in SUBSET Stamps :
           proc' = [proc EXCEPT ![p].pc = step, ![p].plan = sets]
    <3>1. Surplus(proc[p].src, proc[p].keep) \in SUBSET Stamps /\ Orphans \in SUBSET Stamps
      BY <1>t DEF Shape, Surplus, Orphans, From, Files
    <3> QED
      BY <1>6, <3>1 DEF ListSurplus, CollectOrphans
  <2>2. /\ proc' \in [Procs -> Processes]
        /\ proc'[p].pc = step /\ proc'[p].stamp = proc[p].stamp
        /\ proc'[p].src = proc[p].src /\ proc'[p].keep = proc[p].keep
        /\ \A q \in Procs \ {p} : proc'[q] = proc[q]
    <3>1. step \in Steps
      BY DEF Steps, GcSteps
    <3> QED
      BY <1>t, <2>1, <3>1 DEF Shape, Processes
  <2>3. proc[p].pc \in {"listing", "unlink_dump"}
        /\ UNCHANGED <<disk, source, lock, container, runner, bounds>>
    BY <1>6 DEF ListSurplus, CollectOrphans
  <2>4. ProcInv'
    BY <1>t, <2>2, <2>3 DEF ProcInv, GcSteps, disk
  <2> QED
    BY <1>t, <2>2, <2>3, <2>4 DEF TypeInv, Shape, disk, container, runner, bounds
<1>7. ASSUME NEW p \in Procs, UnlinkDump(p) \/ UnlinkSha(p) PROVE TypeInv'
  <2>1. PICK step \in {"unlink_sha", "orphan_sha", "unlink_manifest", "orphan_manifest"} :
           Goto(p, step)
    BY <1>7 DEF UnlinkDump, UnlinkSha
  <2>2. local' \in Files
    BY <1>t, <1>7 DEF UnlinkDump, UnlinkSha, Shape, Files
  <2>3. UNCHANGED <<madeFrom, clock, source, lock, container, runner, bounds>>
        /\ proc[p].pc \in GcSteps
    BY <1>7 DEF UnlinkDump, UnlinkSha, GcSteps
  <2>4. ProcInv'
    <3>1. step \in Steps /\ step \in GcSteps
      BY DEF Steps, GcSteps
    <3> QED
      BY <1>t, <2>1, <2>3, <3>1, GotoType DEF ProcInv, GcSteps
  <2> QED
    BY <1>t, <2>1, <2>2, <2>3, <2>4, GotoType
    DEF TypeInv, Shape, container, runner, bounds, GcSteps, Steps
<1>8. ASSUME NEW p \in Procs, UnlinkManifest(p) PROVE TypeInv'
  <2>1. PICK t \in First(proc[p].plan) :
          /\ local' = [local EXCEPT !.manifests = @ \ {t}]
          /\ madeFrom' = [madeFrom EXCEPT ![t] = None]
          /\ proc' = [proc EXCEPT ![p].plan = @ \ {t},
                ![p].pc = IF @ = "unlink_manifest" THEN "unlink_dump" ELSE "orphan_dump"]
    BY <1>8 DEF UnlinkManifest
  <2>2. proc[p].pc \in {"unlink_manifest", "orphan_manifest"}
        /\ UNCHANGED <<clock, source, lock, container, runner, bounds>>
    BY <1>8 DEF UnlinkManifest
  <2>3. /\ proc' \in [Procs -> Processes]
        /\ proc'[p].pc \in {"unlink_dump", "orphan_dump"}
        /\ proc'[p].src = proc[p].src /\ proc'[p].keep = proc[p].keep
        /\ \A q \in Procs \ {p} : proc'[q] = proc[q]
    BY <1>t, <2>1, <2>2 DEF Shape, Processes, Steps, GcSteps
  <2>4. local' \in Files /\ madeFrom' \in [Stamps -> Sources \cup {None}]
    BY <1>t, <2>1 DEF Shape, Files, First, Processes
  <2>5. ProcInv'
    BY <1>t, <2>2, <2>3 DEF ProcInv, GcSteps
  <2> QED
    BY <1>t, <2>2, <2>3, <2>4, <2>5 DEF TypeInv, Shape, container, runner, bounds
<1>9. ASSUME NEW p \in Clis, KillCli(p) PROVE TypeInv'
  <2>1. Killed({p}) /\ UNCHANGED runner
    BY <1>9 DEF KillCli
  <2>2. proc' \in [Procs -> Processes] /\ \A q \in Procs : proc'[q] \in {Idle, proc[q]}
    BY <1>t, <2>1, IdleType DEF Killed, Shape
  <2>3. ProcInv'
    BY <1>t, <2>1, <2>2 DEF Killed, ProcInv, Idle, GcSteps, disk
  <2> QED
    BY <1>t, <2>1, <2>2, <2>3 DEF Killed, TypeInv, Shape, disk, runner
<1>10. ASSUME KillBackend PROVE TypeInv'
  <2>1. Killed(Jobs) /\ jobs' = [j \in Jobs |-> "none"] /\ closed' = FALSE /\ served' = source
    BY <1>10 DEF KillBackend
  <2>2. proc' \in [Procs -> Processes] /\ \A q \in Procs : proc'[q] \in {Idle, proc[q]}
    BY <1>t, <2>1, IdleType DEF Killed, Shape
  <2>3. ProcInv'
    BY <1>t, <2>1, <2>2 DEF Killed, ProcInv, Idle, GcSteps, disk
  <2> QED
    <3>1. jobs' \in [Jobs -> {"none", "running", "succeeded", "failed"}]
      BY <2>1
    <3>2. blind' \in BOOLEAN /\ kills' \in 0 .. MaxKills
      BY <1>t, <2>1 DEF Killed, Shape
    <3> QED
      BY <1>t, <2>1, <2>2, <2>3, <3>1, <3>2 DEF Killed, TypeInv, Shape, disk
<1>11. ASSUME NEW p \in Clis, NEW k \in Keeps, Gc(p, k) PROVE TypeInv'
  <2>1. Begin(p, "gc", k) /\ UNCHANGED <<disk, source, lock, container, runner, bounds>>
    BY <1>11 DEF Gc
  <2>2. p \in Procs /\ p \notin Jobs /\ "gc" \in Steps
    BY ProcessesAssumption DEF Procs, Steps, GcSteps
  <2>3. ProcInv'
    BY <1>t, <2>1, <2>2, BeginType DEF ProcInv, disk, GcSteps
  <2> QED
    BY <1>t, <2>1, <2>2, <2>3, BeginType
    DEF TypeInv, Shape, disk, container, runner, bounds
<1>12. ASSUME NEW d \in server, Connect(d) PROVE TypeInv'
  BY <1>t, <1>12 DEF Connect, TypeInv, Shape, ProcInv, disk, runner, bounds
<1>13. ASSUME NEW d \in server, DumpEnds(d) PROVE TypeInv'
  <2>1. UNCHANGED <<disk, source, blind, runner, bounds>> /\ server' = server \ {d}
    BY <1>13 DEF DumpEnds
  <2>2. CASE UNCHANGED <<proc, lock>>
    BY <1>t, <2>1, <2>2 DEF TypeInv, Shape, ProcInv, disk, runner, bounds
  <2>3. CASE \E p \in Client(d) : Goto(p, "dumped") /\ UNCHANGED lock
    <3>1. PICK p \in Client(d) : Goto(p, "dumped") /\ UNCHANGED lock
      BY <2>3
    <3>2. p \in Procs /\ proc[p].pc = "dumping"
      BY DEF Client
    <3>3. ProcInv'
      BY <1>t, <2>1, <3>1, <3>2, GotoType DEF ProcInv, disk, GcSteps, CreateSteps, Steps
    <3> QED
      BY <1>t, <2>1, <3>1, <3>2, <3>3, GotoType
      DEF TypeInv, Shape, disk, runner, bounds, CreateSteps, Steps
  <2>4. CASE \E p \in Client(d) : Unlock(p, "raised")
    <3>1. PICK p \in Client(d) : Ended(p, "raised") /\ lock' = None
      BY <2>4 DEF Unlock
    <3>2. p \in Procs /\ proc[p].pc = "dumping"
      BY DEF Client
    <3> QED
      BY <1>t, <2>1, <3>1, <3>2, EndedType, EndedInv DEF TypeInv, Shape, disk, runner, bounds
  <2> QED
    BY <1>13, <2>2, <2>3, <2>4 DEF DumpEnds
<1>14. ASSUME NEW j \in Jobs, Submit(j) PROVE TypeInv'
  <2>1. /\ Begin(j, "begin", 0) /\ jobs' = [jobs EXCEPT ![j] = "running"]
        /\ UNCHANGED <<disk, source, lock, container, closed, served, bounds>>
    BY <1>14 DEF Submit
  <2>2. j \in Procs /\ "begin" \in Steps
    BY DEF Procs, Steps, CreateSteps
  <2>3. ProcInv'
    BY <1>t, <2>1, <2>2, BeginType DEF ProcInv, disk, GcSteps
  <2> QED
    BY <1>t, <2>1, <2>2, <2>3, BeginType DEF TypeInv, Shape, disk, container, bounds
<1>15. ASSUME NEW j \in Jobs, Finish(j) PROVE TypeInv'
  <2>1. proc' \in [Procs -> Processes] /\ \A q \in Procs : proc'[q] \in {Idle, proc[q]}
    BY <1>t, <1>15, IdleType DEF Finish, Shape, Procs
  <2>2. ProcInv'
    BY <1>t, <1>15, <2>1 DEF Finish, ProcInv, Idle, GcSteps, disk
  <2>3. jobs' \in [Jobs -> {"none", "running", "succeeded", "failed"}]
    BY <1>t, <1>15 DEF Finish, Shape
  <2> QED
    BY <1>t, <1>15, <2>1, <2>2, <2>3 DEF Finish, TypeInv, Shape, disk, container, bounds
<1>16. CASE (\E j \in Jobs : Cancel(j)) \/ Shutdown \/ Restart \/ MoveRole
  <2>1. UNCHANGED <<disk, lock, proc, container, kills>>
    BY <1>16 DEF Cancel, Shutdown, Restart, MoveRole, bounds
  <2>2. /\ jobs' \in [Jobs -> {"none", "running", "succeeded", "failed"}]
        /\ closed' \in BOOLEAN /\ source' \in Sources /\ served' \in Sources
    BY <1>t, <1>16 DEF Cancel, Shutdown, Restart, MoveRole, Shape, runner, bounds
  <2>3. moves' \in 0 .. MaxMoves
    BY <1>t, <1>16 DEF Cancel, Shutdown, Restart, MoveRole, Shape, bounds
  <2> QED
    BY <1>t, <2>1, <2>2, <2>3 DEF TypeInv, Shape, ProcInv, disk, container
<1>17. CASE UNCHANGED vars
  BY <1>t, <1>17 DEF vars, TypeInv, Shape, ProcInv, disk, container, runner, bounds
<1>18. ASSUME NEW p \in Clis, CliCreate(p) PROVE TypeInv'
  <2>1. Begin(p, "begin", 0) /\ UNCHANGED <<disk, source, lock, container, runner, bounds>>
    BY <1>18 DEF CliCreate
  <2>2. p \in Procs /\ "begin" \in Steps
    BY DEF Procs, Steps, CreateSteps
  <2>3. ProcInv'
    BY <1>t, <2>1, <2>2, BeginType DEF ProcInv, disk, GcSteps
  <2> QED
    BY <1>t, <2>1, <2>2, <2>3, BeginType
    DEF TypeInv, Shape, disk, container, runner, bounds
<1> QED
  BY NextCases, <1>1, <1>2, <1>3, <1>4, <1>5, <1>6, <1>7, <1>8, <1>9, <1>10, <1>11, <1>12,
     <1>13, <1>14, <1>15, <1>16, <1>17, <1>18 DEF Procs

LEMMA TypeInit == Init => TypeInv
<1> SUFFICES ASSUME Init PROVE TypeInv
  OBVIOUS
<1>1. proc \in [Procs -> Processes] /\ \A p \in Procs : proc[p] = Idle
  BY IdleType DEF Init
<1>2. ProcInv
  BY <1>1 DEF ProcInv, Idle, GcSteps
<1>3. local \in Files /\ madeFrom \in [Stamps -> Sources \cup {None}]
  BY DEF Init, Files, NoFiles
<1>4. jobs \in [Jobs -> {"none", "running", "succeeded", "failed"}]
  BY DEF Init
<1>5. clock \in 0 .. MaxStamp /\ kills \in 0 .. MaxKills /\ moves \in 0 .. MaxMoves
  BY BoundAssumption DEF Init
<1> QED
  BY <1>1, <1>2, <1>3, <1>4, <1>5 DEF Init, TypeInv, Shape

\* Files, processes and records keep their shape.
THEOREM TypeCorrect == Spec => []TypeOK
<1> DEFINE Holder == lock \in Procs \cup {None}
<1>1. Init => Holder
  BY DEF Init
<1>2. TypeInv /\ Holder /\ [Next]_vars => Holder'
  <2> SUFFICES ASSUME Holder, [Next]_vars PROVE Holder'
    OBVIOUS
  <2>1. ASSUME NEW p \in Procs, Step(p) PROVE Holder'
    BY <2>1
    DEF Step, CreateStep, GcStep, LockToCreate, StartDump, DumpTimesOut, PlaceDump, EmptyDump,
        WriteSha, WriteManifest, CreateRaises, LockToCollect, ListSurplus, UnlinkDump,
        UnlinkSha, UnlinkManifest, CollectOrphans, GcRaises, GcEnds, TakeLock, Unlock
  <2>2. CASE \E p \in Clis : CliCreate(p) \/ KillCli(p) \/ \E k \in Keeps : Gc(p, k)
    BY <2>2 DEF CliCreate, KillCli, Killed, Gc
  <2>3. CASE Container
    BY <2>3 DEF Container, Connect, DumpEnds, Unlock
  <2>4. CASE \/ \E j \in Jobs : Submit(j) \/ Finish(j) \/ Cancel(j)
             \/ Shutdown \/ Restart \/ KillBackend \/ MoveRole \/ UNCHANGED vars
    BY <2>4 DEF Submit, Finish, Cancel, Shutdown, Restart, KillBackend, Killed, MoveRole, vars
  <2> QED
    BY <2>1, <2>2, <2>3, <2>4 DEF Next
<1>3. TypeInv /\ Holder => TypeOK
  BY DEF TypeInv, Shape, TypeOK
<1> QED
  BY <1>1, <1>2, <1>3, TypeInit, TypeStep, PTL DEF Spec

-----------------------------------------------------------------------------
(* The job records and the role lock.                                        *)

\* The steps of a process under the role lock.
Held == {"locked", "dumping", "dumped", "placed", "hashed"} \cup (GcSteps \ {"gc"})

\* Who is under the role lock holds it.
LockInv == \A p \in Procs : proc[p].pc \in Held => lock = p

\* Nobody else is under it.
LEMMA Alone ==
    ASSUME LockInv, NEW p \in Procs, NEW q \in Procs, p # q, proc[p].pc \in Held
    PROVE  proc[q].pc \notin Held
BY DEF LockInv

\* A step under the lock, of p, which keeps it.
HeldStep(p) ==
    \/ StartDump(p) \/ PlaceDump(p) \/ WriteSha(p) \/ ListSurplus(p) \/ UnlinkDump(p)
    \/ UnlinkSha(p) \/ UnlinkManifest(p) \/ CollectOrphans(p)

\* A step under the lock, of p, which gives it back.
LastStep(p) ==
    \/ DumpTimesOut(p) \/ EmptyDump(p) \/ WriteManifest(p) \/ GcRaises(p) \/ GcEnds(p)
    \/ CreateRaises(p) /\ proc[p].pc # "begin"

LEMMA HeldSteps ==
    ASSUME TypeInv, NEW p \in Procs, HeldStep(p)
    PROVE  /\ proc[p].pc \in Held /\ lock' = lock
           /\ \A q \in Procs \ {p} : proc'[q] = proc[q]
BY DEF HeldStep, StartDump, PlaceDump, WriteSha, ListSurplus, UnlinkDump, UnlinkSha,
       UnlinkManifest, CollectOrphans, Goto, Held, GcSteps, TypeInv, Shape

LEMMA LastSteps ==
    ASSUME TypeInv, NEW p \in Procs, LastStep(p)
    PROVE  /\ proc[p].pc \in Held /\ lock' = None
           /\ proc'[p].pc \in {"idle", "ok", "raised"}
           /\ \A q \in Procs \ {p} : proc'[q] = proc[q]
<1>1. PICK outcome \in {"ok", "raised"} : Unlock(p, outcome)
  BY DEF LastStep, DumpTimesOut, EmptyDump, WriteManifest, GcRaises, GcEnds, CreateRaises
<1>2. proc[p].pc \in Held
  BY DEF LastStep, DumpTimesOut, EmptyDump, WriteManifest, GcRaises, GcEnds, CreateRaises,
         Held, GcSteps
<1> QED
  BY <1>1, <1>2, EndedType DEF Unlock

\* The actions by what they do to the lock.
LEMMA StepKinds ==
    ASSUME Next
    PROVE  \/ \E p \in Procs : \/ LockToCreate(p) \/ LockToCollect(p) \/ HeldStep(p)
                               \/ LastStep(p)
                               \/ CreateRaises(p) /\ proc[p].pc = "begin"
           \/ \E p \in Clis : CliCreate(p) \/ KillCli(p) \/ \E k \in Keeps : Gc(p, k)
           \/ \E d \in server : Connect(d) \/ DumpEnds(d)
           \/ \E j \in Jobs : Submit(j) \/ Finish(j) \/ Cancel(j)
           \/ Shutdown \/ Restart \/ KillBackend \/ MoveRole
<1>1. ASSUME NEW p \in Procs, Step(p)
      PROVE  \/ LockToCreate(p) \/ LockToCollect(p) \/ HeldStep(p) \/ LastStep(p)
             \/ CreateRaises(p) /\ proc[p].pc = "begin"
  BY <1>1 DEF Step, CreateStep, GcStep, HeldStep, LastStep
<1>2. CASE \E p \in Procs : Step(p)
  <2>1. PICK p \in Procs : Step(p)
    BY <1>2
  <2> QED
    BY <1>1, <2>1, Zenon
<1>3. CASE \E p \in Clis : CliCreate(p) \/ KillCli(p) \/ \E k \in Keeps : Gc(p, k)
  BY <1>3
<1>4. CASE Container
  BY <1>4 DEF Container
<1> QED
  BY <1>2, <1>3, <1>4 DEF Next

\* A running record has a thread that will end it.
THEOREM RecordsEnd == Spec => []RunningHasThread
<1>1. Init => RunningHasThread
  BY DEF Init, RunningHasThread
<1>2. TypeInv /\ RunningHasThread /\ [Next]_vars => RunningHasThread'
  <2> SUFFICES ASSUME TypeInv, RunningHasThread, [Next]_vars PROVE RunningHasThread'
    OBVIOUS
  <2>t. Shape /\ Jobs \subseteq Procs
    BY DEF TypeInv, Procs
  <2>1. CASE UNCHANGED jobs /\ \A j \in Jobs : proc[j].pc # "idle" => proc'[j].pc # "idle"
    BY <2>1 DEF RunningHasThread
  <2>2. ASSUME NEW p \in Procs,
               \/ LockToCreate(p) \/ StartDump(p) \/ DumpTimesOut(p) \/ PlaceDump(p)
               \/ EmptyDump(p) \/ WriteSha(p) \/ WriteManifest(p) \/ CreateRaises(p)
        PROVE  RunningHasThread'
    <3>1. UNCHANGED jobs
      BY <2>2 DEF LockToCreate, StartDump, DumpTimesOut, PlaceDump, EmptyDump, WriteSha,
                  WriteManifest, CreateRaises, runner
    <3>2. \A j \in Jobs : proc[j].pc # "idle" => proc'[j].pc # "idle"
      BY <2>2, <2>t
      DEF LockToCreate, StartDump, DumpTimesOut, PlaceDump, EmptyDump, WriteSha,
          WriteManifest, CreateRaises, TakeLock, Unlock, Ended, Goto, Shape, Processes
    <3> QED
      BY <2>1, <3>1, <3>2
  <2>3. ASSUME NEW p \in Procs,
               \/ LockToCollect(p) \/ ListSurplus(p) \/ UnlinkDump(p) \/ UnlinkSha(p)
               \/ UnlinkManifest(p) \/ CollectOrphans(p) \/ GcRaises(p) \/ GcEnds(p)
        PROVE  RunningHasThread'
    <3>1. UNCHANGED jobs
      BY <2>3 DEF LockToCollect, ListSurplus, UnlinkDump, UnlinkSha, UnlinkManifest,
                  CollectOrphans, GcRaises, GcEnds, runner
    <3>2. p \notin Jobs
      BY <2>3 DEF LockToCollect, ListSurplus, UnlinkDump, UnlinkSha, UnlinkManifest,
                  CollectOrphans, GcRaises, GcEnds, GcSteps, TypeInv, ProcInv
    <3>3. CASE LockToCollect(p)
      BY <2>t, <3>1, <3>2, <3>3, <2>1
      DEF LockToCollect, TakeLock, Ended, Goto, Shape
    <3>4. CASE HeldStep(p) \/ LastStep(p)
      BY <2>t, <2>1, <3>1, <3>2, <3>4, HeldSteps, LastSteps
    <3> QED
      BY <2>3, <3>3, <3>4 DEF HeldStep, LastStep
  <2>4. ASSUME NEW p \in Clis, NEW k \in Keeps, Gc(p, k) PROVE RunningHasThread'
    BY <2>1, <2>4, <2>t, ProcessesAssumption DEF Gc, Begin, Shape, runner
  <2>5. ASSUME NEW p \in Clis, CliCreate(p) \/ KillCli(p) PROVE RunningHasThread'
    BY <2>1, <2>5, <2>t, ProcessesAssumption
    DEF CliCreate, KillCli, Killed, Begin, Shape, runner
  <2>6. ASSUME NEW d \in server, Connect(d) \/ DumpEnds(d) PROVE RunningHasThread'
    BY <2>1, <2>6, <2>t
    DEF Connect, DumpEnds, Client, Unlock, Ended, Goto, Shape, Processes, runner
  <2>7. ASSUME NEW j \in Jobs, Submit(j) PROVE RunningHasThread'
    BY <2>7, <2>t DEF Submit, Begin, RunningHasThread, Shape
  <2>8. ASSUME NEW j \in Jobs, Finish(j) PROVE RunningHasThread'
    <3>1. jobs'[j] # "running" /\ \A i \in Jobs \ {j} : jobs'[i] = jobs[i]
      BY <2>8, <2>t DEF Finish, Shape
    <3>2. \A i \in Jobs \ {j} : proc'[i] = proc[i]
      BY <2>8, <2>t DEF Finish, Shape
    <3> QED
      BY <3>1, <3>2 DEF RunningHasThread
  <2>9. ASSUME NEW j \in Jobs, Cancel(j) PROVE RunningHasThread'
    BY <2>9, <2>t DEF Cancel, RunningHasThread, Shape
  <2>10. CASE Restart \/ KillBackend
    BY <2>10 DEF Restart, KillBackend, RunningHasThread
  <2>11. CASE Shutdown \/ MoveRole \/ UNCHANGED vars
    BY <2>1, <2>11 DEF Shutdown, MoveRole, vars, runner
  <2> QED
    BY NextCases, <2>2, <2>3, <2>4, <2>5, <2>6, <2>7, <2>8, <2>9, <2>10, <2>11
<1> QED
  BY <1>1, <1>2, TypeInit, TypeStep, PTL DEF Spec

LEMMA LockStep == TypeInv /\ LockInv /\ [Next]_vars => LockInv'
<1> SUFFICES ASSUME TypeInv, LockInv, [Next]_vars PROVE LockInv'
  OBVIOUS
<1>t. Shape /\ None \notin Procs
  BY ProcessesAssumption DEF TypeInv, Procs
<1>1. ASSUME NEW p \in Procs, LockToCreate(p) \/ LockToCollect(p) PROVE LockInv'
  <2>1. CASE lock = None /\ lock' = p
    <3>1. \A q \in Procs \ {p} : proc'[q] = proc[q]
      BY <1>1, <2>1, <1>t DEF LockToCreate, LockToCollect, TakeLock, Goto, Shape
    <3> QED
      BY <1>t, <2>1, <3>1 DEF LockInv
  <2>2. CASE Ended(p, "raised") /\ UNCHANGED lock
    BY <2>2, EndedType DEF LockInv, Held, GcSteps
  <2> QED
    BY <1>1, <2>1, <2>2 DEF LockToCreate, LockToCollect, TakeLock
<1>2. ASSUME NEW p \in Procs, HeldStep(p) PROVE LockInv'
  BY <1>2, HeldSteps DEF LockInv
<1>3. ASSUME NEW p \in Procs, LastStep(p) PROVE LockInv'
  BY <1>3, LastSteps, Alone DEF LockInv, Held, GcSteps
<1>4. ASSUME NEW p \in Procs, CreateRaises(p), proc[p].pc = "begin" PROVE LockInv'
  <2>1. Ended(p, "raised") /\ UNCHANGED lock
    BY <1>4 DEF CreateRaises
  <2> QED
    BY <2>1, EndedType DEF LockInv, Held, GcSteps
<1>5. ASSUME NEW p \in Clis, CliCreate(p) \/ \E k \in Keeps : Gc(p, k) PROVE LockInv'
  BY <1>5, <1>t DEF CliCreate, Gc, Begin, LockInv, Held, GcSteps, Shape
<1>6. ASSUME NEW j \in Jobs, Submit(j) \/ Finish(j) PROVE LockInv'
  BY <1>6, <1>t DEF Submit, Finish, Begin, Idle, LockInv, Held, GcSteps, Shape
<1>7. CASE KillBackend \/ \E p \in Clis : KillCli(p)
  BY <1>7 DEF KillBackend, KillCli, Killed, LockInv, Idle, Held, GcSteps
<1>8. ASSUME NEW d \in server, DumpEnds(d) PROVE LockInv'
  <2>1. CASE UNCHANGED <<proc, lock>>
    BY <2>1 DEF LockInv
  <2>2. ASSUME NEW p \in Client(d), Goto(p, "dumped"), UNCHANGED lock PROVE LockInv'
    BY <1>t, <2>2 DEF Client, Goto, LockInv, Held, Shape
  <2>3. ASSUME NEW p \in Client(d), Unlock(p, "raised") PROVE LockInv'
    <3>1. p \in Procs /\ proc[p].pc \in Held
      BY DEF Client, Held
    <3> QED
      BY <2>3, <3>1, EndedType, Alone DEF Unlock, LockInv, Held, GcSteps
  <2> QED
    BY <1>8, <2>1, <2>2, <2>3 DEF DumpEnds
<1>9. CASE UNCHANGED <<proc, lock>>
  BY <1>9 DEF LockInv
<1>10. CASE \/ \E d \in server : Connect(d)
            \/ \E j \in Jobs : Cancel(j)
            \/ Shutdown \/ Restart \/ MoveRole \/ UNCHANGED vars
  BY <1>9, <1>10 DEF Connect, Cancel, Shutdown, Restart, MoveRole, vars
<1>11. ASSUME NEW p \in Procs,
              \/ LockToCreate(p) \/ LockToCollect(p) \/ HeldStep(p) \/ LastStep(p)
              \/ CreateRaises(p) /\ proc[p].pc = "begin"
       PROVE  LockInv'
  BY <1>1, <1>2, <1>3, <1>4, <1>11
<1>12. CASE Next
  BY <1>12, StepKinds, <1>5, <1>6, <1>7, <1>8, <1>10, <1>11
<1> QED
  BY <1>10, <1>12

-----------------------------------------------------------------------------
(* One pg_dump at a time.                                                    *)

\* A pg_dump is named by its second, and one that is not seen yet has its client.
ServerInv ==
    /\ \A d \in server : d.stamp <= clock
    /\ \A d, e \in server : d.stamp = e.stamp => d = e
    /\ ~blind => \A d \in server : ~d.seen =>
          \E p \in Procs : proc[p].pc = "dumping" /\ proc[p].stamp = d.stamp

DumpInv == ServerInv /\ OneDump

\* Steps that leave the container and its clients alone.
LEMMA ClientsKept ==
    ASSUME DumpInv, UNCHANGED <<server, blind, clock>>,
           \A q \in Procs : proc[q].pc = "dumping" =>
              proc'[q].pc = "dumping" /\ proc'[q].stamp = proc[q].stamp
    PROVE  DumpInv'
BY DEF DumpInv, ServerInv, OneDump

LEMMA DumpStep == TypeInv /\ LockInv /\ DumpInv /\ [Next]_vars => DumpInv'
<1> SUFFICES ASSUME TypeInv, LockInv, DumpInv, [Next]_vars PROVE DumpInv'
  OBVIOUS
<1>t. Shape /\ ProcInv /\ clock \in Nat /\ \A d \in server : d.stamp \in Nat
  BY DEF TypeInv, Shape, Stamps
<1>1. ASSUME NEW p \in Procs, StartDump(p) PROVE DumpInv'
  <2> DEFINE new == [stamp |-> clock + 1, src |-> proc[p].src, seen |-> FALSE]
  <2>1. clock' = clock + 1 /\ server' = server \cup {new} /\ blind' = blind
    BY <1>1 DEF StartDump
  <2>2. /\ proc'[p].pc = "dumping" /\ proc'[p].stamp = clock + 1
        /\ \A q \in Procs \ {p} : proc'[q] = proc[q]
    BY <1>1, <1>t DEF StartDump, Shape, Processes
  <2>3. \A q \in Procs : proc[q].pc # "dumping"
    BY <1>1, Alone DEF StartDump, Held
  <2>4. ~blind => \A d \in server : d.src # proc[p].src
    BY <1>1, <2>3 DEF StartDump, DumpRunning, DumpInv, ServerInv
  <2>5. new.stamp = clock + 1 /\ new.src = proc[p].src /\ new.seen = FALSE
    OBVIOUS
  <2> HIDE DEF new
  <2>6. \A d \in server' : d.stamp <= clock'
    BY <1>t, <2>1, <2>5 DEF DumpInv, ServerInv
  <2>7. \A d, e \in server' : d.stamp = e.stamp => d = e
    <3>1. \A d \in server : d.stamp # new.stamp
      BY <1>t, <2>5 DEF DumpInv, ServerInv
    <3> QED
      BY <2>1, <3>1 DEF DumpInv, ServerInv
  <2>8. ~blind => \A d \in server' : ~d.seen =>
           \E q \in Procs : proc'[q].pc = "dumping" /\ proc'[q].stamp = d.stamp
    <3> SUFFICES ASSUME ~blind, NEW d \in server', ~d.seen
                 PROVE  \E q \in Procs : proc'[q].pc = "dumping" /\ proc'[q].stamp = d.stamp
      OBVIOUS
    <3>1. CASE d = new
      BY <2>2, <2>5, <3>1
    <3>2. CASE d \in server
      BY <2>3, <3>2 DEF DumpInv, ServerInv
    <3> QED
      BY <2>1, <3>1, <3>2
  <2>9. OneDump'
    BY <2>1, <2>4, <2>5 DEF DumpInv, OneDump
  <2> QED
    BY <2>1, <2>6, <2>7, <2>8, <2>9 DEF DumpInv, ServerInv
<1>2. ASSUME NEW p \in Procs, HeldStep(p), ~StartDump(p) PROVE DumpInv'
  <2>1. proc[p].pc # "dumping" /\ UNCHANGED <<server, blind, clock>>
    BY <1>2 DEF HeldStep, PlaceDump, WriteSha, ListSurplus, UnlinkDump, UnlinkSha,
                UnlinkManifest, CollectOrphans, disk, container
  <2> QED
    BY <1>2, <2>1, HeldSteps, ClientsKept
<1>3. ASSUME NEW p \in Procs, LastStep(p), ~DumpTimesOut(p) PROVE DumpInv'
  <2>1. proc[p].pc # "dumping" /\ UNCHANGED <<server, blind, clock>>
    BY <1>3 DEF LastStep, EmptyDump, WriteManifest, GcRaises, GcEnds, CreateRaises, GcSteps,
                disk, container
  <2> QED
    BY <1>3, <2>1, LastSteps, ClientsKept
<1>4. ASSUME NEW p \in Procs, DumpTimesOut(p) PROVE DumpInv'
  <2>1. UNCHANGED <<server, blind, clock>> /\ proc[p].pc = "dumping"
    BY <1>4 DEF DumpTimesOut, disk, container
  <2>2. PICK d \in server : d.stamp = proc[p].stamp /\ d.seen
    BY <1>4 DEF DumpTimesOut
  <2>3. \A q \in Procs \ {p} : proc'[q] = proc[q]
    BY <1>4, LastSteps DEF LastStep
  <2>4. ~blind => \A e \in server : ~e.seen =>
           \E q \in Procs : proc'[q].pc = "dumping" /\ proc'[q].stamp = e.stamp
    BY <2>2, <2>3 DEF DumpInv, ServerInv
  <2> QED
    BY <2>1, <2>4 DEF DumpInv, ServerInv, OneDump
<1>5. ASSUME NEW p \in Procs, LockToCreate(p) \/ LockToCollect(p) PROVE DumpInv'
  <2>1. proc[p].pc # "dumping" /\ UNCHANGED <<server, blind, clock>>
    BY <1>5 DEF LockToCreate, LockToCollect, disk, container
  <2>2. \A q \in Procs \ {p} : proc'[q] = proc[q]
    BY <1>5, <1>t, EndedType DEF LockToCreate, LockToCollect, TakeLock, Goto, Shape
  <2> QED
    BY <2>1, <2>2, ClientsKept
<1>6. ASSUME NEW p \in Procs, CreateRaises(p), proc[p].pc = "begin" PROVE DumpInv'
  <2>1. UNCHANGED <<server, blind, clock>> /\ Ended(p, "raised")
    BY <1>6 DEF CreateRaises, disk, container
  <2> QED
    BY <1>6, <2>1, EndedType, ClientsKept
<1>7. ASSUME NEW p \in Clis, CliCreate(p) \/ \E k \in Keeps : Gc(p, k) PROVE DumpInv'
  <2>1. proc[p].pc # "dumping" /\ UNCHANGED <<server, blind, clock>>
        /\ \A q \in Procs \ {p} : proc'[q] = proc[q]
    BY <1>7, <1>t DEF CliCreate, Gc, Begin, Shape, disk, container
  <2> QED
    BY <2>1, ClientsKept
<1>8. ASSUME NEW j \in Jobs, Submit(j) \/ Finish(j) PROVE DumpInv'
  <2>1. proc[j].pc # "dumping" /\ UNCHANGED <<server, blind, clock>>
        /\ \A q \in Procs \ {j} : proc'[q] = proc[q]
    BY <1>8, <1>t DEF Submit, Finish, Begin, Shape, disk, container
  <2> QED
    BY <2>1, ClientsKept
<1>9. ASSUME NEW dead, Killed(dead) PROVE DumpInv'
  <2>1. UNCHANGED <<server, clock>>
    BY <1>9 DEF Killed, disk
  <2>2. \A q \in Procs : q \notin dead => proc'[q] = proc[q]
    BY <1>9 DEF Killed
  <2>3. ~blind' => ~blind /\ \A q \in dead, d \in server :
           ~(proc[q].pc = "dumping" /\ proc[q].stamp = d.stamp /\ ~d.seen)
    BY <1>9 DEF Killed
  <2>4. ~blind' => \A d \in server : ~d.seen =>
           \E q \in Procs : proc'[q].pc = "dumping" /\ proc'[q].stamp = d.stamp
    BY <2>2, <2>3 DEF DumpInv, ServerInv
  <2> QED
    BY <2>1, <2>3, <2>4 DEF DumpInv, ServerInv, OneDump
<1>10. ASSUME NEW d \in server, Connect(d) PROVE DumpInv'
  <2> DEFINE new == [d EXCEPT !.seen = TRUE]
  <2>1. /\ server' = (server \ {d}) \cup {new} /\ UNCHANGED <<proc, blind, clock>>
        /\ new.stamp = d.stamp /\ new.src = d.src /\ new.seen = TRUE
    BY <1>10, <1>t DEF Connect, Shape, disk
  <2> HIDE DEF new
  <2> QED
    BY <2>1 DEF DumpInv, ServerInv, OneDump
<1>11. ASSUME NEW d \in server, DumpEnds(d) PROVE DumpInv'
  <2>1. server' = server \ {d} /\ UNCHANGED <<blind, clock>> /\ d.seen
    BY <1>11 DEF DumpEnds, disk
  <2>2. \A q \in Procs : q \notin Client(d) => proc'[q] = proc[q]
    <3>1. CASE UNCHANGED <<proc, lock>>
      BY <3>1
    <3>2. ASSUME NEW p \in Client(d), Goto(p, "dumped")
          PROVE  \A q \in Procs \ {p} : proc'[q] = proc[q]
      BY <1>t, <3>2 DEF Client, Goto, Shape
    <3>3. ASSUME NEW p \in Client(d), Unlock(p, "raised")
          PROVE  \A q \in Procs \ {p} : proc'[q] = proc[q]
      BY <3>3, EndedType DEF Client, Unlock
    <3> QED
      BY <1>11, <3>1, <3>2, <3>3 DEF DumpEnds
  <2>3. ~blind => \A e \in server' : ~e.seen =>
           \E q \in Procs : proc'[q].pc = "dumping" /\ proc'[q].stamp = e.stamp
    <3> SUFFICES ASSUME ~blind, NEW e \in server', ~e.seen
                 PROVE  \E q \in Procs : proc'[q].pc = "dumping" /\ proc'[q].stamp = e.stamp
      OBVIOUS
    <3>1. PICK q \in Procs : proc[q].pc = "dumping" /\ proc[q].stamp = e.stamp
      BY <2>1 DEF DumpInv, ServerInv
    <3>2. q \notin Client(d)
      BY <2>1, <3>1 DEF Client, DumpInv, ServerInv
    <3> QED
      BY <2>2, <3>1, <3>2
  <2> QED
    BY <2>1, <2>3 DEF DumpInv, ServerInv, OneDump
<1>12. CASE (\E j \in Jobs : Cancel(j)) \/ Shutdown \/ Restart \/ MoveRole \/ UNCHANGED vars
  BY <1>12, ClientsKept DEF Cancel, Shutdown, Restart, MoveRole, vars, disk, container
<1>13. CASE KillBackend \/ \E p \in Clis : KillCli(p)
  BY <1>9, <1>13 DEF KillBackend, KillCli
<1>14. ASSUME NEW p \in Procs,
              \/ LockToCreate(p) \/ LockToCollect(p) \/ HeldStep(p) \/ LastStep(p)
              \/ CreateRaises(p) /\ proc[p].pc = "begin"
       PROVE  DumpInv'
  BY <1>1, <1>2, <1>3, <1>4, <1>5, <1>6, <1>14
<1>15. CASE Next
  BY <1>15, StepKinds, <1>7, <1>8, <1>10, <1>11, <1>12, <1>13, <1>14
<1> QED
  BY <1>12, <1>15

LEMMA LockInit == Init => LockInv /\ DumpInv
BY DEF Init, Idle, LockInv, Held, GcSteps, DumpInv, ServerInv, OneDump

\* One pg_dump loads a database, as long as no client died before its own had connected.
THEOREM OnePgDump == Spec => []OneDump
<1>1. DumpInv => OneDump
  BY DEF DumpInv
<1> QED
  BY <1>1, TypeInit, TypeStep, LockInit, LockStep, DumpStep, PTL DEF Spec

-----------------------------------------------------------------------------
(* What is listed, and what a gc takes.                                      *)

Making == {"dumping", "dumped", "placed", "hashed"}
Rotating == {"unlink_dump", "unlink_sha", "unlink_manifest"}
Sweeping == {"orphan_dump", "orphan_sha", "orphan_manifest"}

\* The backups of an instance that are broken are older than those that are whole.
DiskInv ==
    /\ \A t \in local.manifests : t <= clock
    /\ \A t, u \in local.manifests :
          t < u /\ madeFrom[t] = madeFrom[u] /\ t \in Whole(local) => u \in Whole(local)
    /\ NewestIsWhole

\* What a create has put on disk.
MakingInv(p) ==
    /\ proc[p].pc \in Making => proc[p].stamp = clock /\ proc[p].stamp \notin local.manifests
    /\ proc[p].pc \in {"placed", "hashed"} => proc[p].stamp \in local.dumps
    /\ proc[p].pc = "hashed" => proc[p].stamp \in local.shas

\* What a gc may still unlink: a lower end of its instance's backups, with --keep newer
\* ones for each, of which the first is broken once its dump is gone; later, nothing that
\* is listed.
CollectingInv(p) ==
    /\ proc[p].pc \in Rotating =>
          /\ proc[p].plan \subseteq From(proc[p].src)
          /\ \A t \in proc[p].plan :
                /\ \A u \in From(proc[p].src) : u < t => u \in proc[p].plan
                /\ Cardinality({u \in From(proc[p].src) : u > t}) >= proc[p].keep
    /\ proc[p].pc \in {"unlink_sha", "unlink_manifest"} =>
          First(proc[p].plan) \cap Whole(local) = {}
    /\ proc[p].pc \in Sweeping => proc[p].plan \cap local.manifests = {}

\* A job's result that the event loop has not taken yet.
ResultInv(p) ==
    p \in Jobs /\ proc[p].pc = "ok" =>
       \E u \in From(proc[p].src) : u >= proc[p].stamp /\ u \in Whole(local)

SetInv == DiskInv /\ \A p \in Procs : MakingInv(p) /\ CollectingInv(p) /\ ResultInv(p)

\* Whoever is not under the lock has made and collects nothing.
LEMMA Outside ==
    ASSUME NEW p \in Procs, proc[p].pc \notin Held
    PROVE  MakingInv(p) /\ CollectingInv(p)
BY DEF MakingInv, CollectingInv, Held, Making, Rotating, Sweeping, GcSteps

\* A step that leaves what is listed.
LEMMA Unlisted ==
    ASSUME TypeInv, SetInv, TypeInv',
           local'.manifests = local.manifests, Whole(local') = Whole(local),
           \A t \in local.manifests : madeFrom'[t] = madeFrom[t], clock' >= clock
    PROVE  /\ DiskInv'
           /\ \A q \in Procs : proc'[q] = proc[q] => CollectingInv(q)' /\ ResultInv(q)'
<1>t. clock \in Int /\ clock' \in Int /\ \A t \in local.manifests : t \in Int
  BY DEF TypeInv, Shape, Files, Stamps
<1>1. \A s : From(s)' = From(s)
  BY DEF From
<1>2. DiskInv'
  <2>1. \A t \in local'.manifests : t <= clock'
    BY <1>t DEF SetInv, DiskInv
  <2>2. NewestIsWhole'
    BY <1>1 DEF SetInv, DiskInv, NewestIsWhole
  <2> QED
    BY <2>1, <2>2 DEF SetInv, DiskInv
<1>3. ASSUME NEW q \in Procs, proc'[q] = proc[q] PROVE CollectingInv(q)' /\ ResultInv(q)'
  <2>1. CollectingInv(q) /\ ResultInv(q)
    BY DEF SetInv
  <2>2. From(proc[q].src)' = From(proc[q].src)
    BY <1>3 DEF From
  <2>3. CollectingInv(q)'
    BY <1>3, <2>1, <2>2 DEF CollectingInv
  <2>4. ResultInv(q)'
    BY <1>3, <2>1, <2>2 DEF ResultInv
  <2> QED
    BY <2>3, <2>4
<1> QED
  BY <1>2, <1>3

\* Sets of backups are finite.
LEMMA ListedFinite ==
    ASSUME TypeInv
    PROVE  /\ \A sets \in SUBSET local.manifests : IsFiniteSet(sets)
           /\ IsFiniteSet(local.manifests)
<1>1. IsFiniteSet(Stamps) /\ local.manifests \subseteq Stamps
  BY BoundAssumption, FS_Interval DEF Stamps, TypeInv, Shape, Files
<1> QED
  BY <1>1, FS_Subset

\* A set that a gc unlinks next has a newer one of its instance.
LEMMA HasNewer ==
    ASSUME TypeInv, SetInv, NEW p \in Procs, proc[p].pc \in Rotating,
           NEW t \in First(proc[p].plan)
    PROVE  /\ t \in From(proc[p].src) /\ t \in local.manifests
           /\ \E u \in From(proc[p].src) : u > t
           /\ \A u \in From(proc[p].src) : u < t => FALSE
<1> DEFINE newer == {u \in From(proc[p].src) : u > t}
<1>1. t \in proc[p].plan /\ \A u \in proc[p].plan : t <= u
  BY DEF First
<1>2. /\ t \in From(proc[p].src) /\ Cardinality(newer) >= proc[p].keep
      /\ \A u \in From(proc[p].src) : u < t => u \in proc[p].plan
  BY <1>1 DEF SetInv, CollectingInv
<1>3. proc[p].keep \in Nat \ {0}
  BY KeepsAssumption DEF TypeInv, ProcInv, Rotating, GcSteps
<1>4. newer # {}
  <2> SUFFICES ASSUME newer = {} PROVE FALSE
    OBVIOUS
  <2>1. Cardinality(newer) = 0
    BY FS_EmptySet
  <2> QED
    BY <1>2, <1>3, <2>1
<1>5. From(proc[p].src) \subseteq local.manifests /\ local.manifests \subseteq Int
  BY DEF From, TypeInv, Shape, Files, Stamps
<1> QED
  BY <1>1, <1>2, <1>4, <1>5

\* Unlinking a file of the oldest surplus set, of a gc that has the lock.
LEMMA Unlinked ==
    ASSUME TypeInv, SetInv, NEW p \in Procs, proc[p].pc \in Rotating,
           NEW t \in First(proc[p].plan),
           local'.manifests \in {local.manifests, local.manifests \ {t}},
           Whole(local') = Whole(local) \ {t},
           \A u \in local'.manifests : madeFrom'[u] = madeFrom[u], clock' = clock
    PROVE  /\ DiskInv'
           /\ \A q \in Procs : proc'[q] = proc[q] => ResultInv(q)'
<1>t. local.manifests \subseteq Int
  BY DEF TypeInv, Shape, Files, Stamps
<1>1. /\ t \in From(proc[p].src) /\ t \in local.manifests
      /\ \E u \in From(proc[p].src) : u > t
      /\ \A u \in From(proc[p].src) : u < t => FALSE
  BY HasNewer
<1>2. DiskInv'
  <2>1. \A u \in local'.manifests : u <= clock'
    BY DEF SetInv, DiskInv
  <2>2. ASSUME NEW u \in local'.manifests, NEW v \in local'.manifests,
               u < v, madeFrom'[u] = madeFrom'[v], u \in Whole(local')
        PROVE  v \in Whole(local')
    <3>1. v \in Whole(local)
      BY <2>2 DEF SetInv, DiskInv
    <3>2. v # t
      BY <1>1, <2>2 DEF From
    <3> QED
      BY <3>1, <3>2
  <2>3. NewestIsWhole'
    <3> SUFFICES ASSUME NEW s \in Sources, NEW v \in From(s)', \A u \in From(s)' : u <= v
                 PROVE  v \in Whole(local')
      BY DEF NewestIsWhole
    <3>1. v \in From(s) /\ v \in local'.manifests
      BY DEF From
    <3>2. \A u \in From(s) : u = t \/ u \in From(s)'
      BY DEF From
    <3>3. v # t
      <4> SUFFICES ASSUME v = t PROVE FALSE
        OBVIOUS
      <4>1. s = proc[p].src
        BY <1>1, <3>1 DEF From
      <4>2. PICK u \in From(s) : u > t
        BY <1>1, <4>1
      <4>3. u \in From(s)' /\ u \in Int /\ t \in Int
        BY <1>t, <1>1, <3>2, <4>2 DEF From
      <4> QED
        BY <4>2, <4>3
    <3>4. t \in From(s) => t <= v
      <4> SUFFICES ASSUME t \in From(s) PROVE t <= v
        OBVIOUS
      <4>1. s = proc[p].src
        BY <1>1 DEF From
      <4>2. PICK u \in From(s) : u > t
        BY <1>1, <4>1
      <4>3. u \in From(s)' /\ u \in Int /\ t \in Int /\ v \in Int
        BY <1>t, <1>1, <3>1, <3>2, <4>2 DEF From
      <4> QED
        BY <4>2, <4>3
    <3>5. v \in Whole(local)
      BY <3>1, <3>2, <3>4 DEF SetInv, DiskInv, NewestIsWhole
    <3> QED
      BY <3>3, <3>5
  <2> QED
    BY <2>1, <2>2, <2>3 DEF DiskInv
<1>3. ASSUME NEW q \in Procs, proc'[q] = proc[q], q \in Jobs, proc[q].pc = "ok"
      PROVE  \E u \in From(proc[q].src)' : u >= proc[q].stamp /\ u \in Whole(local')
  <2>1. PICK u \in From(proc[q].src) : u >= proc[q].stamp /\ u \in Whole(local)
    BY <1>3 DEF SetInv, ResultInv
  <2>s. proc[q].stamp \in Int /\ u \in Int /\ t \in Int /\ u \in local.manifests
    BY <1>t, <1>1, <2>1 DEF From, TypeInv, Shape, Processes
  <2>2. CASE u # t
    BY <1>3, <2>1, <2>2, <2>s DEF From
  <2>3. CASE u = t
    <3>1. proc[q].src = proc[p].src
      BY <1>1, <2>1, <2>3 DEF From
    <3>2. PICK v \in From(proc[p].src) : v > t
      BY <1>1
    <3>3. v \in Int /\ v \in local'.manifests /\ v # t /\ v >= proc[q].stamp
      BY <1>t, <2>1, <2>3, <2>s, <3>2 DEF From
    <3>4. v \in Whole(local)
      BY <1>1, <2>1, <2>3, <3>2 DEF SetInv, DiskInv, From
    <3> QED
      BY <1>3, <3>1, <3>2, <3>3, <3>4 DEF From
  <2> QED
    BY <2>2, <2>3
<1>4. ASSUME NEW q \in Procs, proc'[q] = proc[q] PROVE ResultInv(q)'
  BY <1>3, <1>4 DEF ResultInv, From
<1> QED
  BY <1>2, <1>4

\* The invariant, when one process steps under the lock.
LEMMA OneActs ==
    ASSUME SetInv, LockInv, NEW p \in Procs, proc[p].pc \in Held, DiskInv',
           \A q \in Procs \ {p} : proc'[q] = proc[q],
           \A q \in Procs \ {p} : proc'[q] = proc[q] => ResultInv(q)',
           MakingInv(p)' /\ CollectingInv(p)' /\ ResultInv(p)'
    PROVE  SetInv'
<1>1. ASSUME NEW q \in Procs \ {p}
      PROVE  MakingInv(q)' /\ CollectingInv(q)' /\ ResultInv(q)'
  <2>1. proc'[q].pc \notin Held
    BY Alone
  <2> QED
    BY <2>1 DEF MakingInv, CollectingInv, Held, Making, Rotating, Sweeping, GcSteps
<1> QED
  BY <1>1 DEF SetInv

\* The invariant, when the files are left alone: every process goes on as it is, or is at
\* a step that has made and collects nothing.
LEMMA FilesKept ==
    ASSUME TypeInv, SetInv, TypeInv', UNCHANGED disk,
           \A q \in Procs : \/ proc'[q] = proc[q]
                            \/ proc'[q].pc \notin Held \cup {"ok"}
                            \/ MakingInv(q)' /\ CollectingInv(q)' /\ ResultInv(q)'
    PROVE  SetInv'
<1>1. /\ local' = local /\ madeFrom' = madeFrom /\ clock' = clock
      /\ Whole(local') = Whole(local) /\ clock' >= clock
  BY DEF disk, TypeInv, Shape
<1>2. DiskInv' /\ \A q \in Procs : proc'[q] = proc[q] => CollectingInv(q)' /\ ResultInv(q)'
  BY <1>1, Unlisted
<1>3. ASSUME NEW q \in Procs PROVE MakingInv(q)' /\ CollectingInv(q)' /\ ResultInv(q)'
  <2>1. CASE proc'[q] = proc[q]
    BY <1>1, <1>2, <2>1 DEF SetInv, MakingInv
  <2>2. CASE proc'[q].pc \notin Held \cup {"ok"}
    BY <2>2 DEF MakingInv, CollectingInv, ResultInv, Held, Making, Rotating, Sweeping, GcSteps
  <2> QED
    BY <2>1, <2>2
<1> QED
  BY <1>2, <1>3 DEF SetInv

LEMMA CreateKeeps ==
    ASSUME TypeInv, LockInv, SetInv, TypeInv', NEW p \in Procs,
           StartDump(p) \/ PlaceDump(p) \/ WriteSha(p) \/ EmptyDump(p) \/ WriteManifest(p)
    PROVE  SetInv'
<1>t. /\ Shape /\ ProcInv /\ clock \in Int /\ local.manifests \subseteq Int
      /\ MakingInv(p) /\ \A t \in local.manifests : t <= clock
  BY DEF TypeInv, Shape, Files, Stamps, SetInv, DiskInv
<1>h. /\ proc[p].pc \in Held
      /\ \A q \in Procs \ {p} : proc'[q] = proc[q]
  BY HeldSteps, LastSteps DEF HeldStep, LastStep
<1>1. CASE StartDump(p)
  <2>1. /\ clock' = clock + 1 /\ local' = local /\ madeFrom' = madeFrom
        /\ proc'[p].pc = "dumping" /\ proc'[p].stamp = clock + 1
    BY <1>1, <1>t DEF StartDump, Shape, Processes
  <2>2. DiskInv' /\ \A q \in Procs : proc'[q] = proc[q] => ResultInv(q)'
    BY <1>t, <2>1, Unlisted
  <2>3. MakingInv(p)' /\ CollectingInv(p)' /\ ResultInv(p)'
    BY <1>t, <2>1 DEF MakingInv, CollectingInv, ResultInv, Rotating, Sweeping
  <2> QED
    BY <1>h, <2>2, <2>3, OneActs
<1>2. CASE PlaceDump(p) \/ WriteSha(p)
  <2>1. /\ clock' = clock /\ madeFrom' = madeFrom /\ proc[p].stamp \notin local.manifests
        /\ local'.manifests = local.manifests
        /\ local'.dumps \in {local.dumps, local.dumps \cup {proc[p].stamp}}
        /\ local'.shas \in {local.shas, local.shas \cup {proc[p].stamp}}
    BY <1>2, <1>t DEF PlaceDump, WriteSha, Shape, Files, MakingInv, Making
  <2>2. Whole(local') = Whole(local)
    BY <2>1 DEF Whole
  <2>3. DiskInv' /\ \A q \in Procs : proc'[q] = proc[q] => ResultInv(q)'
    BY <1>t, <2>1, <2>2, Unlisted
  <2>4. MakingInv(p)' /\ CollectingInv(p)' /\ ResultInv(p)'
    <3>1. CASE PlaceDump(p)
      <4>1. /\ proc'[p].pc = "placed" /\ proc'[p].stamp = proc[p].stamp
            /\ proc[p].stamp = clock /\ proc[p].stamp \in local'.dumps
        BY <3>1, <1>t DEF PlaceDump, Goto, Shape, Processes, Files, MakingInv, Making
      <4> QED
        BY <2>1, <4>1 DEF MakingInv, CollectingInv, ResultInv, Rotating, Sweeping
    <3>2. CASE WriteSha(p)
      <4>1. /\ proc'[p].pc = "hashed" /\ proc'[p].stamp = proc[p].stamp
            /\ proc[p].stamp = clock
            /\ proc[p].stamp \in local'.dumps /\ proc[p].stamp \in local'.shas
        BY <3>2, <1>t DEF WriteSha, Goto, Shape, Processes, Files, MakingInv, Making
      <4> QED
        BY <2>1, <4>1 DEF MakingInv, CollectingInv, ResultInv, Rotating, Sweeping
    <3> QED
      BY <1>2, <3>1, <3>2
  <2> QED
    BY <1>h, <2>3, <2>4, OneActs
<1>3. CASE EmptyDump(p)
  <2>1. /\ clock' = clock /\ madeFrom' = madeFrom /\ proc[p].stamp \notin local.manifests
        /\ local'.manifests = local.manifests /\ local'.shas = local.shas
        /\ local'.dumps = local.dumps \ {proc[p].stamp}
    BY <1>3, <1>t DEF EmptyDump, Shape, Files, MakingInv, Making
  <2>2. Whole(local') = Whole(local)
    BY <2>1 DEF Whole
  <2>3. DiskInv' /\ \A q \in Procs : proc'[q] = proc[q] => ResultInv(q)'
    BY <1>t, <2>1, <2>2, Unlisted
  <2>4. proc'[p].pc \in {"idle", "raised"}
    BY <1>3, <1>t, EndedType DEF EmptyDump, Unlock, Ended, Goto, Shape, Processes, Procs, Idle
  <2>5. MakingInv(p)' /\ CollectingInv(p)' /\ ResultInv(p)'
    BY <2>4 DEF MakingInv, CollectingInv, ResultInv, Making, Rotating, Sweeping
  <2> QED
    BY <1>h, <2>3, <2>5, OneActs
<1>4. CASE WriteManifest(p)
  <2> DEFINE new == proc[p].stamp
  <2>1. /\ clock' = clock /\ new = clock /\ new \notin local.manifests
        /\ new \in local.dumps /\ new \in local.shas
        /\ local'.manifests = local.manifests \cup {new}
        /\ local'.dumps = local.dumps /\ local'.shas = local.shas
        /\ madeFrom'[new] = proc[p].src
        /\ \A t \in local.manifests : madeFrom'[t] = madeFrom[t]
    BY <1>4, <1>t DEF WriteManifest, Shape, ProcInv, Files, MakingInv, Making, Stamps
  <2>2. PICK outcome \in {"ok", "raised"} : Ended(p, outcome)
    BY <1>4 DEF WriteManifest, Unlock
  <2> HIDE DEF new
  <2>3. Whole(local') = Whole(local) \cup {new}
    BY <2>1 DEF Whole
  <2>4. DiskInv'
    <3>1. \A t \in local'.manifests : t <= clock'
      BY <1>t, <2>1
    <3>2. ASSUME NEW t \in local'.manifests, NEW u \in local'.manifests,
                 t < u, madeFrom'[t] = madeFrom'[u], t \in Whole(local')
          PROVE  u \in Whole(local')
      <4>1. t # new
        BY <1>t, <2>1, <3>2
      <4> QED
        BY <2>1, <2>3, <3>2, <4>1 DEF SetInv, DiskInv
    <3>3. NewestIsWhole'
      <4> SUFFICES ASSUME NEW s \in Sources, NEW t \in From(s)', \A u \in From(s)' : u <= t
                   PROVE  t \in Whole(local')
        BY DEF NewestIsWhole
      <4>1. t \in local'.manifests /\ \A u \in From(s) : u \in From(s)'
        BY <2>1 DEF From
      <4>2. CASE t # new
        BY <2>1, <2>3, <4>1, <4>2 DEF From, SetInv, DiskInv, NewestIsWhole
      <4> QED
        BY <2>3, <4>2
    <3> QED
      BY <3>1, <3>2, <3>3 DEF DiskInv
  <2>5. ASSUME NEW q \in Procs, proc'[q] = proc[q] PROVE ResultInv(q)'
    <3>1. ResultInv(q)
      BY DEF SetInv
    <3>2. From(proc[q].src) \subseteq From(proc[q].src)'
      BY <2>1, <2>5 DEF From
    <3> QED
      BY <2>3, <2>5, <3>1, <3>2 DEF ResultInv
  <2>6. ResultInv(p)'
    <3>1. p \in Jobs => proc'[p].stamp = new /\ proc'[p].src = proc[p].src
      BY <2>2, EndedType DEF new
    <3>2. p \in Jobs => new \in From(proc[p].src)' /\ new >= new
      BY <1>t, <2>1, <3>1 DEF From
    <3> QED
      BY <2>3, <3>1, <3>2 DEF ResultInv, From
  <2>7. MakingInv(p)' /\ CollectingInv(p)'
    BY <2>2, EndedType DEF MakingInv, CollectingInv, Making, Rotating, Sweeping
  <2> QED
    BY <1>h, <2>4, <2>5, <2>6, <2>7, OneActs
<1> QED
  BY <1>1, <1>2, <1>3, <1>4

\* The surplus is a lower end of the instance's backups.
LEMMA SurplusLower ==
    ASSUME TypeInv, NEW s, NEW k \in Nat, NEW t \in Surplus(s, k),
           NEW u \in From(s), u < t
    PROVE  u \in Surplus(s, k)
<1> DEFINE newer(v) == {w \in From(s) : w > v}
<1>1. From(s) \subseteq local.manifests /\ local.manifests \subseteq Int
  BY DEF From, TypeInv, Shape, Files, Stamps
<1>2. t \in From(s) /\ Cardinality(newer(t)) >= k
  BY DEF Surplus
<1>3. newer(t) \in SUBSET newer(u)
  BY <1>1, <1>2
<1>4. IsFiniteSet(newer(u)) /\ IsFiniteSet(newer(t))
  BY <1>1, ListedFinite
<1>5. Cardinality(newer(t)) <= Cardinality(newer(u))
  BY <1>3, <1>4, FS_Subset
<1>6. Cardinality(newer(t)) \in Nat /\ Cardinality(newer(u)) \in Nat
  BY <1>4, FS_CardinalityType
<1> HIDE DEF newer
<1>7. Cardinality(newer(u)) >= k
  BY <1>2, <1>5, <1>6
<1> QED
  BY <1>7 DEF Surplus, newer

LEMMA CollectKeeps ==
    ASSUME TypeInv, LockInv, SetInv, TypeInv', NEW p \in Procs,
           ListSurplus(p) \/ UnlinkDump(p) \/ UnlinkSha(p) \/ UnlinkManifest(p)
             \/ CollectOrphans(p)
    PROVE  SetInv'
<1>t. /\ Shape /\ ProcInv /\ clock \in Int /\ local.manifests \subseteq Int
      /\ CollectingInv(p) /\ \A t \in local.manifests : t <= clock
  BY DEF TypeInv, Shape, Files, Stamps, SetInv, DiskInv
<1>h. /\ proc[p].pc \in Held
      /\ \A q \in Procs \ {p} : proc'[q] = proc[q]
  BY HeldSteps DEF HeldStep
<1>1. CASE ListSurplus(p)
  <2>1. /\ UNCHANGED disk
        /\ proc'[p].pc = "unlink_dump" /\ proc'[p].src = proc[p].src
        /\ proc'[p].keep = proc[p].keep
        /\ proc'[p].plan = Surplus(proc[p].src, proc[p].keep)
    BY <1>1, <1>t DEF ListSurplus, Shape, Processes
  <2>2. proc[p].keep \in Nat
    BY <1>1, <1>t, KeepsAssumption DEF ListSurplus, ProcInv, GcSteps
  <2>3. From(proc[p].src)' = From(proc[p].src)
    BY <2>1 DEF From, disk
  <2>4. CollectingInv(p)'
    <3>1. Surplus(proc[p].src, proc[p].keep) \subseteq From(proc[p].src)
      BY DEF Surplus
    <3>2. \A t \in Surplus(proc[p].src, proc[p].keep) :
             Cardinality({u \in From(proc[p].src) : u > t}) >= proc[p].keep
      BY DEF Surplus
    <3>3. \A t \in Surplus(proc[p].src, proc[p].keep) : \A u \in From(proc[p].src) :
             u < t => u \in Surplus(proc[p].src, proc[p].keep)
      BY <2>2, SurplusLower
    <3> HIDE DEF From
    <3> QED
      BY <2>1, <2>3, <3>1, <3>2, <3>3 DEF CollectingInv, Sweeping
  <2>5. MakingInv(p)' /\ ResultInv(p)'
    BY <2>1 DEF MakingInv, ResultInv, Making
  <2> QED
    BY <1>h, <2>1, <2>4, <2>5, FilesKept
<1>2. CASE CollectOrphans(p)
  <2>1. /\ UNCHANGED disk
        /\ proc'[p].pc = "orphan_dump" /\ proc'[p].plan = Orphans
    BY <1>2, <1>t DEF CollectOrphans, Shape, Processes
  <2>2. MakingInv(p)' /\ CollectingInv(p)' /\ ResultInv(p)'
    BY <2>1 DEF MakingInv, CollectingInv, ResultInv, Making, Rotating, Sweeping, Orphans, disk
  <2> QED
    BY <1>h, <2>1, <2>2, FilesKept
<1>3. CASE UnlinkDump(p) \/ UnlinkSha(p)
  <2>1. PICK t \in First(proc[p].plan) :
          \/ UnlinkDump(p) /\ local' = [local EXCEPT !.dumps = @ \ {t}]
          \/ UnlinkSha(p) /\ local' = [local EXCEPT !.shas = @ \ {t}]
    BY <1>3 DEF UnlinkDump, UnlinkSha
  <2>2. /\ madeFrom' = madeFrom /\ clock' = clock /\ local'.manifests = local.manifests
        /\ Whole(local') = Whole(local) \ {t}
    BY <2>1, <1>t DEF UnlinkDump, UnlinkSha, Shape, Files, Whole
  <2>3. /\ proc'[p].plan = proc[p].plan /\ proc'[p].src = proc[p].src
        /\ proc'[p].keep = proc[p].keep
        /\ proc[p].pc \in Rotating \cup Sweeping
        /\ proc[p].pc \in Rotating => proc'[p].pc \in Rotating
        /\ proc[p].pc \in Sweeping => proc'[p].pc \in Sweeping
    BY <1>3, <1>t DEF UnlinkDump, UnlinkSha, Goto, Shape, Processes, Rotating, Sweeping
  <2>4. proc[p].pc \in Sweeping => t \notin Whole(local)
    BY <1>t DEF First, CollectingInv, Whole
  <2>5. DiskInv' /\ \A q \in Procs : proc'[q] = proc[q] => ResultInv(q)'
    <3>1. CASE proc[p].pc \in Rotating
      BY <2>2, <3>1, Unlinked
    <3>2. CASE proc[p].pc \in Sweeping
      BY <1>t, <2>2, <2>4, <3>2, Unlisted
    <3> QED
      BY <2>3, <3>1, <3>2
  <2>6. CollectingInv(p)'
    <3>1. From(proc[p].src)' = From(proc[p].src)
      BY <2>2, <2>3 DEF From
    <3>2. First(proc'[p].plan) \cap Whole(local') = {}
      <4>1. \A u \in First(proc[p].plan) : u = t
        <5>1. proc[p].plan \subseteq Int
          BY <1>t DEF Shape, Processes, Stamps
        <5> QED
          BY <5>1 DEF First
      <4> QED
        BY <2>2, <2>3, <4>1
    <3> HIDE DEF First
    <3> QED
      BY <1>t, <2>2, <2>3, <3>1, <3>2 DEF CollectingInv, Rotating, Sweeping
  <2>7. MakingInv(p)' /\ ResultInv(p)'
    BY <2>3 DEF MakingInv, ResultInv, Making, Rotating, Sweeping
  <2> QED
    BY <1>h, <2>5, <2>6, <2>7, OneActs
<1>4. CASE UnlinkManifest(p)
  <2>1. PICK t \in First(proc[p].plan) :
          /\ local' = [local EXCEPT !.manifests = @ \ {t}]
          /\ madeFrom' = [madeFrom EXCEPT ![t] = None]
          /\ proc' = [proc EXCEPT ![p].plan = @ \ {t},
                ![p].pc = IF @ = "unlink_manifest" THEN "unlink_dump" ELSE "orphan_dump"]
    BY <1>4 DEF UnlinkManifest
  <2>2. /\ clock' = clock /\ local'.manifests = local.manifests \ {t}
        /\ Whole(local') = Whole(local) \ {t}
        /\ \A u \in local'.manifests : madeFrom'[u] = madeFrom[u]
    BY <1>4, <2>1, <1>t DEF UnlinkManifest, Shape, Files, Whole
  <2>3. /\ proc'[p].plan = proc[p].plan \ {t} /\ proc'[p].src = proc[p].src
        /\ proc'[p].keep = proc[p].keep
        /\ \/ proc[p].pc = "unlink_manifest" /\ proc'[p].pc = "unlink_dump"
           \/ proc[p].pc = "orphan_manifest" /\ proc'[p].pc = "orphan_dump"
    <3>1. proc[p].pc \in {"unlink_manifest", "orphan_manifest"} /\ proc[p] \in Processes
      BY <1>4, <1>t DEF UnlinkManifest, Shape
    <3>2. proc'[p] = [proc[p] EXCEPT !.plan = @ \ {t},
             !.pc = IF @ = "unlink_manifest" THEN "unlink_dump" ELSE "orphan_dump"]
      BY <2>1, <1>t DEF Shape
    <3> QED
      BY <3>1, <3>2 DEF Processes
  <2>4. DiskInv' /\ (\A q \in Procs : proc'[q] = proc[q] => ResultInv(q)')
        /\ CollectingInv(p)'
    <3>1. CASE proc[p].pc = "unlink_manifest"
      <4>1. DiskInv' /\ \A q \in Procs : proc'[q] = proc[q] => ResultInv(q)'
        BY <2>2, <3>1, Unlinked DEF Rotating
      <4>2. From(proc[p].src)' = From(proc[p].src) \ {t}
        BY <2>2, <2>3 DEF From
      <4>3. /\ proc[p].plan \subseteq From(proc[p].src)
            /\ \A u \in proc[p].plan :
                  /\ \A v \in From(proc[p].src) : v < u => v \in proc[p].plan
                  /\ Cardinality({v \in From(proc[p].src) : v > u}) >= proc[p].keep
        BY <1>t, <3>1 DEF CollectingInv, Rotating
      <4>4. From(proc[p].src) \subseteq Int /\ t \in Int /\ t \in proc[p].plan
            /\ \A u \in proc[p].plan : t <= u
        BY <1>t, <4>3 DEF From, First
      <4>5. \A u \in proc[p].plan \ {t} :
               {v \in From(proc[p].src)' : v > u} = {v \in From(proc[p].src) : v > u}
        BY <4>2, <4>3, <4>4
      <4>6. \A u \in proc'[p].plan :
               Cardinality({v \in From(proc[p].src)' : v > u}) >= proc'[p].keep
        BY <2>3, <4>3, <4>5
      <4>7. proc'[p].plan \subseteq From(proc[p].src)'
            /\ \A u \in proc'[p].plan :
                  \A v \in From(proc[p].src)' : v < u => v \in proc'[p].plan
        BY <2>3, <4>2, <4>3
      <4> QED
        BY <2>3, <3>1, <4>1, <4>6, <4>7 DEF CollectingInv, Sweeping
    <3>2. CASE proc[p].pc = "orphan_manifest"
      <4>1. t \notin local.manifests /\ proc[p].plan \cap local.manifests = {}
        BY <1>t, <3>2 DEF First, CollectingInv, Sweeping
      <4>2. local'.manifests = local.manifests /\ Whole(local') = Whole(local)
        BY <2>2, <4>1 DEF Whole
      <4>3. DiskInv' /\ \A q \in Procs : proc'[q] = proc[q] => ResultInv(q)'
        BY <1>t, <2>2, <4>2, Unlisted
      <4> QED
        BY <2>3, <3>2, <4>1, <4>2, <4>3 DEF CollectingInv, Rotating
    <3> QED
      BY <2>3, <3>1, <3>2
  <2>5. MakingInv(p)' /\ ResultInv(p)'
    BY <2>3 DEF MakingInv, ResultInv, Making
  <2> QED
    BY <1>h, <2>4, <2>5, OneActs
<1> QED
  BY <1>1, <1>2, <1>3, <1>4

LEMMA SetStep == TypeInv /\ LockInv /\ SetInv /\ [Next]_vars => SetInv'
<1> SUFFICES ASSUME TypeInv, LockInv, SetInv, [Next]_vars PROVE SetInv'
  OBVIOUS
<1>t. Shape /\ ProcInv /\ TypeInv'
  BY TypeStep DEF TypeInv
<1>i. \A q \in Procs : proc'[q].pc = "idle" => proc'[q].pc \notin Held \cup {"ok"}
  BY DEF Held, GcSteps
<1>1. ASSUME NEW p \in Procs, LockToCreate(p) \/ LockToCollect(p) PROVE SetInv'
  <2>1. UNCHANGED disk
    BY <1>1 DEF LockToCreate, LockToCollect
  <2>2. \A q \in Procs \ {p} : proc'[q] = proc[q]
    BY <1>1, <1>t, EndedType DEF LockToCreate, LockToCollect, TakeLock, Goto, Shape
  <2>3. proc'[p].pc \in {"locked", "listing", "idle", "raised"}
    BY <1>1, <1>t
    DEF LockToCreate, LockToCollect, TakeLock, Ended, Goto, Idle, Shape, Processes
  <2>4. MakingInv(p)' /\ CollectingInv(p)' /\ ResultInv(p)'
    BY <2>3 DEF MakingInv, CollectingInv, ResultInv, Making, Rotating, Sweeping
  <2> QED
    BY <1>t, <2>1, <2>2, <2>4, FilesKept
<1>2. ASSUME NEW p \in Procs,
             \/ DumpTimesOut(p) \/ GcRaises(p) \/ GcEnds(p) \/ CreateRaises(p)
      PROVE  SetInv'
  <2>1. UNCHANGED disk
    BY <1>2 DEF DumpTimesOut, GcRaises, GcEnds, CreateRaises
  <2>2. PICK outcome \in {"ok", "raised"} :
           Ended(p, outcome) /\ (outcome = "ok" => proc[p].pc \in GcSteps)
    BY <1>2 DEF DumpTimesOut, GcRaises, GcEnds, CreateRaises, Unlock, GcSteps
  <2>3. p \in Jobs => outcome # "ok"
    BY <1>t, <2>2 DEF ProcInv
  <2>4. proc'[p].pc \in {"idle", "raised"}
    BY <1>t, <2>2, <2>3 DEF Ended, Goto, Idle, Shape, Processes
  <2>5. \A q \in Procs \ {p} : proc'[q] = proc[q]
    BY <2>2, EndedType
  <2>6. proc'[p].pc \notin Held \cup {"ok"}
    BY <2>4 DEF Held, GcSteps
  <2> QED
    BY <1>t, <2>1, <2>5, <2>6, FilesKept
<1>3. ASSUME NEW p \in Procs, HeldStep(p) \/ LastStep(p) PROVE SetInv'
  BY <1>2, <1>3, <1>t, CreateKeeps, CollectKeeps DEF HeldStep, LastStep
<1>4. ASSUME NEW p \in Clis, CliCreate(p) \/ \E k \in Keeps : Gc(p, k) PROVE SetInv'
  <2>1. UNCHANGED disk /\ p \in Procs
    BY <1>4 DEF CliCreate, Gc, Procs
  <2>2. /\ \A q \in Procs \ {p} : proc'[q] = proc[q]
        /\ proc'[p].pc \in {"begin", "gc"}
    BY <1>4, <1>t, <2>1 DEF CliCreate, Gc, Begin, Shape
  <2>3. proc'[p].pc \notin Held \cup {"ok"}
    BY <2>2 DEF Held, GcSteps
  <2> QED
    BY <1>t, <2>1, <2>2, <2>3, FilesKept
<1>5. ASSUME NEW j \in Jobs, Submit(j) \/ Finish(j) PROVE SetInv'
  <2>1. UNCHANGED disk /\ j \in Procs
    BY <1>5 DEF Submit, Finish, Procs
  <2>2. /\ \A q \in Procs \ {j} : proc'[q] = proc[q]
        /\ proc'[j].pc \in {"begin", "idle"}
    BY <1>5, <1>t, <2>1 DEF Submit, Finish, Begin, Idle, Shape
  <2>3. proc'[j].pc \notin Held \cup {"ok"}
    BY <2>2 DEF Held, GcSteps
  <2> QED
    BY <1>t, <2>1, <2>2, <2>3, FilesKept
<1>6. CASE KillBackend \/ \E p \in Clis : KillCli(p)
  <2>1. UNCHANGED disk /\ \A q \in Procs : proc'[q] = proc[q] \/ proc'[q].pc = "idle"
    BY <1>6 DEF KillBackend, KillCli, Killed, Idle
  <2> QED
    BY <1>i, <1>t, <2>1, FilesKept
<1>7. ASSUME NEW d \in server, DumpEnds(d) PROVE SetInv'
  <2>1. UNCHANGED disk
    BY <1>7 DEF DumpEnds
  <2>2. CASE UNCHANGED <<proc, lock>>
    BY <1>t, <2>1, <2>2, FilesKept
  <2>3. ASSUME NEW p \in Client(d), Goto(p, "dumped") PROVE SetInv'
    <3>1. p \in Procs /\ proc[p].pc = "dumping"
      BY DEF Client
    <3>2. /\ \A q \in Procs \ {p} : proc'[q] = proc[q]
          /\ proc'[p].pc = "dumped" /\ proc'[p].stamp = proc[p].stamp
      BY <1>t, <2>3, <3>1 DEF Goto, Shape, Processes
    <3>3. MakingInv(p)' /\ CollectingInv(p)' /\ ResultInv(p)'
      BY <2>1, <3>1, <3>2
      DEF SetInv, MakingInv, CollectingInv, ResultInv, Making, Rotating, Sweeping, disk
    <3> QED
      BY <1>t, <2>1, <3>2, <3>3, FilesKept
  <2>4. ASSUME NEW p \in Client(d), Unlock(p, "raised") PROVE SetInv'
    <3>1. p \in Procs /\ Ended(p, "raised")
      BY <2>4 DEF Client, Unlock
    <3>2. proc'[p].pc \in {"idle", "raised"}
      BY <1>t, <3>1 DEF Ended, Goto, Idle, Shape, Processes
    <3>3. /\ \A q \in Procs \ {p} : proc'[q] = proc[q]
          /\ proc'[p].pc \notin Held \cup {"ok"}
      BY <3>1, <3>2, EndedType DEF Held, GcSteps
    <3> QED
      BY <1>t, <2>1, <3>3, FilesKept
  <2> QED
    BY <1>7, <2>2, <2>3, <2>4 DEF DumpEnds
<1>8. CASE \/ \E d \in server : Connect(d)
           \/ \E j \in Jobs : Cancel(j)
           \/ Shutdown \/ Restart \/ MoveRole \/ UNCHANGED vars
  <2>1. UNCHANGED <<disk, proc>>
    BY <1>8 DEF Connect, Cancel, Shutdown, Restart, MoveRole, vars
  <2> QED
    BY <1>t, <2>1, FilesKept
<1>9. ASSUME NEW p \in Procs,
             \/ LockToCreate(p) \/ LockToCollect(p) \/ HeldStep(p) \/ LastStep(p)
             \/ CreateRaises(p) /\ proc[p].pc = "begin"
      PROVE  SetInv'
  BY <1>1, <1>2, <1>3, <1>9
<1>10. CASE Next
  BY <1>10, StepKinds, <1>4, <1>5, <1>6, <1>7, <1>8, <1>9
<1> QED
  BY <1>8, <1>10

LEMMA SetInit == Init => SetInv
BY DEF Init, NoFiles, Idle, SetInv, DiskInv, NewestIsWhole, From, Whole, MakingInv,
       CollectingInv, ResultInv, Making, Rotating, Sweeping

\* The newest backup that is listed of each instance is whole, whatever create or gc died
\* between its files.
THEOREM NewestRestores == Spec => []NewestIsWhole
<1>1. SetInv => NewestIsWhole
  BY DEF SetInv, DiskInv
<1> QED
  BY <1>1, TypeInit, TypeStep, LockInit, LockStep, SetInit, SetStep, PTL DEF Spec

\* Who changes the files.
LEMMA Writers ==
    ASSUME [Next]_vars
    PROVE  \/ UNCHANGED <<local, madeFrom>>
           \/ \E p \in Procs : \/ PlaceDump(p) \/ EmptyDump(p) \/ WriteSha(p)
                               \/ WriteManifest(p) \/ UnlinkDump(p) \/ UnlinkSha(p)
                               \/ UnlinkManifest(p)
<1>1. ASSUME NEW p \in Procs,
             \/ LockToCreate(p) \/ StartDump(p) \/ DumpTimesOut(p) \/ CreateRaises(p)
             \/ LockToCollect(p) \/ ListSurplus(p) \/ CollectOrphans(p) \/ GcRaises(p)
             \/ GcEnds(p)
      PROVE  UNCHANGED <<local, madeFrom>>
  BY <1>1 DEF LockToCreate, StartDump, DumpTimesOut, CreateRaises, LockToCollect,
              ListSurplus, CollectOrphans, GcRaises, GcEnds, disk
<1>2. CASE \E p \in Clis : CliCreate(p) \/ KillCli(p) \/ \E k \in Keeps : Gc(p, k)
  BY <1>2 DEF CliCreate, KillCli, Killed, Gc, disk
<1>3. CASE \/ \E d \in server : Connect(d) \/ DumpEnds(d)
           \/ \E j \in Jobs : Submit(j) \/ Finish(j) \/ Cancel(j)
  BY <1>3 DEF Connect, DumpEnds, Submit, Finish, Cancel, disk
<1>4. CASE Shutdown \/ Restart \/ KillBackend \/ MoveRole \/ UNCHANGED vars
  BY <1>4 DEF Shutdown, Restart, KillBackend, Killed, MoveRole, vars, disk
<1>5. ASSUME NEW p \in Procs, Step(p)
      PROVE  \/ UNCHANGED <<local, madeFrom>>
             \/ PlaceDump(p) \/ EmptyDump(p) \/ WriteSha(p) \/ WriteManifest(p)
             \/ UnlinkDump(p) \/ UnlinkSha(p) \/ UnlinkManifest(p)
  BY <1>1, <1>5 DEF Step, CreateStep, GcStep
<1>6. CASE \E p \in Procs : Step(p)
  <2>1. PICK p \in Procs : Step(p)
    BY <1>6
  <2> QED
    BY <1>5, <2>1, Zenon
<1> QED
  BY <1>2, <1>3, <1>4, <1>6 DEF Next, Container

\* What a step lists is whole.
LEMMA PublishStep ==
    ASSUME TypeInv, SetInv, [Next]_vars, NEW t \in Stamps,
           t \in local'.manifests \ local.manifests
    PROVE  t \in Whole(local')
<1>1. local \in Files
  BY DEF TypeInv, Shape
<1>2. PICK p \in Procs : WriteManifest(p)
  BY <1>1, Writers
  DEF PlaceDump, EmptyDump, WriteSha, UnlinkDump, UnlinkSha, UnlinkManifest, Files
<1>3. t = proc[p].stamp /\ local' = [local EXCEPT !.manifests = @ \cup {t}]
  BY <1>1, <1>2 DEF WriteManifest, Files
<1>4. t \in local.dumps /\ t \in local.shas
  BY <1>2, <1>3 DEF SetInv, MakingInv, WriteManifest
<1> QED
  BY <1>1, <1>3, <1>4 DEF Whole, Files

\* A create that ends publishes a whole backup.
THEOREM PublishesWhole == Spec => PublishedIsWhole
<1> DEFINE New == \A t \in Stamps :
                     t \in local'.manifests \ local.manifests => t \in Whole(local')
<1>1. TypeInv /\ SetInv /\ [Next]_vars => New
  BY PublishStep
<1>2. TypeInv /\ SetInv /\ [Next]_vars => [New]_vars
  BY <1>1
<1> QED
  BY <1>2, TypeInit, TypeStep, LockInit, LockStep, SetInit, SetStep, PTL
  DEF Spec, PublishedIsWhole

\* What a step breaks, and who takes it.
LEMMA BreakStep ==
    ASSUME TypeInv, SetInv, [Next]_vars, NEW t \in Whole(local) \ Whole(local')
    PROVE  \E p \in Clis :
             /\ proc[p].pc = "unlink_dump" /\ madeFrom[t] = proc[p].src
             /\ Cardinality({u \in Whole(local) \cap From(proc[p].src) : u > t})
                   >= proc[p].keep
<1>t. local \in Files /\ ProcInv /\ t \in local.manifests
  BY DEF TypeInv, Shape, Whole
<1>1. ASSUME NEW p \in Procs, PlaceDump(p) \/ WriteSha(p) \/ WriteManifest(p) PROVE FALSE
  BY <1>t, <1>1 DEF PlaceDump, WriteSha, WriteManifest, Whole, Files
<1>2. ASSUME NEW p \in Procs, EmptyDump(p) PROVE FALSE
  BY <1>t, <1>2 DEF EmptyDump, SetInv, MakingInv, Making, Whole, Files
<1>3. ASSUME NEW p \in Procs, UnlinkDump(p) \/ UnlinkSha(p) \/ UnlinkManifest(p)
      PROVE  proc[p].pc = "unlink_dump" /\ t \in proc[p].plan
  <2>1. t \in First(proc[p].plan)
    BY <1>t, <1>3 DEF UnlinkDump, UnlinkSha, UnlinkManifest, Whole, Files
  <2>2. proc[p].pc \notin Sweeping
    BY <1>t, <2>1 DEF First, SetInv, CollectingInv
  <2>3. proc[p].pc \notin {"unlink_sha", "unlink_manifest"}
    BY <2>1 DEF SetInv, CollectingInv
  <2> QED
    BY <1>3, <2>1, <2>2, <2>3
    DEF UnlinkDump, UnlinkSha, UnlinkManifest, Sweeping, First
<1>4. PICK p \in Procs : UnlinkDump(p) \/ UnlinkSha(p) \/ UnlinkManifest(p)
  BY <1>1, <1>2, Writers
<1>5. proc[p].pc = "unlink_dump" /\ t \in proc[p].plan
  BY <1>3, <1>4
<1>6. p \in Clis
  BY <1>t, <1>5 DEF ProcInv, GcSteps, Procs
<1>7. t \in From(proc[p].src)
      /\ Cardinality({u \in From(proc[p].src) : u > t}) >= proc[p].keep
  BY <1>5 DEF SetInv, CollectingInv, Rotating
<1>8. \A u \in From(proc[p].src) : u > t => u \in Whole(local)
  BY <1>t, <1>7 DEF SetInv, DiskInv, From, Files, Stamps
<1>9. {u \in Whole(local) \cap From(proc[p].src) : u > t} =
         {u \in From(proc[p].src) : u > t}
  BY <1>8
<1>10. madeFrom[t] = proc[p].src
  BY <1>7 DEF From
<1> QED
  BY <1>5, <1>6, <1>7, <1>9, <1>10

\* A whole backup is broken only by a gc of its own instance, and one that leaves at
\* least --keep newer whole ones.
THEOREM GcKeeps == Spec => GcKeepsNewest
<1> DEFINE Kept ==
      \A t \in Whole(local) \ Whole(local') :
          \E p \in Clis :
             /\ proc[p].pc = "unlink_dump" /\ madeFrom[t] = proc[p].src
             /\ Cardinality({u \in Whole(local) \cap From(proc[p].src) : u > t})
                   >= proc[p].keep
<1>1. TypeInv /\ SetInv /\ [Next]_vars => Kept
  BY BreakStep
<1>2. TypeInv /\ SetInv /\ [Next]_vars => [Kept]_vars
  BY <1>1
<1> QED
  BY <1>2, TypeInit, TypeStep, LockInit, LockStep, SetInit, SetStep, PTL
  DEF Spec, GcKeepsNewest

\* A job recorded as succeeded has left a whole backup, or a newer one of its instance is
\* listed.
THEOREM SuccessIsTrue == Spec => SucceededIsTrue
<1> DEFINE Truth ==
      \A j \in Jobs :
          jobs[j] = "running" /\ jobs'[j] = "succeeded" =>
             \/ proc[j].stamp \in Whole(local)
             \/ \E u \in From(proc[j].src) : u > proc[j].stamp /\ u \in Whole(local)
<1>1. TypeInv /\ SetInv /\ [Next]_vars => Truth
  <2> SUFFICES ASSUME TypeInv, SetInv, [Next]_vars, NEW j \in Jobs,
                      jobs[j] = "running", jobs'[j] = "succeeded"
               PROVE  \/ proc[j].stamp \in Whole(local)
                      \/ \E u \in From(proc[j].src) :
                            u > proc[j].stamp /\ u \in Whole(local)
    OBVIOUS
  <2>t. Shape /\ j \in Procs
    BY DEF TypeInv, Procs
  <2>1. ASSUME NEW p \in Procs,
               \/ LockToCreate(p) \/ LockToCollect(p) \/ HeldStep(p) \/ LastStep(p)
               \/ CreateRaises(p)
        PROVE  UNCHANGED jobs
    BY <2>1
    DEF LockToCreate, LockToCollect, HeldStep, LastStep, CreateRaises, StartDump, PlaceDump,
        WriteSha, ListSurplus, UnlinkDump, UnlinkSha, UnlinkManifest, CollectOrphans,
        DumpTimesOut, EmptyDump, WriteManifest, GcRaises, GcEnds, runner
  <2>2. CASE \/ \E p \in Clis : CliCreate(p) \/ KillCli(p) \/ \E k \in Keeps : Gc(p, k)
             \/ \E d \in server : Connect(d) \/ DumpEnds(d)
             \/ Shutdown \/ MoveRole \/ UNCHANGED vars
    <3>1. UNCHANGED jobs
      BY <2>2 DEF CliCreate, KillCli, Gc, Connect, DumpEnds, Shutdown, MoveRole, vars, runner
    <3> QED
      BY <3>1
  <2>3. CASE Restart \/ KillBackend
    BY <2>3 DEF Restart, KillBackend
  <2>4. ASSUME NEW i \in Jobs, Submit(i) \/ Cancel(i) PROVE FALSE
    BY <2>t, <2>4 DEF Submit, Cancel, Shape
  <2>5. CASE \E i \in Jobs : Finish(i)
    <3>1. proc[j].pc = "ok"
      BY <2>t, <2>5 DEF Finish, Shape
    <3>2. PICK u \in From(proc[j].src) : u >= proc[j].stamp /\ u \in Whole(local)
      BY <2>t, <3>1 DEF SetInv, ResultInv
    <3>3. u \in Int /\ proc[j].stamp \in Int
      BY <2>t, <3>2 DEF From, Shape, Files, Stamps, Processes
    <3> QED
      BY <3>2, <3>3
  <2> QED
    BY StepKinds, <2>1, <2>2, <2>3, <2>4, <2>5
<1>2. TypeInv /\ SetInv /\ [Next]_vars => [Truth]_vars
  BY <1>1
<1> QED
  BY <1>2, TypeInit, TypeStep, LockInit, LockStep, SetInit, SetStep, PTL
  DEF Spec, SucceededIsTrue

-----------------------------------------------------------------------------
(* Beside syncs and rehearsals.                                              *)

\* What a sync or a rehearsal changes of the role: its lock, unless a process has it.
Beside ==
    /\ UNCHANGED <<disk, source, proc, container, runner, moves>>
    /\ kills' \in 0 .. MaxKills
    /\ lock \in Procs => lock' = lock

LEMMA OthersBeside ==
    ASSUME TypeInv, \/ CopyStep
                    \/ \E r \in Rehearsers : RehearsalStep(r)
                    \/ \E n \in sessions : RestoreEnds(n)
                    \/ \E d \in scratch : Age(d)
                    \/ \E s \in Sources : OtherRoleSweeps(s)
    PROVE  Beside
<1>t. kills \in 0 .. MaxKills /\ None \notin Procs
  BY ProcessesAssumption DEF TypeInv, Shape, Procs
<1>1. CASE UNCHANGED vars
  BY <1>t, <1>1 DEF vars, Beside, bounds
<1>2. CASE CopyStep
  <2>1. CASE KillCopier
    BY <1>t, <2>1, BoundAssumption DEF KillCopier, Beside
  <2> QED
    BY <1>1, <1>2, <2>1
    DEF CopyStep, SyncBegins, LookAtName, ReadChecksum, RsyncLists, RsyncSends, VerifyRemote,
        SyncFails, WriteSyncStatus
<1>3. ASSUME NEW r \in Rehearsers, RehearsalStep(r) PROVE Beside
  <2>1. r \notin Procs
    BY RehearsersAssumption
  <2>2. CASE LockToRehearse(r)
    BY <1>t, <2>2 DEF LockToRehearse, Beside, bounds
  <2>3. CASE TooLittleSpace(r) \/ EndRehearsal(r)
    BY <1>t, <2>1, <2>3 DEF TooLittleSpace, EndRehearsal, Release, Beside, bounds
  <2>4. CASE KillRehearser(r)
    BY <1>t, <2>1, <2>4, BoundAssumption DEF KillRehearser, Release, Beside
  <2> QED
    BY <1>1, <1>3, <2>2, <2>3, <2>4
    DEF RehearsalStep, PlanRestore, SweepStale, CopyIn, CreateScratch, BeginRestore,
        RestoreTimesOut, CheckRestored, DropScratch, ReadBack, RemoveCopy
<1> QED
  BY <1>1, <1>2, <1>3 DEF RestoreEnds, Age, OtherRoleSweeps

LEMMA RecoverySteps ==
    ASSUME TypeInv, [RecoveryNext]_recoveryVars
    PROVE  [Next]_vars \/ Beside
BY OthersBeside DEF RecoveryNext, recoveryVars

\* What holds of the role itself.
RoleInv == TypeInv /\ LockInv /\ DumpInv /\ SetInv

LEMMA RoleStep == RoleInv /\ [RecoveryNext]_recoveryVars => RoleInv'
<1> SUFFICES ASSUME RoleInv, [RecoveryNext]_recoveryVars PROVE RoleInv'
  OBVIOUS
<1>1. CASE [Next]_vars
  BY <1>1, TypeStep, LockStep, DumpStep, SetStep DEF RoleInv
<1>2. CASE Beside
  <2>1. TypeInv'
    BY <1>2 DEF RoleInv, TypeInv, Shape, ProcInv, Beside, disk, container, runner
  <2>2. LockInv'
    BY <1>2 DEF RoleInv, LockInv, Beside
  <2>3. DumpInv'
    BY <1>2 DEF RoleInv, DumpInv, ServerInv, OneDump, Beside, disk, container
  <2>4. SetInv'
    BY <1>2, <2>1, FilesKept DEF RoleInv, Beside
  <2> QED
    BY <2>1, <2>2, <2>3, <2>4 DEF RoleInv
<1> QED
  BY <1>1, <1>2, RecoverySteps DEF RoleInv

LEMMA RoleInit == RecoveryInit => RoleInv
BY TypeInit, LockInit, SetInit DEF RecoveryInit, RoleInv

LEMMA RoleHolds == RecoverySpec => []RoleInv
BY RoleInit, RoleStep, PTL DEF RecoverySpec

\* A sync or a rehearsal breaks none of what the role promises: of each instance the newest
\* backup that is listed is whole, also while a rehearsal has the role lock.
THEOREM NewestStillRestores == RecoverySpec => []NewestIsWhole
<1>1. RoleInv => NewestIsWhole
  BY DEF RoleInv, SetInv, DiskInv
<1> QED
  BY <1>1, RoleHolds, PTL

\* One pg_dump loads a database, whoever else has the role lock.
THEOREM StillOnePgDump == RecoverySpec => []OneDump
<1>1. RoleInv => OneDump
  BY DEF RoleInv, DumpInv
<1> QED
  BY <1>1, RoleHolds, PTL

\* A backup that is listed beside a sync or a rehearsal is whole.
THEOREM StillPublishesWhole == RecoverySpec => PublishedIsWhole
<1> DEFINE New == \A t \in Stamps :
                     t \in local'.manifests \ local.manifests => t \in Whole(local')
<1>1. RoleInv /\ [RecoveryNext]_recoveryVars => [New]_vars
  <2> SUFFICES ASSUME RoleInv, [RecoveryNext]_recoveryVars PROVE New
    OBVIOUS
  <2>1. CASE [Next]_vars
    BY <2>1, PublishStep DEF RoleInv
  <2>2. CASE Beside
    BY <2>2 DEF Beside, disk
  <2> QED
    BY <2>1, <2>2, RecoverySteps DEF RoleInv
<1> QED
  BY <1>1, RoleHolds, PTL DEF RecoverySpec, PublishedIsWhole

\* Neither a sync nor a rehearsal breaks a backup.
THEOREM StillGcKeeps == RecoverySpec => GcKeepsNewest
<1> DEFINE Kept ==
      \A t \in Whole(local) \ Whole(local') :
          \E p \in Clis :
             /\ proc[p].pc = "unlink_dump" /\ madeFrom[t] = proc[p].src
             /\ Cardinality({u \in Whole(local) \cap From(proc[p].src) : u > t})
                   >= proc[p].keep
<1>1. RoleInv /\ [RecoveryNext]_recoveryVars => [Kept]_vars
  <2> SUFFICES ASSUME RoleInv, [RecoveryNext]_recoveryVars PROVE Kept
    OBVIOUS
  <2>1. CASE [Next]_vars
    BY <2>1, BreakStep DEF RoleInv
  <2>2. CASE Beside
    BY <2>2 DEF Beside, disk
  <2> QED
    BY <2>1, <2>2, RecoverySteps DEF RoleInv
<1> QED
  BY <1>1, RoleHolds, PTL DEF RecoverySpec, GcKeepsNewest

-----------------------------------------------------------------------------
(* What is known of a backup for good.                                       *)

\* The largest of some stamps.
LEMMA Largest ==
    ASSUME NEW n \in Nat, NEW S \in SUBSET (1 .. n), S # {}
    PROVE  \E t \in S : \A u \in S : u <= t
<1> DEFINE Less == {ss \in Nat \X Nat : ss[1] < ss[2]}
           Rest == {n - t : t \in S}
<1>1. IsWellFoundedOn(Less, Nat)
  BY NatLessThanWellFounded DEF OpToRel
<1>2. Rest \subseteq Nat /\ Rest # {}
  <2>1. PICK s \in S : s \in 1 .. n
    OBVIOUS
  <2>2. n - s \in Rest
    OBVIOUS
  <2>3. \A t \in S : n - t \in Nat
    OBVIOUS
  <2>4. Rest \subseteq Nat
    BY <2>3
  <2> QED
    BY <2>2, <2>4
<1>3. PICK x \in Rest : \A y \in Rest : ~(<<y, x>> \in Less)
  <2> HIDE DEF Less, Rest
  <2> QED
    BY <1>1, <1>2, WFMin
<1>4. PICK t \in S : x = n - t
  OBVIOUS
<1>5. \A u \in S : u <= t
  <2> SUFFICES ASSUME NEW u \in S PROVE u <= t
    OBVIOUS
  <2>1. n - u \in Rest /\ n - u \in Nat /\ n - t \in Nat
    BY <1>2
  <2>2. ~(n - u < n - t)
    BY <1>3, <1>4, <2>1
  <2>3. u \in Int /\ t \in Int
    OBVIOUS
  <2> HIDE DEF Less, Rest
  <2> QED
    BY <2>2, <2>3
<1> QED
  BY <1>5

\* A second that has passed and of which nothing is being made: what it has is only lost.
Settled(t) == t <= clock /\ \A p \in Procs : proc[p].pc \in Making => proc[p].stamp # t

\* A create goes on with its second, or takes a later one.
LEMMA Makers ==
    ASSUME TypeInv, [Next]_vars
    PROVE  /\ clock' >= clock
           /\ \A p \in Procs : proc'[p].pc \in Making =>
                 \/ proc[p].pc \in Making /\ proc'[p].stamp = proc[p].stamp
                 \/ proc'[p].stamp > clock
<1>t. Shape /\ ProcInv /\ clock \in Int
  BY DEF TypeInv, Shape
<1> DEFINE Goal == /\ clock' >= clock
                   /\ \A p \in Procs : proc'[p].pc \in Making =>
                         \/ proc[p].pc \in Making /\ proc'[p].stamp = proc[p].stamp
                         \/ proc'[p].stamp > clock
<1>k. ASSUME clock' = clock,
             \A p \in Procs : \/ proc'[p] = proc[p]
                              \/ proc'[p].pc \notin Making
                              \/ proc[p].pc \in Making /\ proc'[p].stamp = proc[p].stamp
      PROVE  Goal
  BY <1>k, <1>t
<1>1. ASSUME NEW p \in Procs, LockToCreate(p) \/ LockToCollect(p) PROVE Goal
  <2>1. \A q \in Procs \ {p} : proc'[q] = proc[q]
    BY <1>1, <1>t, EndedType DEF LockToCreate, LockToCollect, TakeLock, Goto, Shape
  <2>2. proc'[p].pc \in {"locked", "listing", "idle", "raised"}
    BY <1>1, <1>t
    DEF LockToCreate, LockToCollect, TakeLock, Ended, Goto, Idle, Shape, Processes
  <2>3. clock' = clock
    BY <1>1 DEF LockToCreate, LockToCollect, disk
  <2> QED
    BY <1>k, <2>1, <2>2, <2>3 DEF Making
<1>2. ASSUME NEW p \in Procs, StartDump(p) PROVE Goal
  <2>1. clock' = clock + 1 /\ proc'[p].stamp = clock + 1
    BY <1>2, <1>t DEF StartDump, Shape, Processes
  <2>2. \A q \in Procs \ {p} : proc'[q] = proc[q]
    BY <1>2, HeldSteps DEF HeldStep
  <2> QED
    BY <1>t, <2>1, <2>2
<1>3. ASSUME NEW p \in Procs, HeldStep(p), ~StartDump(p) PROVE Goal
  <2>1. clock' = clock /\ \A q \in Procs \ {p} : proc'[q] = proc[q]
    BY <1>3, HeldSteps
    DEF HeldStep, PlaceDump, WriteSha, ListSurplus, UnlinkDump, UnlinkSha, UnlinkManifest,
        CollectOrphans, disk
  <2>2. CASE PlaceDump(p) \/ WriteSha(p)
    <3>1. proc[p].pc \in Making /\ proc'[p].stamp = proc[p].stamp
      BY <2>2, <1>t DEF PlaceDump, WriteSha, Goto, Shape, Processes, Making
    <3> QED
      BY <1>k, <2>1, <3>1
  <2>3. CASE ~PlaceDump(p) /\ ~WriteSha(p)
    <3>1. proc'[p].pc \notin Making
      <4>1. CASE ListSurplus(p) \/ CollectOrphans(p)
        BY <4>1, <1>t DEF ListSurplus, CollectOrphans, Shape, Processes, Making
      <4>2. CASE UnlinkDump(p) \/ UnlinkSha(p)
        BY <4>2, <1>t DEF UnlinkDump, UnlinkSha, Goto, Shape, Processes, Making
      <4>3. CASE UnlinkManifest(p)
        BY <4>3, <1>t DEF UnlinkManifest, Shape, Processes, Making
      <4> QED
        BY <1>3, <2>3, <4>1, <4>2, <4>3 DEF HeldStep
    <3> QED
      BY <1>k, <2>1, <3>1
  <2> QED
    BY <2>2, <2>3
<1>4. ASSUME NEW p \in Procs, LastStep(p) PROVE Goal
  <2>1. clock' = clock
    BY <1>4
    DEF LastStep, DumpTimesOut, EmptyDump, WriteManifest, GcRaises, GcEnds, CreateRaises, disk
  <2> QED
    BY <1>k, <1>4, <2>1, LastSteps DEF Making
<1>5. ASSUME NEW p \in Procs, CreateRaises(p), proc[p].pc = "begin" PROVE Goal
  <2>1. clock' = clock /\ Ended(p, "raised")
    BY <1>5 DEF CreateRaises, disk
  <2> QED
    BY <1>k, <2>1, EndedType DEF Making
<1>6. ASSUME NEW p \in Clis, CliCreate(p) \/ \E k \in Keeps : Gc(p, k) PROVE Goal
  <2>1. p \in Procs /\ clock' = clock
    BY <1>6 DEF CliCreate, Gc, Procs, disk
  <2>2. /\ \A q \in Procs \ {p} : proc'[q] = proc[q]
        /\ proc'[p].pc \in {"begin", "gc"}
    BY <1>6, <1>t, <2>1 DEF CliCreate, Gc, Begin, Shape
  <2> QED
    BY <1>k, <2>1, <2>2 DEF Making
<1>7. ASSUME NEW j \in Jobs, Submit(j) \/ Finish(j) PROVE Goal
  <2>1. j \in Procs /\ clock' = clock
    BY <1>7 DEF Submit, Finish, Procs, disk
  <2>2. /\ \A q \in Procs \ {j} : proc'[q] = proc[q]
        /\ proc'[j].pc \in {"begin", "idle"}
    BY <1>7, <1>t, <2>1 DEF Submit, Finish, Begin, Idle, Shape
  <2> QED
    BY <1>k, <2>1, <2>2 DEF Making
<1>8. CASE KillBackend \/ \E p \in Clis : KillCli(p)
  <2>1. clock' = clock /\ \A q \in Procs : proc'[q] = proc[q] \/ proc'[q].pc = "idle"
    BY <1>8 DEF KillBackend, KillCli, Killed, Idle, disk
  <2> QED
    BY <1>k, <2>1 DEF Making
<1>9. ASSUME NEW d \in server, DumpEnds(d) PROVE Goal
  <2>1. clock' = clock
    BY <1>9 DEF DumpEnds, disk
  <2>2. CASE UNCHANGED <<proc, lock>>
    BY <1>k, <2>1, <2>2
  <2>3. ASSUME NEW p \in Client(d), Goto(p, "dumped") PROVE Goal
    <3>1. p \in Procs /\ proc[p].pc = "dumping" /\ proc'[p].stamp = proc[p].stamp
          /\ \A q \in Procs \ {p} : proc'[q] = proc[q]
      BY <1>t, <2>3 DEF Client, Goto, Shape, Processes
    <3> QED
      BY <1>k, <2>1, <3>1 DEF Making
  <2>4. ASSUME NEW p \in Client(d), Unlock(p, "raised") PROVE Goal
    BY <1>k, <2>1, <2>4, EndedType DEF Client, Unlock, Making
  <2> QED
    BY <1>9, <2>2, <2>3, <2>4 DEF DumpEnds
<1>10. CASE \/ \E d \in server : Connect(d)
            \/ \E j \in Jobs : Cancel(j)
            \/ Shutdown \/ Restart \/ MoveRole \/ UNCHANGED vars
  <2>1. UNCHANGED <<clock, proc>>
    BY <1>10 DEF Connect, Cancel, Shutdown, Restart, MoveRole, vars, disk
  <2> QED
    BY <1>k, <2>1
<1>11. ASSUME NEW p \in Procs,
              \/ LockToCreate(p) \/ LockToCollect(p) \/ HeldStep(p) \/ LastStep(p)
              \/ CreateRaises(p) /\ proc[p].pc = "begin"
       PROVE  Goal
  BY <1>1, <1>2, <1>3, <1>4, <1>5, <1>11
<1>12. CASE Next
  BY <1>12, StepKinds, <1>6, <1>7, <1>8, <1>9, <1>10, <1>11
<1> QED
  BY <1>10, <1>12

LEMMA SettledStays ==
    ASSUME TypeInv, [Next]_vars, NEW t \in Stamps, Settled(t)
    PROVE  Settled(t)'
<1>1. clock \in Int /\ t \in Int /\ clock' >= clock /\ clock' \in Int
  BY Makers, TypeStep DEF TypeInv, Shape, Stamps
<1> QED
  BY <1>1, Makers DEF Settled

\* What is listed is settled.
LEMMA ListedSettled ==
    ASSUME TypeInv, SetInv, NEW t \in local.manifests
    PROVE  t \in Stamps /\ Settled(t)
BY DEF SetInv, DiskInv, MakingInv, Settled, TypeInv, Shape, Files

\* Nothing is added to what is settled.
LEMMA SettledFiles ==
    ASSUME TypeInv, [Next]_vars, NEW t \in Stamps, Settled(t)
    PROVE  /\ t \in local'.dumps => t \in local.dumps
           /\ t \in local'.shas => t \in local.shas
           /\ t \in local'.manifests => t \in local.manifests /\ madeFrom'[t] = madeFrom[t]
<1>t. local \in Files /\ madeFrom \in [Stamps -> Sources \cup {None}]
  BY DEF TypeInv, Shape
<1>1. ASSUME NEW p \in Procs, PlaceDump(p) \/ EmptyDump(p) \/ WriteSha(p) \/ WriteManifest(p)
      PROVE  /\ t \in local'.dumps => t \in local.dumps
             /\ t \in local'.shas => t \in local.shas
             /\ t \in local'.manifests => t \in local.manifests /\ madeFrom'[t] = madeFrom[t]
  <2>1. proc[p].stamp # t
    BY <1>1 DEF PlaceDump, EmptyDump, WriteSha, WriteManifest, Settled, Making
  <2> QED
    BY <1>1, <1>t, <2>1 DEF PlaceDump, EmptyDump, WriteSha, WriteManifest, Files
<1>2. ASSUME NEW p \in Procs, UnlinkDump(p) \/ UnlinkSha(p) \/ UnlinkManifest(p)
      PROVE  /\ t \in local'.dumps => t \in local.dumps
             /\ t \in local'.shas => t \in local.shas
             /\ t \in local'.manifests => t \in local.manifests /\ madeFrom'[t] = madeFrom[t]
  BY <1>2, <1>t DEF UnlinkDump, UnlinkSha, UnlinkManifest, Files
<1> QED
  BY <1>1, <1>2, Writers

\* A collection that takes a backup leaves a newer one of its instance.
LEMMA Survives ==
    ASSUME TypeInv, SetInv, [Next]_vars, NEW s, NEW t \in From(s) \cap Whole(local)
    PROVE  \E u \in From(s)' \cap Whole(local') : u >= t
<1>t. /\ local \in Files /\ madeFrom \in [Stamps -> Sources \cup {None}]
      /\ local.manifests \subseteq Int /\ t \in local.manifests /\ t >= t
  BY DEF TypeInv, Shape, Files, Stamps, From
<1>1. ASSUME UNCHANGED <<local, madeFrom>> PROVE t \in From(s)' \cap Whole(local')
  BY <1>1 DEF From
<1>2. ASSUME NEW p \in Procs, PlaceDump(p) \/ EmptyDump(p) \/ WriteSha(p) \/ WriteManifest(p)
      PROVE  t \in From(s)' \cap Whole(local')
  <2>1. proc[p].stamp # t
    BY <1>2, <1>t
    DEF PlaceDump, EmptyDump, WriteSha, WriteManifest, SetInv, MakingInv, Making
  <2> QED
    BY <1>2, <1>t, <2>1
    DEF PlaceDump, EmptyDump, WriteSha, WriteManifest, Files, Whole, From
<1>3. ASSUME NEW p \in Procs, UnlinkDump(p) \/ UnlinkSha(p) \/ UnlinkManifest(p)
      PROVE  \E u \in From(s)' \cap Whole(local') : u >= t
  <2>1. PICK f \in First(proc[p].plan) :
          /\ local'.dumps \in {local.dumps, local.dumps \ {f}}
          /\ local'.shas \in {local.shas, local.shas \ {f}}
          /\ local'.manifests \in {local.manifests, local.manifests \ {f}}
          /\ \A u \in local.manifests \ {f} : madeFrom'[u] = madeFrom[u]
    BY <1>3, <1>t DEF UnlinkDump, UnlinkSha, UnlinkManifest, Files
  <2>2. \A u \in From(s) \cap Whole(local) : u # f => u \in From(s)' \cap Whole(local')
    BY <2>1 DEF From, Whole
  <2>3. CASE t # f
    BY <1>t, <2>2, <2>3
  <2>4. CASE t = f
    <3>1. proc[p].pc \in Rotating
      BY <1>3, <1>t, <2>4
      DEF UnlinkDump, UnlinkSha, UnlinkManifest, First, SetInv, CollectingInv, Rotating, Sweeping
    <3>2. PICK u \in From(proc[p].src) : u > t
      BY <2>4, <3>1, HasNewer
    <3>3. s = proc[p].src
      BY <2>4, <3>1, HasNewer DEF From
    <3>4. u \in local.manifests /\ u \in Int /\ t \in Int /\ u # t /\ u >= t
      BY <1>t, <3>2 DEF From
    <3>5. u \in Whole(local)
      BY <1>t, <3>2, <3>3, <3>4 DEF SetInv, DiskInv, From
    <3> QED
      BY <2>2, <2>4, <3>2, <3>3, <3>4, <3>5
  <2> QED
    BY <2>3, <2>4
<1> QED
  BY <1>1, <1>2, <1>3, <1>t, Writers

-----------------------------------------------------------------------------
(* The copy off the host.                                                    *)

Kinds == {"dumps", "shas", "manifests"}
Ages == [Sources -> 0 .. MaxStamp]

\* The shape of a sync, of what it copied and of what it reported.
CopyShape ==
    /\ copier \in [pc : {"idle", "looking", "reading", "sending", "done"},
                   names : SUBSET Names, lines : SUBSET Names, lost : BOOLEAN,
                   verified : BOOLEAN, since : Ages]
    /\ offsite \in [dumps : SUBSET Stamps, shas : SUBSET Stamps, manifests : SUBSET Stamps,
                    madeFrom : [Stamps -> Sources \cup {None}]]
    /\ report \in [verified : BOOLEAN, since : Ages]

\* A manifest over there says what the one here says, if it is still here.
OffsiteInv ==
    \A t \in offsite.manifests :
        Settled(t) /\ (t \in local.manifests => madeFrom[t] = offsite.madeFrom[t])

\* Of each instance the other host has a whole backup that is not older.
Recovers(since) ==
    \A s \in Sources : since[s] > 0 =>
        \E t \in Whole(offsite) : t >= since[s] /\ offsite.madeFrom[t] = s

\* Of each instance a backup that is not older is still here, until rsync lists it.
StillHere(since) ==
    \A s \in Sources : since[s] > 0 => \E u \in From(s) \cap Whole(local) : u >= since[s]

\* A file of u, made from s, has been copied or is a name rsync will still look for.
SentOrListed(u, s, k) ==
    \/ [stamp |-> u, kind |-> k] \in copier.names
    \/ u \in offsite[k] /\ (k = "manifests" => offsite.madeFrom[u] = s)

\* All of such a backup will be over there, unless a file is lost on the way.
OnItsWay(u, s) ==
    /\ Settled(u) /\ (u \in local.manifests => madeFrom[u] = s)
    /\ \A k \in Kinds : SentOrListed(u, s, k)

\* What a sync has achieved so far.
CopierInv ==
    /\ copier.pc \in {"looking", "reading"} => StillHere(copier.since)
    /\ copier.pc = "sending" /\ ~copier.lost =>
          \A s \in Sources : copier.since[s] > 0 =>
              \E u \in Stamps : u >= copier.since[s] /\ OnItsWay(u, s)
    /\ copier.verified => copier.pc = "done" /\ Recovers(copier.since)

CopyInv == CopyShape /\ OffsiteInv /\ CopierInv /\ VerifiedCopyRecovers

LEMMA NewestWholeListed ==
    ASSUME TypeInv
    PROVE  NewestWhole \in Ages /\ StillHere(NewestWhole)
<1>1. ASSUME NEW s \in Sources
      PROVE  /\ NewestWhole[s] \in 0 .. MaxStamp
             /\ NewestWhole[s] > 0 => NewestWhole[s] \in From(s) \cap Whole(local)
  <2> DEFINE here == From(s) \cap Whole(local)
  <2>1. here \in SUBSET (1 .. MaxStamp) /\ MaxStamp \in Nat
    BY BoundAssumption DEF TypeInv, Shape, Files, Stamps, From
  <2>2. NewestWhole[s] = IF here = {} THEN 0
                         ELSE CHOOSE t \in here : \A u \in here : u <= t
    BY DEF NewestWhole
  <2> HIDE DEF here
  <2>3. CASE here = {}
    BY <2>1, <2>2, <2>3
  <2>4. CASE here # {}
    <3>1. \E t \in here : \A u \in here : u <= t
      BY <2>1, <2>4, Largest
    <3>2. NewestWhole[s] \in here
      BY <2>2, <2>4, <3>1
    <3> QED
      BY <2>1, <3>2 DEF here
  <2> QED
    BY <2>3, <2>4
<1>2. \A s \in Sources : \A t \in From(s) \cap Whole(local) : t >= t
  BY DEF TypeInv, Shape, Files, Stamps, From
<1>3. NewestWhole \in Ages
  BY <1>1 DEF NewestWhole, Ages
<1> QED
  BY <1>1, <1>2, <1>3 DEF StillHere

\* Steps of the role, and of rehearsals, leave a sync what it has.
LEMMA CopyKept ==
    ASSUME TypeInv, SetInv, CopyInv, [Next]_vars \/ UNCHANGED <<disk, proc>>,
           UNCHANGED <<copier, offsite, report>>
    PROVE  CopyInv'
<1>1. ASSUME NEW t \in Stamps, Settled(t)
      PROVE  Settled(t)' /\ (t \in local'.manifests => t \in local.manifests
                                                       /\ madeFrom'[t] = madeFrom[t])
  <2>1. CASE [Next]_vars
    BY <1>1, <2>1, SettledStays, SettledFiles
  <2>2. CASE UNCHANGED <<disk, proc>>
    BY <1>1, <2>2 DEF Settled, disk
  <2> QED
    BY <2>1, <2>2
<1>2. ASSUME StillHere(copier.since) PROVE StillHere(copier.since)'
  <2>1. CASE [Next]_vars
    <3> SUFFICES ASSUME NEW s \in Sources, copier.since[s] > 0
                 PROVE  \E u \in From(s)' \cap Whole(local') : u >= copier.since[s]
      BY DEF StillHere
    <3>1. PICK t \in From(s) \cap Whole(local) : t >= copier.since[s]
      BY <1>2 DEF StillHere
    <3>2. PICK u \in From(s)' \cap Whole(local') : u >= t
      BY <2>1, Survives
    <3>3. t \in Int /\ u \in Int /\ copier.since[s] \in Int
      <4>1. t \in Int
        BY DEF From, TypeInv, Shape, Files, Stamps
      <4>2. u \in Int
        BY <2>1, TypeStep DEF From, TypeInv, Shape, Files, Stamps
      <4>3. copier.since[s] \in Int
        BY DEF CopyInv, CopyShape, Ages
      <4> QED
        BY <4>1, <4>2, <4>3
    <3> QED
      BY <3>1, <3>2, <3>3
  <2>2. CASE UNCHANGED <<disk, proc>>
    BY <1>2, <2>2 DEF StillHere, From, disk
  <2> QED
    BY <2>1, <2>2
<1>3. OffsiteInv'
  <2>1. offsite.manifests \subseteq Stamps
    BY DEF CopyInv, CopyShape
  <2> QED
    BY <1>1, <2>1 DEF CopyInv, OffsiteInv
<1>4. CopierInv'
  <2>1. copier'.pc \in {"looking", "reading"} => StillHere(copier.since)'
    BY <1>2 DEF CopyInv, CopierInv
  <2>2. ASSUME copier.pc = "sending", ~copier.lost, NEW s \in Sources, copier.since[s] > 0
        PROVE  \E u \in Stamps : u >= copier.since[s] /\ OnItsWay(u, s)'
    <3>1. PICK u \in Stamps : u >= copier.since[s] /\ OnItsWay(u, s)
      BY <2>2 DEF CopyInv, CopierInv
    <3>2. OnItsWay(u, s)'
      BY <1>1, <3>1 DEF OnItsWay, SentOrListed
    <3> QED
      BY <3>1, <3>2
  <2>3. copier'.verified => copier'.pc = "done" /\ Recovers(copier.since)'
    BY DEF CopyInv, CopierInv, Recovers
  <2> QED
    BY <2>1, <2>2, <2>3 DEF CopierInv
<1> QED
  BY <1>3, <1>4 DEF CopyInv, CopyShape, VerifiedCopyRecovers

\* rsync of one file.
LEMMA SendKeeps ==
    ASSUME TypeInv, SetInv, CopyInv, RsyncSends
    PROVE  CopyInv'
<1>1. /\ copier.pc = "sending" /\ report' = report
      /\ UNCHANGED <<local, madeFrom, clock, proc>>
  BY DEF RsyncSends, vars, disk
<1>2. PICK f \in Foremost(copier.names) :
        /\ offsite' = IF ~On(local, f) THEN offsite
                      ELSE [offsite EXCEPT ![f.kind] = @ \cup {f.stamp},
                              !.madeFrom[f.stamp] = IF f.kind = "manifests"
                                                    THEN madeFrom[f.stamp] ELSE @]
        /\ copier' = [copier EXCEPT !.names = @ \ {f}, !.lost = @ \/ ~On(local, f)]
  BY DEF RsyncSends
<1>3. CopyShape /\ f \in Names /\ f.stamp \in Stamps /\ f.kind \in Kinds
  BY DEF CopyInv, CopyShape, Foremost, Names, Kinds
<1>4. /\ copier'.pc = "sending" /\ copier'.names = copier.names \ {f}
      /\ copier'.lost = (copier.lost \/ ~On(local, f)) /\ copier'.since = copier.since
      /\ copier'.verified = copier.verified /\ copier'.lines = copier.lines
  BY <1>1, <1>2, <1>3 DEF CopyShape
<1>5. ~copier.verified
  BY <1>1 DEF CopyInv, CopierInv
<1>6. ASSUME ~On(local, f) PROVE offsite' = offsite
  BY <1>2, <1>6
<1>7. ASSUME On(local, f)
      PROVE  /\ f.stamp \in local[f.kind]
             /\ \A k \in Kinds : offsite'[k] = IF k = f.kind THEN offsite[k] \cup {f.stamp}
                                               ELSE offsite[k]
             /\ offsite'.madeFrom =
                   [offsite.madeFrom EXCEPT ![f.stamp] = IF f.kind = "manifests"
                                                         THEN madeFrom[f.stamp] ELSE @]
             /\ offsite' \in [dumps : SUBSET Stamps, shas : SUBSET Stamps,
                              manifests : SUBSET Stamps,
                              madeFrom : [Stamps -> Sources \cup {None}]]
  <2> DEFINE src == IF f.kind = "manifests" THEN madeFrom[f.stamp]
                    ELSE offsite.madeFrom[f.stamp]
  <2>1. src \in Sources \cup {None}
    BY <1>3 DEF CopyShape, TypeInv, Shape
  <2>2. offsite' = [offsite EXCEPT ![f.kind] = @ \cup {f.stamp}, !.madeFrom[f.stamp] = src]
    BY <1>2, <1>3, <1>7 DEF CopyShape, Kinds
  <2> HIDE DEF src
  <2>3. /\ offsite' \in [dumps : SUBSET Stamps, shas : SUBSET Stamps,
                         manifests : SUBSET Stamps, madeFrom : [Stamps -> Sources \cup {None}]]
        /\ \A k \in Kinds : offsite'[k] = IF k = f.kind THEN offsite[k] \cup {f.stamp}
                                          ELSE offsite[k]
    BY <1>3, <2>1, <2>2 DEF CopyShape, Kinds
  <2>4. offsite'.madeFrom = [offsite.madeFrom EXCEPT ![f.stamp] = src]
    BY <1>3, <2>1, <2>2 DEF CopyShape, Kinds
  <2>5. f.stamp \in local[f.kind]
    BY <1>7 DEF On
  <2> QED
    BY <2>3, <2>4, <2>5 DEF src
<1>8. CopyShape'
  <2>1. offsite' \in [dumps : SUBSET Stamps, shas : SUBSET Stamps, manifests : SUBSET Stamps,
                      madeFrom : [Stamps -> Sources \cup {None}]]
    BY <1>3, <1>6, <1>7 DEF CopyShape
  <2>2. copier' \in [pc : {"idle", "looking", "reading", "sending", "done"},
                     names : SUBSET Names, lines : SUBSET Names, lost : BOOLEAN,
                     verified : BOOLEAN, since : Ages]
    BY <1>2, <1>3 DEF CopyShape
  <2> QED
    BY <1>1, <1>3, <2>1, <2>2 DEF CopyShape
<1>9. /\ \A k \in Kinds : offsite[k] \subseteq offsite'[k]
      /\ \A t \in offsite.manifests : offsite'.madeFrom[t] = offsite.madeFrom[t]
      /\ \A t \in offsite'.manifests \ offsite.manifests :
            t \in local.manifests /\ offsite'.madeFrom[t] = madeFrom[t]
  <2>1. CASE On(local, f)
    <3>1. offsite'.manifests = IF f.kind = "manifests" THEN offsite.manifests \cup {f.stamp}
                               ELSE offsite.manifests
      BY <1>7, <2>1 DEF Kinds
    <3>2. f.kind = "manifests" => f.stamp \in local.manifests
      BY <1>7, <2>1
    <3>3. \A t \in offsite.manifests : t \in Stamps
      BY <1>3 DEF CopyShape
    <3>4. \A t \in offsite.manifests : offsite'.madeFrom[t] = offsite.madeFrom[t]
      BY <1>3, <1>7, <2>1, <3>2, <3>3 DEF CopyShape, CopyInv, OffsiteInv
    <3>5. \A t \in offsite'.manifests \ offsite.manifests :
             t \in local.manifests /\ offsite'.madeFrom[t] = madeFrom[t]
      BY <1>3, <1>7, <2>1, <3>1, <3>2 DEF CopyShape
    <3> QED
      BY <1>7, <2>1, <3>4, <3>5
  <2>2. CASE ~On(local, f)
    BY <1>6, <2>2
  <2> QED
    BY <2>1, <2>2
<1>10. OffsiteInv'
  <2>1. \A t \in offsite'.manifests : Settled(t)
    BY <1>9, ListedSettled DEF CopyInv, OffsiteInv
  <2>2. \A t \in offsite'.manifests : t \in local.manifests => madeFrom[t] = offsite'.madeFrom[t]
    BY <1>9 DEF CopyInv, OffsiteInv
  <2> QED
    BY <1>1, <2>1, <2>2 DEF OffsiteInv, Settled
<1>11. \A since : Recovers(since) => Recovers(since)'
  <2>1. Whole(offsite) \subseteq Whole(offsite') /\ Whole(offsite) \subseteq offsite.manifests
    BY <1>9 DEF Whole, Kinds
  <2> QED
    BY <1>9, <2>1 DEF Recovers
<1>12. CopierInv'
  <2>1. ASSUME ~copier'.lost, NEW s \in Sources, copier.since[s] > 0
        PROVE  \E u \in Stamps : u >= copier.since[s] /\ OnItsWay(u, s)'
    <3>1. ~copier.lost /\ On(local, f)
      BY <1>4, <2>1
    <3>2. PICK u \in Stamps : u >= copier.since[s] /\ OnItsWay(u, s)
      BY <1>1, <2>1, <3>1 DEF CopyInv, CopierInv
    <3>3. ASSUME NEW k \in Kinds PROVE SentOrListed(u, s, k)'
      <4> DEFINE name == [stamp |-> u, kind |-> k]
      <4>1. CASE name = f
        <5>1. f.stamp = u /\ f.kind = k
          BY <4>1
        <5>2. u \in offsite'[k]
          BY <1>7, <3>1, <5>1
        <5>3. k = "manifests" => offsite'.madeFrom[u] = s
          <6>1. k = "manifests" => u \in local.manifests /\ madeFrom[u] = s
            BY <1>7, <3>1, <3>2, <5>1 DEF OnItsWay
          <6> QED
            BY <1>3, <1>7, <3>1, <5>1, <6>1 DEF CopyShape
        <5> QED
          BY <5>2, <5>3 DEF SentOrListed
      <4>2. CASE name # f
        <5>1. SentOrListed(u, s, k)
          BY <3>2 DEF OnItsWay
        <5>2. CASE name \in copier.names
          BY <1>4, <4>2, <5>2 DEF SentOrListed
        <5>3. CASE name \notin copier.names
          <6>1. u \in offsite[k] /\ (k = "manifests" => offsite.madeFrom[u] = s)
            BY <5>1, <5>3 DEF SentOrListed
          <6>2. k = "manifests" => offsite'.madeFrom[u] = offsite.madeFrom[u]
            BY <1>9, <6>1
          <6> QED
            BY <1>9, <6>1, <6>2 DEF SentOrListed
        <5> QED
          BY <5>2, <5>3
      <4> QED
        BY <4>1, <4>2
    <3>4. Settled(u)' /\ (u \in local'.manifests => madeFrom'[u] = s)
      BY <1>1, <3>2 DEF OnItsWay, Settled
    <3> QED
      BY <3>2, <3>3, <3>4 DEF OnItsWay
  <2> QED
    BY <1>4, <1>5, <2>1 DEF CopierInv
<1>13. VerifiedCopyRecovers'
  BY <1>1, <1>11 DEF CopyInv, VerifiedCopyRecovers, Recovers
<1> QED
  BY <1>8, <1>10, <1>12, <1>13 DEF CopyInv

\* A step of a sync that copies nothing.
LEMMA SyncKeeps ==
    ASSUME CopyInv, CopyShape', CopierInv', UNCHANGED <<local, madeFrom, clock, proc, offsite>>,
           \/ report' = report
           \/ report'.verified => copier.verified /\ report'.since = copier.since
    PROVE  CopyInv'
<1>1. OffsiteInv'
  BY DEF CopyInv, OffsiteInv, Settled
<1>2. VerifiedCopyRecovers'
  BY DEF CopyInv, CopierInv, Recovers, VerifiedCopyRecovers
<1> QED
  BY <1>1, <1>2 DEF CopyInv

LEMMA NoSyncShape ==
    /\ NoSync \in [pc : {"idle", "looking", "reading", "sending", "done"},
                   names : SUBSET Names, lines : SUBSET Names, lost : BOOLEAN,
                   verified : BOOLEAN, since : Ages]
    /\ NoSync.pc = "idle" /\ NoSync.verified = FALSE /\ NoSync.lost = FALSE
<1>1. [s \in Sources |-> 0] \in Ages
  BY BoundAssumption DEF Ages
<1> QED
  BY <1>1 DEF NoSync

LEMMA CopyStepKeeps ==
    ASSUME TypeInv, SetInv, CopyInv, CopyStep
    PROVE  CopyInv'
<1>t. CopyShape /\ CopierInv
  BY DEF CopyInv
<1>1. CASE SyncBegins
  <2>1. UNCHANGED <<local, madeFrom, clock, proc, offsite, report>>
    BY <1>1 DEF SyncBegins, vars, disk
  <2>2. copier' = [NoSync EXCEPT !.pc = "looking", !.since = NewestWhole,
                                 !.names = {f \in Names : On(local, f) /\ f.kind # "shas"}]
    BY <1>1 DEF SyncBegins
  <2>3. {f \in Names : On(local, f) /\ f.kind # "shas"} \in SUBSET Names
    OBVIOUS
  <2>4. /\ copier'.pc = "looking" /\ copier'.verified = FALSE /\ copier'.since = NewestWhole
        /\ copier' \in [pc : {"idle", "looking", "reading", "sending", "done"},
                        names : SUBSET Names, lines : SUBSET Names, lost : BOOLEAN,
                        verified : BOOLEAN, since : Ages]
    BY <2>2, <2>3, NoSyncShape, NewestWholeListed
  <2>5. StillHere(NewestWhole) /\ local' = local /\ madeFrom' = madeFrom
    BY <2>1, NewestWholeListed
  <2>6. CopierInv'
    BY <2>4, <2>5 DEF CopierInv, StillHere, From
  <2>7. CopyShape'
    BY <1>t, <2>1, <2>4 DEF CopyShape
  <2> QED
    BY <2>1, <2>6, <2>7, SyncKeeps
<1>2. CASE LookAtName \/ ReadChecksum
  <2>1. UNCHANGED <<local, madeFrom, clock, proc, offsite, report>>
    BY <1>2 DEF LookAtName, ReadChecksum, vars, disk
  <2>2. PICK f \in Foremost(copier.names) :
           \/ copier' = [copier EXCEPT !.pc = "reading"]
           \/ copier' = [copier EXCEPT !.names = @ \ {f}]
           \/ copier' = [copier EXCEPT !.pc = "looking", !.names = @ \ {f},
                                       !.lines = @ \cup {f}]
    BY <1>2 DEF LookAtName, ReadChecksum, Sync
  <2>3. f \in Names /\ copier.pc \in {"looking", "reading"}
    BY <1>t, <1>2 DEF Foremost, CopyShape, LookAtName, ReadChecksum
  <2>4. /\ copier' \in [pc : {"idle", "looking", "reading", "sending", "done"},
                        names : SUBSET Names, lines : SUBSET Names, lost : BOOLEAN,
                        verified : BOOLEAN, since : Ages]
        /\ copier'.pc \in {"looking", "reading"} /\ copier'.since = copier.since
        /\ copier'.verified = copier.verified
    <3>1. CASE copier' = [copier EXCEPT !.pc = "reading"]
      BY <1>t, <2>3, <3>1 DEF CopyShape
    <3>2. CASE copier' = [copier EXCEPT !.names = @ \ {f}]
      BY <1>t, <2>3, <3>2 DEF CopyShape
    <3>3. CASE copier' = [copier EXCEPT !.pc = "looking", !.names = @ \ {f},
                                        !.lines = @ \cup {f}]
      BY <1>t, <2>3, <3>3 DEF CopyShape
    <3> QED
      BY <2>2, <3>1, <3>2, <3>3
  <2>5. CopierInv'
    BY <1>t, <2>1, <2>3, <2>4 DEF CopierInv, StillHere, From
  <2>6. CopyShape'
    BY <1>t, <2>1, <2>4 DEF CopyShape
  <2> QED
    BY <2>1, <2>5, <2>6, SyncKeeps
<1>3. CASE RsyncLists
  <2>1. UNCHANGED <<local, madeFrom, clock, proc, offsite, report>> /\ copier.pc = "looking"
    BY <1>3 DEF RsyncLists, vars, disk
  <2>2. copier' = [copier EXCEPT !.pc = "sending", !.names = {f \in Names : On(local, f)}]
    BY <1>3 DEF RsyncLists
  <2>3. {f \in Names : On(local, f)} \in SUBSET Names
    OBVIOUS
  <2>4. /\ copier' \in [pc : {"idle", "looking", "reading", "sending", "done"},
                        names : SUBSET Names, lines : SUBSET Names, lost : BOOLEAN,
                        verified : BOOLEAN, since : Ages]
        /\ copier'.pc = "sending" /\ copier'.since = copier.since
        /\ copier'.verified = copier.verified
        /\ copier'.names = {f \in Names : On(local, f)}
    BY <1>t, <2>2, <2>3 DEF CopyShape
  <2>5. ASSUME NEW s \in Sources, copier.since[s] > 0
        PROVE  \E u \in Stamps : u >= copier.since[s] /\ OnItsWay(u, s)'
    <3>1. PICK u \in From(s) \cap Whole(local) : u >= copier.since[s]
      BY <1>t, <2>1, <2>5 DEF CopierInv, StillHere
    <3>2. u \in local.manifests /\ madeFrom[u] = s
      BY <3>1 DEF From
    <3>3. u \in Stamps /\ Settled(u)
      BY <3>2, ListedSettled
    <3>4. ASSUME NEW k \in Kinds PROVE [stamp |-> u, kind |-> k] \in copier'.names
      <4>1. [stamp |-> u, kind |-> k] \in Names /\ u \in local[k]
        BY <3>1, <3>3 DEF Names, Kinds, Whole
      <4> QED
        BY <2>4, <4>1 DEF On
    <3>5. Settled(u)' /\ (u \in local'.manifests => madeFrom'[u] = s)
      BY <2>1, <3>2, <3>3 DEF Settled
    <3> QED
      BY <3>1, <3>3, <3>4, <3>5 DEF OnItsWay, SentOrListed
  <2>6. ~copier.verified
    BY <1>t, <2>1 DEF CopierInv
  <2>7. CopierInv'
    BY <2>4, <2>5, <2>6 DEF CopierInv
  <2>8. CopyShape'
    BY <1>t, <2>1, <2>4 DEF CopyShape
  <2> QED
    BY <2>1, <2>7, <2>8, SyncKeeps
<1>4. CASE VerifyRemote
  <2>1. UNCHANGED <<local, madeFrom, clock, proc, offsite, report>>
        /\ copier.pc = "sending" /\ copier.names = {} /\ ~copier.lost
    BY <1>4 DEF VerifyRemote, vars, disk
  <2>2. copier' = [copier EXCEPT !.pc = "done",
                                 !.verified = \A f \in copier.lines : On(offsite, f)]
    BY <1>4 DEF VerifyRemote
  <2> DEFINE held == \A f \in copier.lines : On(offsite, f)
  <2>h. held \in BOOLEAN /\ copier' = [copier EXCEPT !.pc = "done", !.verified = held]
    BY <2>2
  <2> HIDE DEF held
  <2>3. /\ copier' \in [pc : {"idle", "looking", "reading", "sending", "done"},
                        names : SUBSET Names, lines : SUBSET Names, lost : BOOLEAN,
                        verified : BOOLEAN, since : Ages]
        /\ copier'.pc = "done" /\ copier'.since = copier.since
    BY <1>t, <2>h DEF CopyShape
  <2>4. Recovers(copier.since)
    <3> SUFFICES ASSUME NEW s \in Sources, copier.since[s] > 0
                 PROVE  \E t \in Whole(offsite) :
                           t >= copier.since[s] /\ offsite.madeFrom[t] = s
      BY DEF Recovers
    <3>1. PICK u \in Stamps : u >= copier.since[s] /\ OnItsWay(u, s)
      BY <1>t, <2>1 DEF CopierInv
    <3>2. \A k \in Kinds : u \in offsite[k] /\ (k = "manifests" => offsite.madeFrom[u] = s)
      BY <2>1, <3>1 DEF OnItsWay, SentOrListed
    <3> QED
      BY <3>1, <3>2 DEF Kinds, Whole
  <2>5. Recovers(copier'.since) /\ offsite' = offsite
    BY <2>1, <2>3, <2>4
  <2>6. CopierInv'
    BY <2>3, <2>5 DEF CopierInv, Recovers
  <2>7. CopyShape'
    BY <1>t, <2>1, <2>3 DEF CopyShape
  <2> QED
    BY <2>1, <2>6, <2>7, SyncKeeps
<1>5. CASE SyncFails
  <2>1. UNCHANGED <<local, madeFrom, clock, proc, offsite, report>>
        /\ copier.pc \in {"looking", "reading", "sending"}
    BY <1>5 DEF SyncFails, vars, disk
  <2>2. copier' = [copier EXCEPT !.pc = "done"]
    BY <1>5 DEF SyncFails, Sync
  <2>3. /\ copier' \in [pc : {"idle", "looking", "reading", "sending", "done"},
                        names : SUBSET Names, lines : SUBSET Names, lost : BOOLEAN,
                        verified : BOOLEAN, since : Ages]
        /\ copier'.pc = "done" /\ copier'.verified = copier.verified
    BY <1>t, <2>2 DEF CopyShape
  <2>4. ~copier.verified
    BY <1>t, <2>1 DEF CopierInv
  <2>5. CopierInv'
    BY <2>3, <2>4 DEF CopierInv
  <2>6. CopyShape'
    BY <1>t, <2>1, <2>3 DEF CopyShape
  <2> QED
    BY <2>1, <2>5, <2>6, SyncKeeps
<1>6. CASE WriteSyncStatus \/ KillCopier
  <2>1. UNCHANGED <<local, madeFrom, clock, proc, offsite>> /\ copier' = NoSync
    BY <1>6 DEF WriteSyncStatus, KillCopier, vars, disk
  <2>2. report' \in {report, [verified |-> copier.verified, since |-> copier.since]}
    BY <1>6 DEF WriteSyncStatus, KillCopier
  <2>3. CopierInv'
    BY <2>1, NoSyncShape DEF CopierInv
  <2>4. report' \in [verified : BOOLEAN, since : Ages]
    BY <1>t, <2>2 DEF CopyShape
  <2>5. CopyShape'
    BY <1>t, <2>1, <2>4, NoSyncShape DEF CopyShape
  <2> QED
    BY <2>1, <2>2, <2>3, <2>5, SyncKeeps
<1> QED
  BY <1>1, <1>2, <1>3, <1>4, <1>5, <1>6, SendKeeps DEF CopyStep

LEMMA CopyHolds == RecoverySpec => []CopyInv
<1>1. RecoveryInit => CopyInv
  <2> SUFFICES ASSUME RecoveryInit PROVE CopyInv
    OBVIOUS
  <2>1. [s \in Sources |-> 0] \in Ages
    BY BoundAssumption DEF Ages
  <2>2. CopyShape
    BY <2>1, NoSyncShape DEF RecoveryInit, CopyShape
  <2>3. OffsiteInv
    BY DEF RecoveryInit, OffsiteInv
  <2>4. CopierInv
    BY NoSyncShape DEF RecoveryInit, CopierInv
  <2>5. VerifiedCopyRecovers
    BY DEF RecoveryInit, VerifiedCopyRecovers
  <2> QED
    BY <2>2, <2>3, <2>4, <2>5 DEF CopyInv
<1>2. RoleInv /\ CopyInv /\ [RecoveryNext]_recoveryVars => CopyInv'
  <2> SUFFICES ASSUME RoleInv, CopyInv, [RecoveryNext]_recoveryVars PROVE CopyInv'
    OBVIOUS
  <2>t. TypeInv /\ SetInv
    BY DEF RoleInv
  <2>1. CASE CopyStep
    BY <2>t, <2>1, CopyStepKeeps
  <2>2. CASE (Next /\ UNCHANGED <<copying, rehearsing>>) \/ UNCHANGED recoveryVars
    <3>1. [Next]_vars /\ UNCHANGED <<copier, offsite, report>>
      BY <2>2 DEF copying, recoveryVars
    <3> QED
      BY <2>t, <3>1, CopyKept
  <2>3. CASE \/ \E r \in Rehearsers : RehearsalStep(r)
             \/ \E n \in sessions : RestoreEnds(n)
             \/ \E d \in scratch : Age(d)
             \/ \E s \in Sources : OtherRoleSweeps(s)
    <3>1. UNCHANGED copying
      BY <2>3
      DEF RehearsalStep, PlanRestore, SweepStale, LockToRehearse, TooLittleSpace, CopyIn,
          CreateScratch, BeginRestore, RestoreTimesOut, CheckRestored, DropScratch, ReadBack,
          RemoveCopy, EndRehearsal, KillRehearser, RestoreEnds, Age, OtherRoleSweeps
    <3>2. UNCHANGED <<disk, proc, copier, offsite, report>>
      BY <2>t, <2>3, <3>1, OthersBeside DEF Beside, copying
    <3> QED
      BY <2>t, <3>2, CopyKept
  <2> QED
    BY <2>1, <2>2, <2>3 DEF RecoveryNext
<1> QED
  BY <1>1, <1>2, RoleHolds, PTL DEF RecoverySpec

\* Since a sync was reported as verified, the other host has, of each instance, a whole
\* backup no older than the newest one listed when that sync began.
THEOREM VerifiedCopy == RecoverySpec => []VerifiedCopyRecovers
<1>1. CopyInv => VerifiedCopyRecovers
  BY DEF CopyInv
<1> QED
  BY <1>1, CopyHolds, PTL

-----------------------------------------------------------------------------
(* The rehearsals.                                                           *)

\* The steps of a rehearsal under the role lock, and those after its restore.
Locked == {"locked", "copied", "created", "restoring", "check", "drop", "readback", "remove",
           "unlock"}
AfterRestore == {"check", "drop", "readback", "remove", "unlock"}

RehearsalSteps == Resting \cup {"planned", "swept"} \cup Locked
Rehearsals == [pc : RehearsalSteps, run : Nat, stamp : 0 .. MaxStamp, src : Sources \cup {None},
               created : BOOLEAN, restored : BOOLEAN, blocked : BOOLEAN, error : BOOLEAN]

RehearsalShape ==
    /\ rehearsal \in [Rehearsers -> Rehearsals] /\ runs \in Nat
    /\ scratch \subseteq [run : Nat, src : Sources, aged : BOOLEAN]

\* No two rehearsals share a scratch name.
RunsInv ==
    /\ \A r \in Rehearsers : rehearsal[r].pc \notin Resting => rehearsal[r].run <= runs
    /\ \A r, q \in Rehearsers :
          r # q /\ rehearsal[r].pc \notin Resting /\ rehearsal[q].pc \notin Resting =>
             rehearsal[r].run # rehearsal[q].run

\* The planned backup: while its dump is there it is listed, and of the planned instance.
PlanInv(r) ==
    rehearsal[r].pc \notin Resting =>
       /\ rehearsal[r].stamp \in Stamps /\ Settled(rehearsal[r].stamp)
       /\ rehearsal[r].src \in Sources
       /\ rehearsal[r].stamp \in local.dumps => rehearsal[r].stamp \in From(rehearsal[r].src)

\* What a rehearsal has done, and what its clean-up has found.
DoneInv(r) ==
    /\ rehearsal[r].pc \in Locked => lock = r
    /\ rehearsal[r].restored =>
          /\ rehearsal[r].pc \in AfterRestore
          /\ rehearsal[r].run \in filled
    /\ rehearsal[r].pc \in {"copied", "created", "restoring", "check"} \/ rehearsal[r].restored =>
          rehearsal[r].stamp \in local.dumps
    /\ rehearsal[r].pc \in {"remove", "unlock"} /\ ~rehearsal[r].blocked =>
          Gone(rehearsal[r].run)
    /\ rehearsal[r].pc = "unlock" /\ ~rehearsal[r].blocked => rehearsal[r].run \notin copies

\* A gc that is past the dump of a set has unlinked it.
DumpFirst ==
    \A p \in Procs :
        proc[p].pc \in {"unlink_sha", "unlink_manifest", "orphan_sha", "orphan_manifest"} =>
            First(proc[p].plan) \cap local.dumps = {}

RehearseInv ==
    RehearsalShape /\ RunsInv /\ DumpFirst /\ \A r \in Rehearsers : PlanInv(r) /\ DoneInv(r)

LEMMA DumpFirstStep ==
    ASSUME TypeInv, LockInv, DumpFirst, [Next]_vars
    PROVE  DumpFirst'
<1>t. Shape /\ local \in Files
  BY DEF TypeInv, Shape
<1> DEFINE Past == {"unlink_sha", "unlink_manifest", "orphan_sha", "orphan_manifest"}
<1>p. Past \subseteq Held
  BY DEF Held, GcSteps
<1>k. ASSUME local'.dumps \subseteq local.dumps,
             \A q \in Procs : proc'[q] = proc[q] \/ proc'[q].pc \notin Past
      PROVE  DumpFirst'
  BY <1>k DEF DumpFirst, First
<1>1. ASSUME NEW p \in Procs, LockToCreate(p) \/ LockToCollect(p) PROVE DumpFirst'
  <2>1. \A q \in Procs \ {p} : proc'[q] = proc[q]
    BY <1>1, <1>t, EndedType DEF LockToCreate, LockToCollect, TakeLock, Goto, Shape
  <2>2. proc'[p].pc \in {"locked", "listing", "idle", "raised"}
    BY <1>1, <1>t
    DEF LockToCreate, LockToCollect, TakeLock, Ended, Goto, Idle, Shape, Processes
  <2>3. local' = local
    BY <1>1 DEF LockToCreate, LockToCollect, disk
  <2> QED
    BY <1>k, <2>1, <2>2, <2>3
<1>2. ASSUME NEW p \in Procs, HeldStep(p) PROVE DumpFirst'
  <2>1. /\ \A q \in Procs \ {p} : proc'[q] = proc[q]
        /\ \A q \in Procs \ {p} : proc'[q].pc \notin Past
    <3>1. \A q \in Procs \ {p} : proc[q].pc \notin Held
      BY <1>2, HeldSteps, Alone
    <3> QED
      BY <1>2, <1>p, <3>1, HeldSteps
  <2>2. CASE StartDump(p) \/ PlaceDump(p) \/ WriteSha(p) \/ ListSurplus(p) \/ CollectOrphans(p)
    <3>1. proc'[p].pc \notin Past
      BY <1>t, <2>2
      DEF StartDump, PlaceDump, WriteSha, ListSurplus, CollectOrphans, Goto, Shape, Processes
    <3> QED
      BY <2>1, <3>1 DEF DumpFirst
  <2>3. CASE UnlinkDump(p)
    <3>1. PICK t \in First(proc[p].plan) : local' = [local EXCEPT !.dumps = @ \ {t}]
      BY <2>3 DEF UnlinkDump
    <3>2. proc'[p].plan = proc[p].plan /\ proc[p].plan \subseteq Int
      BY <1>t, <2>3 DEF UnlinkDump, Goto, Shape, Processes, Stamps
    <3>3. \A u \in First(proc[p].plan) : u = t
      BY <3>2 DEF First
    <3>4. t \notin local'.dumps
      BY <1>t, <3>1 DEF Files
    <3>5. First(proc'[p].plan) \cap local'.dumps = {}
      BY <3>2, <3>3, <3>4
    <3> QED
      BY <2>1, <3>5 DEF DumpFirst
  <2>4. CASE UnlinkSha(p)
    <3>1. proc'[p].plan = proc[p].plan /\ local'.dumps = local.dumps
      BY <1>t, <2>4 DEF UnlinkSha, Goto, Shape, Processes, Files
    <3>2. First(proc[p].plan) \cap local.dumps = {}
      BY <2>4 DEF UnlinkSha, DumpFirst
    <3>3. First(proc'[p].plan) \cap local'.dumps = {}
      BY <3>1, <3>2
    <3> QED
      BY <2>1, <3>3 DEF DumpFirst
  <2>5. CASE UnlinkManifest(p)
    <3>1. proc'[p].pc \notin Past
      BY <1>t, <2>5 DEF UnlinkManifest, Shape, Processes
    <3> QED
      BY <2>1, <3>1 DEF DumpFirst
  <2> QED
    BY <1>2, <2>2, <2>3, <2>4, <2>5 DEF HeldStep
<1>3. ASSUME NEW p \in Procs, LastStep(p) PROVE DumpFirst'
  <2>1. local'.dumps \subseteq local.dumps
    BY <1>3, <1>t
    DEF LastStep, DumpTimesOut, EmptyDump, WriteManifest, GcRaises, GcEnds, CreateRaises, disk,
        Files
  <2> QED
    BY <1>k, <1>3, <2>1, LastSteps
<1>4. ASSUME NEW p \in Procs, CreateRaises(p), proc[p].pc = "begin" PROVE DumpFirst'
  <2>1. local' = local /\ Ended(p, "raised")
    BY <1>4 DEF CreateRaises, disk
  <2> QED
    BY <1>k, <2>1, EndedType
<1>5. ASSUME NEW p \in Clis, CliCreate(p) \/ \E k \in Keeps : Gc(p, k) PROVE DumpFirst'
  <2>1. p \in Procs /\ local' = local
    BY <1>5 DEF CliCreate, Gc, Procs, disk
  <2>2. /\ \A q \in Procs \ {p} : proc'[q] = proc[q]
        /\ proc'[p].pc \in {"begin", "gc"}
    BY <1>5, <1>t, <2>1 DEF CliCreate, Gc, Begin, Shape
  <2> QED
    BY <1>k, <2>1, <2>2
<1>6. ASSUME NEW j \in Jobs, Submit(j) \/ Finish(j) PROVE DumpFirst'
  <2>1. j \in Procs /\ local' = local
    BY <1>6 DEF Submit, Finish, Procs, disk
  <2>2. /\ \A q \in Procs \ {j} : proc'[q] = proc[q]
        /\ proc'[j].pc \in {"begin", "idle"}
    BY <1>6, <1>t, <2>1 DEF Submit, Finish, Begin, Idle, Shape
  <2> QED
    BY <1>k, <2>1, <2>2
<1>7. CASE KillBackend \/ \E p \in Clis : KillCli(p)
  <2>1. local' = local /\ \A q \in Procs : proc'[q] = proc[q] \/ proc'[q].pc = "idle"
    BY <1>7 DEF KillBackend, KillCli, Killed, Idle, disk
  <2> QED
    BY <1>k, <2>1
<1>8. ASSUME NEW d \in server, DumpEnds(d) PROVE DumpFirst'
  <2>1. local' = local
    BY <1>8 DEF DumpEnds, disk
  <2>2. CASE UNCHANGED <<proc, lock>>
    BY <1>k, <2>1, <2>2
  <2>3. ASSUME NEW p \in Client(d), Goto(p, "dumped") PROVE DumpFirst'
    <3>1. p \in Procs /\ proc'[p].pc = "dumped" /\ \A q \in Procs \ {p} : proc'[q] = proc[q]
      BY <1>t, <2>3 DEF Client, Goto, Shape, Processes
    <3> QED
      BY <1>k, <2>1, <3>1
  <2>4. ASSUME NEW p \in Client(d), Unlock(p, "raised") PROVE DumpFirst'
    BY <1>k, <2>1, <2>4, EndedType DEF Client, Unlock
  <2> QED
    BY <1>8, <2>2, <2>3, <2>4 DEF DumpEnds
<1>9. CASE \/ \E d \in server : Connect(d)
           \/ \E j \in Jobs : Cancel(j)
           \/ Shutdown \/ Restart \/ MoveRole \/ UNCHANGED vars
  <2>1. UNCHANGED <<local, proc>>
    BY <1>9 DEF Connect, Cancel, Shutdown, Restart, MoveRole, vars, disk
  <2> QED
    BY <1>k, <2>1
<1>10. ASSUME NEW p \in Procs,
              \/ LockToCreate(p) \/ LockToCollect(p) \/ HeldStep(p) \/ LastStep(p)
              \/ CreateRaises(p) /\ proc[p].pc = "begin"
       PROVE  DumpFirst'
  BY <1>1, <1>2, <1>3, <1>4, <1>10
<1>11. CASE Next
  BY <1>11, StepKinds, <1>5, <1>6, <1>7, <1>8, <1>9, <1>10
<1> QED
  BY <1>9, <1>11

\* While a dump is there, its backup stays listed.
LEMMA DumpKeepsListed ==
    ASSUME TypeInv, SetInv, DumpFirst, [Next]_vars,
           NEW t \in local.manifests, t \in local'.dumps
    PROVE  t \in local'.manifests /\ madeFrom'[t] = madeFrom[t]
<1>t. local \in Files /\ madeFrom \in [Stamps -> Sources \cup {None}]
  BY DEF TypeInv, Shape
<1>1. ASSUME NEW p \in Procs, UnlinkManifest(p)
      PROVE  t \in local'.manifests /\ madeFrom'[t] = madeFrom[t]
  <2>1. PICK f \in First(proc[p].plan) :
          /\ local' = [local EXCEPT !.manifests = @ \ {f}]
          /\ madeFrom' = [madeFrom EXCEPT ![f] = None]
    BY <1>1 DEF UnlinkManifest
  <2>2. f \notin local.dumps
    BY <1>1 DEF UnlinkManifest, DumpFirst
  <2> QED
    BY <1>t, <2>1, <2>2 DEF Files
<1>2. ASSUME NEW p \in Procs, WriteManifest(p)
      PROVE  t \in local'.manifests /\ madeFrom'[t] = madeFrom[t]
  BY <1>2, <1>t DEF WriteManifest, SetInv, MakingInv, Making, Files
<1>3. ASSUME NEW p \in Procs,
             PlaceDump(p) \/ EmptyDump(p) \/ WriteSha(p) \/ UnlinkDump(p) \/ UnlinkSha(p)
      PROVE  t \in local'.manifests /\ madeFrom'[t] = madeFrom[t]
  BY <1>3, <1>t DEF PlaceDump, EmptyDump, WriteSha, UnlinkDump, UnlinkSha, Files
<1> QED
  BY <1>1, <1>2, <1>3, Writers

\* Whoever else has the role lock keeps the creates and the collections out.
LEMMA LockedOut ==
    ASSUME TypeInv, LockInv, [Next]_vars, lock \notin Procs \cup {None}
    PROVE  UNCHANGED <<lock, local, madeFrom>>
<1>1. \A p \in Procs : proc[p].pc \notin Held
  BY DEF LockInv
<1>2. UNCHANGED <<local, madeFrom>>
  BY <1>1, Writers, HeldSteps, LastSteps DEF HeldStep, LastStep
<1>3. ASSUME NEW p \in Procs,
             \/ LockToCreate(p) \/ LockToCollect(p) \/ HeldStep(p) \/ LastStep(p)
             \/ CreateRaises(p) /\ proc[p].pc = "begin"
      PROVE  UNCHANGED lock
  BY <1>1, <1>3, HeldSteps, LastSteps DEF LockToCreate, LockToCollect, TakeLock, CreateRaises
<1>4. CASE \E p \in Clis : CliCreate(p) \/ KillCli(p) \/ \E k \in Keeps : Gc(p, k)
  BY <1>2, <1>4 DEF CliCreate, KillCli, Killed, Gc, Procs
<1>5. ASSUME NEW d \in server, Connect(d) \/ DumpEnds(d) PROVE UNCHANGED lock
  BY <1>1, <1>5 DEF Connect, DumpEnds, Client, Held
<1>6. CASE \/ \E j \in Jobs : Submit(j) \/ Finish(j) \/ Cancel(j)
           \/ Shutdown \/ Restart \/ KillBackend \/ MoveRole \/ UNCHANGED vars
  BY <1>2, <1>6
  DEF Submit, Finish, Cancel, Shutdown, Restart, KillBackend, Killed, MoveRole, vars, Procs
<1> QED
  BY <1>2, <1>3, <1>4, <1>5, <1>6, StepKinds

\* Steps of the role leave a rehearsal what it has.
LEMMA RehearseKept ==
    ASSUME TypeInv, LockInv, SetInv, RehearseInv, [Next]_vars, UNCHANGED rehearsing
    PROVE  RehearseInv'
<1>u. UNCHANGED <<rehearsal, scratch, sessions, filled, copies, runs>>
  BY DEF rehearsing
<1>1. RehearsalShape' /\ RunsInv'
  BY <1>u DEF RehearseInv, RehearsalShape, RunsInv
<1>2. ASSUME NEW r \in Rehearsers PROVE PlanInv(r)'
  <2> SUFFICES ASSUME rehearsal[r].pc \notin Resting
               PROVE  /\ rehearsal[r].stamp \in Stamps /\ Settled(rehearsal[r].stamp)'
                      /\ rehearsal[r].src \in Sources
                      /\ rehearsal[r].stamp \in local'.dumps =>
                            rehearsal[r].stamp \in From(rehearsal[r].src)'
    BY <1>u DEF PlanInv, From, Settled
  <2> DEFINE t == rehearsal[r].stamp
  <2>1. /\ t \in Stamps /\ Settled(t) /\ rehearsal[r].src \in Sources
        /\ t \in local.dumps => t \in From(rehearsal[r].src)
    BY DEF RehearseInv, PlanInv
  <2> HIDE DEF t
  <2>2. Settled(t)'
    BY <2>1, SettledStays, <1>u DEF t
  <2>3. ASSUME t \in local'.dumps PROVE t \in From(rehearsal[r].src)'
    <3>1. t \in local.manifests /\ madeFrom[t] = rehearsal[r].src
      BY <2>1, <2>3, SettledFiles DEF From
    <3>2. t \in local'.manifests /\ madeFrom'[t] = madeFrom[t]
      BY <2>3, <3>1, DumpKeepsListed DEF RehearseInv
    <3> QED
      BY <1>u, <3>1, <3>2 DEF From, t
  <2> QED
    BY <1>u, <2>1, <2>2, <2>3 DEF t
<1>3. ASSUME NEW r \in Rehearsers PROVE DoneInv(r)'
  <2>1. DoneInv(r) /\ Gone(rehearsal[r].run)' = Gone(rehearsal[r].run)
    BY <1>u DEF RehearseInv, Gone
  <2>2. ASSUME rehearsal[r].pc \in Locked PROVE UNCHANGED <<lock, local>>
    <3>1. lock = r /\ lock \notin Procs \cup {None}
      BY <2>1, <2>2, RehearsersAssumption DEF DoneInv
    <3> QED
      BY <3>1, LockedOut
  <2>3. {"copied", "created", "restoring", "check"} \cup AfterRestore \subseteq Locked
    BY DEF AfterRestore, Locked
  <2> QED
    BY <1>u, <2>1, <2>2, <2>3 DEF DoneInv
<1> QED
  BY <1>1, <1>2, <1>3, DumpFirstStep DEF RehearseInv

\* A step of one rehearsal, which keeps to its own scratch database and copy.
LEMMA OneRehearses ==
    ASSUME RehearseInv, NEW r \in Rehearsers, rehearsal[r].pc \notin Resting,
           UNCHANGED <<disk, proc, runs>>, RehearsalShape',
           \A q \in Rehearsers \ {r} : rehearsal'[q] = rehearsal[q],
           rehearsal'[r].pc \notin Resting => rehearsal'[r].run = rehearsal[r].run
              /\ rehearsal'[r].stamp = rehearsal[r].stamp /\ rehearsal'[r].src = rehearsal[r].src,
           lock \notin {None, r} => lock' = lock, filled' = filled,
           \A n \in Nat \ {rehearsal[r].run} :
              (Gone(n) => Gone(n)') /\ (n \notin copies => n \notin copies'),
           DoneInv(r)'
    PROVE  RehearseInv'
<1>u. UNCHANGED <<local, madeFrom, clock>>
  BY DEF disk
<1>1. RunsInv'
  BY DEF RehearseInv, RunsInv
<1>2. DumpFirst'
  BY <1>u DEF RehearseInv, DumpFirst
<1>3. \A q \in Rehearsers : PlanInv(q)'
  <2>1. \A t : Settled(t)' <=> Settled(t)
    BY <1>u DEF Settled
  <2> SUFFICES ASSUME NEW q \in Rehearsers, rehearsal'[q].pc \notin Resting PROVE PlanInv(q)'
    BY DEF PlanInv
  <2>2. /\ rehearsal[q].pc \notin Resting
        /\ rehearsal'[q].stamp = rehearsal[q].stamp /\ rehearsal'[q].src = rehearsal[q].src
    OBVIOUS
  <2>3. PlanInv(q)
    BY DEF RehearseInv
  <2> QED
    BY <1>u, <2>2, <2>3 DEF PlanInv, From, Settled
<1>4. ASSUME NEW q \in Rehearsers \ {r} PROVE DoneInv(q)'
  <2>1. DoneInv(q) /\ q # None /\ rehearsal'[q] = rehearsal[q]
    BY RehearsersAssumption DEF RehearseInv
  <2>2. rehearsal[q].pc \in Locked => lock' = q
    BY <2>1 DEF DoneInv
  <2>3. rehearsal[q].pc \in Locked =>
           rehearsal[q].run \in Nat /\ rehearsal[q].run # rehearsal[r].run
    <3>1. rehearsal[q].pc \in Locked => rehearsal[q].pc \notin Resting
      BY DEF Locked, Resting
    <3> QED
      BY <3>1 DEF RehearseInv, RunsInv, RehearsalShape, Rehearsals
  <2>4. rehearsal[q].pc \in Locked =>
           /\ Gone(rehearsal[q].run) => Gone(rehearsal[q].run)'
           /\ rehearsal[q].run \notin copies => rehearsal[q].run \notin copies'
    BY <2>3
  <2>5. rehearsal[q].pc \in {"remove", "unlock"} => rehearsal[q].pc \in Locked
    BY DEF Locked
  <2>6. rehearsal[q].pc \in {"remove", "unlock"} /\ ~rehearsal[q].blocked =>
           Gone(rehearsal[q].run)'
    BY <2>1, <2>4, <2>5 DEF DoneInv
  <2> QED
    BY <1>u, <2>1, <2>2, <2>4, <2>5, <2>6 DEF DoneInv
<1> QED
  BY <1>1, <1>2, <1>3, <1>4 DEF RehearseInv

\* A step that leaves the rehearsals alone, and adds to nothing they have to clear away.
LEMMA ScratchShrinks ==
    ASSUME RehearseInv, UNCHANGED <<disk, proc, lock, rehearsal, runs, filled, copies>>,
           RehearsalShape', \A n \in Nat : Gone(n) => Gone(n)'
    PROVE  RehearseInv'
<1>u. UNCHANGED <<local, madeFrom, clock>>
  BY DEF disk
<1>1. RunsInv' /\ DumpFirst'
  BY <1>u DEF RehearseInv, RunsInv, DumpFirst
<1>2. ASSUME NEW q \in Rehearsers PROVE PlanInv(q)' /\ DoneInv(q)'
  <2>1. PlanInv(q) /\ DoneInv(q) /\ rehearsal[q].run \in Nat
    BY DEF RehearseInv, RehearsalShape, Rehearsals
  <2>2. PlanInv(q)'
    BY <1>u, <2>1 DEF PlanInv, From, Settled
  <2>3. Gone(rehearsal[q].run) => Gone(rehearsal[q].run)'
    BY <2>1
  <2> QED
    BY <1>u, <2>1, <2>2, <2>3 DEF DoneInv
<1> QED
  BY <1>1, <1>2 DEF RehearseInv

\* What a step that changes r's step, and marks it, leaves of r.
LEMMA OntoShape ==
    ASSUME RehearsalShape, NEW r \in Rehearsers, NEW step \in RehearsalSteps,
           NEW mark \in BOOLEAN,
           \/ rehearsal' = [rehearsal EXCEPT ![r].pc = step]
           \/ rehearsal' = [rehearsal EXCEPT ![r].pc = step, ![r].error = mark]
           \/ rehearsal' = [rehearsal EXCEPT ![r].pc = step, ![r].created = mark]
           \/ rehearsal' = [rehearsal EXCEPT ![r].pc = step, ![r].blocked = mark]
    PROVE  /\ rehearsal' \in [Rehearsers -> Rehearsals]
           /\ \A q \in Rehearsers \ {r} : rehearsal'[q] = rehearsal[q]
           /\ rehearsal'[r].pc = step
           /\ rehearsal'[r].run = rehearsal[r].run /\ rehearsal'[r].stamp = rehearsal[r].stamp
           /\ rehearsal'[r].src = rehearsal[r].src
           /\ rehearsal'[r].restored = rehearsal[r].restored
           /\ rehearsal' = [rehearsal EXCEPT ![r].pc = step] =>
                 rehearsal'[r].blocked = rehearsal[r].blocked
           /\ rehearsal' = [rehearsal EXCEPT ![r].pc = step, ![r].blocked = mark] =>
                 rehearsal'[r].blocked = mark
<1>t. rehearsal \in [Rehearsers -> Rehearsals] /\ rehearsal[r] \in Rehearsals
  BY DEF RehearsalShape
<1>1. /\ \/ rehearsal'[r] = [rehearsal[r] EXCEPT !.pc = step]
         \/ rehearsal'[r] = [rehearsal[r] EXCEPT !.pc = step, !.error = mark]
         \/ rehearsal'[r] = [rehearsal[r] EXCEPT !.pc = step, !.created = mark]
         \/ rehearsal'[r] = [rehearsal[r] EXCEPT !.pc = step, !.blocked = mark]
      /\ \A q \in Rehearsers \ {r} : rehearsal'[q] = rehearsal[q]
      /\ rehearsal' \in [Rehearsers -> Rehearsals] <=> rehearsal'[r] \in Rehearsals
  BY <1>t
<1>2. rehearsal'[r] \in Rehearsals
  BY <1>t, <1>1 DEF Rehearsals
<1>3. /\ rehearsal'[r].pc = step
      /\ rehearsal'[r].run = rehearsal[r].run /\ rehearsal'[r].stamp = rehearsal[r].stamp
      /\ rehearsal'[r].src = rehearsal[r].src
  BY <1>t, <1>1 DEF Rehearsals
<1>4. rehearsal'[r].restored = rehearsal[r].restored
  BY <1>t, <1>1 DEF Rehearsals
<1>5. ASSUME rehearsal' = [rehearsal EXCEPT ![r].pc = step]
      PROVE  rehearsal'[r].blocked = rehearsal[r].blocked
  <2>1. rehearsal'[r] = [rehearsal[r] EXCEPT !.pc = step]
    BY <1>t, <1>5
  <2> QED
    BY <1>t, <2>1 DEF Rehearsals
<1>6. ASSUME rehearsal' = [rehearsal EXCEPT ![r].pc = step, ![r].blocked = mark]
      PROVE  rehearsal'[r].blocked = mark
  <2>1. rehearsal'[r] = [rehearsal[r] EXCEPT !.pc = step, !.blocked = mark]
    BY <1>t, <1>6
  <2> QED
    BY <1>t, <2>1 DEF Rehearsals
<1> QED
  BY <1>1, <1>2, <1>3, <1>4, <1>5, <1>6

\* A new rehearsal has a scratch name of its own, and the backup it names is a listed one.
LEMMA PlanKeeps ==
    ASSUME TypeInv, SetInv, RehearseInv, NEW r \in Rehearsers, PlanRestore(r)
    PROVE  RehearseInv'
<1>u. UNCHANGED <<local, madeFrom, clock, source, proc, lock, scratch, sessions, filled,
                 copies>>
      /\ rehearsal[r].pc \in Resting
  BY DEF PlanRestore, vars, disk
<1>t. /\ RehearsalShape /\ RunsInv /\ DumpFirst /\ rehearsal[r] \in Rehearsals
      /\ \A q \in Rehearsers : PlanInv(q) /\ DoneInv(q)
  BY DEF RehearseInv, RehearsalShape
<1>d. DumpFirst'
  BY <1>t, <1>u DEF DumpFirst
<1>k. ASSUME NEW q \in Rehearsers, rehearsal'[q] = rehearsal[q] PROVE PlanInv(q)' /\ DoneInv(q)'
  <2>1. PlanInv(q)'
    BY <1>k, <1>t, <1>u DEF PlanInv, From, Settled
  <2>2. Gone(rehearsal[q].run)' = Gone(rehearsal[q].run)
    BY <1>k, <1>u DEF Gone
  <2>3. DoneInv(q)'
    BY <1>k, <1>t, <1>u, <2>2 DEF DoneInv
  <2> QED
    BY <2>1, <2>3
<1>1. PICK t \in local.manifests :
        \/ /\ madeFrom[t] = source /\ t \in local.dumps /\ runs' = runs + 1
           /\ rehearsal' = [rehearsal EXCEPT ![r] =
                [NoRehearsal EXCEPT !.pc = "planned", !.run = runs + 1, !.stamp = t,
                                    !.src = source]]
        \/ Onto(r, "unverified") /\ UNCHANGED runs
  BY DEF PlanRestore
<1>2. CASE /\ madeFrom[t] = source /\ t \in local.dumps /\ runs' = runs + 1
           /\ rehearsal' = [rehearsal EXCEPT ![r] =
                [NoRehearsal EXCEPT !.pc = "planned", !.run = runs + 1, !.stamp = t,
                                    !.src = source]]
  <2> DEFINE me == [NoRehearsal EXCEPT !.pc = "planned", !.run = runs + 1, !.stamp = t,
                                       !.src = source]
  <2>1. t \in Stamps /\ Settled(t) /\ source \in Sources
    BY ListedSettled DEF TypeInv, Shape
  <2>2. t \in 0 .. MaxStamp /\ runs + 1 \in Nat
    BY <1>t, <2>1 DEF Stamps, RehearsalShape
  <2>3. /\ me.pc = "planned" /\ me.run = runs + 1 /\ me.stamp = t /\ me.src = source
        /\ me.restored = FALSE /\ me.created = FALSE /\ me.blocked = FALSE /\ me.error = FALSE
        /\ me \in Rehearsals
    BY <2>1, <2>2 DEF NoRehearsal, Rehearsals, RehearsalSteps
  <2> HIDE DEF me
  <2>4. /\ rehearsal'[r] = me /\ rehearsal' \in [Rehearsers -> Rehearsals]
        /\ \A q \in Rehearsers \ {r} : rehearsal'[q] = rehearsal[q]
    BY <1>2, <1>t, <2>3 DEF me, RehearsalShape
  <2>5. RehearsalShape'
    BY <1>t, <1>u, <1>2, <2>2, <2>4 DEF RehearsalShape
  <2>6. RunsInv'
    <3>1. \A q \in Rehearsers \ {r} : rehearsal[q].pc \notin Resting =>
             rehearsal[q].run <= runs /\ rehearsal[q].run \in Nat
      BY <1>t DEF RunsInv, RehearsalShape, Rehearsals
    <3>2. runs \in Nat /\ runs' = runs + 1 /\ rehearsal'[r].run = runs + 1
      BY <1>t, <1>2, <2>3, <2>4 DEF RehearsalShape
    <3>3. \A q \in Rehearsers : rehearsal'[q].pc \notin Resting => rehearsal'[q].run <= runs'
      BY <2>4, <3>1, <3>2
    <3>4. ASSUME NEW p \in Rehearsers, NEW q \in Rehearsers, p # q,
                 rehearsal'[p].pc \notin Resting, rehearsal'[q].pc \notin Resting
          PROVE  rehearsal'[p].run # rehearsal'[q].run
      <4>1. CASE p # r /\ q # r
        BY <1>t, <2>4, <3>4, <4>1 DEF RunsInv
      <4>2. CASE p = r \/ q = r
        BY <2>4, <3>1, <3>2, <3>4, <4>2
      <4> QED
        BY <4>1, <4>2
    <3> QED
      BY <3>3, <3>4 DEF RunsInv
  <2>7. PlanInv(r)'
    <3>1. Settled(t)' /\ t \in From(source)'
      BY <1>2, <1>u, <2>1 DEF Settled, From
    <3>2. /\ rehearsal'[r].stamp = t /\ rehearsal'[r].src = source
      BY <2>3, <2>4
    <3> QED
      BY <1>u, <1>2, <2>1, <3>1, <3>2 DEF PlanInv, Settled, From
  <2>8. DoneInv(r)'
    BY <2>3, <2>4 DEF DoneInv, Locked
  <2> QED
    BY <1>d, <1>k, <2>4, <2>5, <2>6, <2>7, <2>8 DEF RehearseInv
<1>3. CASE Onto(r, "unverified") /\ UNCHANGED runs
  <2>1. /\ rehearsal' \in [Rehearsers -> Rehearsals] /\ rehearsal'[r].pc = "unverified"
        /\ rehearsal'[r].restored = rehearsal[r].restored
        /\ \A q \in Rehearsers \ {r} : rehearsal'[q] = rehearsal[q]
    <3>1. "unverified" \in RehearsalSteps
      BY DEF RehearsalSteps, Resting
    <3> QED
      BY <1>t, <1>3, <3>1 DEF Onto, RehearsalShape, Rehearsals
  <2>2. RehearsalShape' /\ RunsInv'
    BY <1>t, <1>u, <1>3, <2>1 DEF RehearsalShape, RunsInv, Resting
  <2>3. PlanInv(r)'
    BY <2>1 DEF PlanInv, Resting
  <2>4. ~rehearsal[r].restored
    BY <1>t, <1>u DEF DoneInv, AfterRestore, Resting
  <2>5. DoneInv(r)'
    BY <2>1, <2>4 DEF DoneInv, Locked
  <2> QED
    BY <1>d, <1>k, <2>1, <2>2, <2>3, <2>5 DEF RehearseInv
<1> QED
  BY <1>1, <1>2, <1>3

\* Up to the restore.
LEMMA BeforeKeeps ==
    ASSUME TypeInv, RehearseInv, NEW r \in Rehearsers,
           SweepStale(r) \/ LockToRehearse(r) \/ TooLittleSpace(r) \/ CopyIn(r)
    PROVE  RehearseInv'
<1>t. /\ RehearsalShape /\ rehearsal[r] \in Rehearsals /\ PlanInv(r) /\ DoneInv(r)
  BY DEF RehearseInv, RehearsalShape
<1>a. rehearsal[r].pc \in {"planned", "swept", "locked"}
  BY DEF SweepStale, LockToRehearse, TooLittleSpace, CopyIn
<1>b. rehearsal[r].pc \notin Resting /\ ~rehearsal[r].restored
  BY <1>a, <1>t DEF Resting, DoneInv, AfterRestore
<1>c. UNCHANGED <<disk, proc, runs, sessions, filled>>
  BY DEF SweepStale, LockToRehearse, TooLittleSpace, CopyIn, vars
<1>s. {"swept", "raised", "locked", "copied", "drop"} \subseteq RehearsalSteps
  BY DEF RehearsalSteps, Resting, Locked
<1>g. scratch' \subseteq scratch => \A n \in Nat : Gone(n) => Gone(n)'
  BY <1>c DEF Gone
<1>1. CASE SweepStale(r)
  <2>1. PICK step \in {"swept", "raised"} : rehearsal' = [rehearsal EXCEPT ![r].pc = step]
    BY <1>1 DEF SweepStale, Onto
  <2>2. scratch' \subseteq scratch /\ copies' = copies /\ lock' = lock
    BY <1>1 DEF SweepStale, Sweep, vars
  <2>3. /\ rehearsal' \in [Rehearsers -> Rehearsals] /\ rehearsal'[r].pc = step
        /\ \A q \in Rehearsers \ {r} : rehearsal'[q] = rehearsal[q]
        /\ rehearsal'[r].run = rehearsal[r].run /\ rehearsal'[r].stamp = rehearsal[r].stamp
        /\ rehearsal'[r].src = rehearsal[r].src
        /\ rehearsal'[r].restored = rehearsal[r].restored
    BY <1>s, <1>t, <2>1 DEF RehearsalShape, Rehearsals
  <2>4. RehearsalShape'
    BY <1>t, <1>c, <2>2, <2>3 DEF RehearsalShape
  <2>5. DoneInv(r)'
    BY <1>b, <2>3 DEF DoneInv, Locked
  <2> QED
    BY <1>b, <1>c, <1>g, <2>2, <2>3, <2>4, <2>5, OneRehearses
<1>2. CASE LockToRehearse(r) \/ TooLittleSpace(r)
  <2>1. PICK step \in {"locked", "raised"} :
           /\ rehearsal' = [rehearsal EXCEPT ![r].pc = step]
           /\ step = "locked" => lock' = r
           /\ lock \notin {None, r} => lock' = lock
    BY <1>2 DEF LockToRehearse, TooLittleSpace, Onto, Release
  <2>2. UNCHANGED <<scratch, copies>>
    BY <1>2 DEF LockToRehearse, TooLittleSpace
  <2>3. /\ rehearsal' \in [Rehearsers -> Rehearsals] /\ rehearsal'[r].pc = step
        /\ \A q \in Rehearsers \ {r} : rehearsal'[q] = rehearsal[q]
        /\ rehearsal'[r].run = rehearsal[r].run /\ rehearsal'[r].stamp = rehearsal[r].stamp
        /\ rehearsal'[r].src = rehearsal[r].src
        /\ rehearsal'[r].restored = rehearsal[r].restored
    BY <1>s, <1>t, <2>1 DEF RehearsalShape, Rehearsals
  <2>4. RehearsalShape'
    BY <1>t, <1>c, <2>2, <2>3 DEF RehearsalShape
  <2>5. DoneInv(r)'
    BY <1>b, <2>1, <2>3 DEF DoneInv, Locked
  <2> QED
    BY <1>b, <1>c, <1>g, <2>1, <2>2, <2>3, <2>4, <2>5, OneRehearses
<1>3. CASE CopyIn(r)
  <2>1. /\ copies' \subseteq copies \cup {rehearsal[r].run} /\ lock' = lock
        /\ scratch' = scratch /\ rehearsal[r].pc = "locked"
    BY <1>3 DEF CopyIn, vars
  <2>2. PICK step \in {"copied", "drop"} :
           /\ \/ rehearsal' = [rehearsal EXCEPT ![r].pc = step]
              \/ rehearsal' = [rehearsal EXCEPT ![r].pc = step, ![r].error = TRUE]
           /\ step = "copied" => rehearsal[r].stamp \in local.dumps
    BY <1>3 DEF CopyIn, Onto, Raised
  <2>3. /\ rehearsal' \in [Rehearsers -> Rehearsals] /\ rehearsal'[r].pc = step
        /\ \A q \in Rehearsers \ {r} : rehearsal'[q] = rehearsal[q]
        /\ rehearsal'[r].run = rehearsal[r].run /\ rehearsal'[r].stamp = rehearsal[r].stamp
        /\ rehearsal'[r].src = rehearsal[r].src
        /\ rehearsal'[r].restored = rehearsal[r].restored
    <3>1. step \in RehearsalSteps
      BY <1>s
    <3> QED
      BY <1>t, <2>2, <3>1, OntoShape
  <2>4. RehearsalShape'
    BY <1>t, <1>c, <2>1, <2>3 DEF RehearsalShape
  <2>5. DoneInv(r)'
    <3>1. lock = r
      BY <1>t, <2>1 DEF DoneInv, Locked
    <3> QED
      BY <1>b, <1>c, <2>1, <2>2, <2>3, <3>1 DEF DoneInv, Locked, disk
  <2> QED
    BY <1>b, <1>c, <1>g, <2>1, <2>3, <2>4, <2>5, OneRehearses
<1> QED
  BY <1>1, <1>2, <1>3

\* The restore, and the check of what it restored.
LEMMA RestoreKeeps ==
    ASSUME TypeInv, RehearseInv, NEW r \in Rehearsers,
           CreateScratch(r) \/ BeginRestore(r) \/ RestoreTimesOut(r) \/ CheckRestored(r)
    PROVE  RehearseInv'
<1>t. /\ RehearsalShape /\ rehearsal[r] \in Rehearsals /\ PlanInv(r) /\ DoneInv(r)
  BY DEF RehearseInv, RehearsalShape
<1>a. rehearsal[r].pc \in {"copied", "created", "restoring", "check"}
  BY DEF CreateScratch, BeginRestore, RestoreTimesOut, CheckRestored
<1>b. /\ rehearsal[r].pc \notin Resting /\ lock = r /\ rehearsal[r].stamp \in local.dumps
      /\ rehearsal[r].src \in Sources /\ rehearsal[r].run \in Nat
      /\ rehearsal[r].restored => rehearsal[r].pc = "check" /\ rehearsal[r].run \in filled
  BY <1>a, <1>t DEF Resting, DoneInv, AfterRestore, Locked, PlanInv, Rehearsals
<1>c. UNCHANGED <<disk, proc, lock, runs, filled, copies>>
  BY DEF CreateScratch, BeginRestore, RestoreTimesOut, CheckRestored, vars
<1>1. PICK step \in {"created", "restoring", "drop"}, mark \in BOOLEAN :
        \/ rehearsal' = [rehearsal EXCEPT ![r].pc = step]
        \/ rehearsal' = [rehearsal EXCEPT ![r].pc = step, ![r].error = mark]
        \/ rehearsal' = [rehearsal EXCEPT ![r].pc = step, ![r].created = mark]
        \/ rehearsal' = [rehearsal EXCEPT ![r].pc = step, ![r].blocked = mark]
  BY DEF CreateScratch, BeginRestore, RestoreTimesOut, CheckRestored, Onto, Raised
<1>2. /\ rehearsal' \in [Rehearsers -> Rehearsals] /\ rehearsal'[r].pc = step
      /\ \A q \in Rehearsers \ {r} : rehearsal'[q] = rehearsal[q]
      /\ rehearsal'[r].run = rehearsal[r].run /\ rehearsal'[r].stamp = rehearsal[r].stamp
      /\ rehearsal'[r].src = rehearsal[r].src
      /\ rehearsal'[r].restored = rehearsal[r].restored
  <2>1. step \in RehearsalSteps
    BY DEF RehearsalSteps, Locked
  <2> QED
    BY <1>t, <1>1, <2>1, OntoShape
<1>3. PICK mine \in [run : {rehearsal[r].run}, src : Sources, aged : BOOLEAN] :
        /\ scratch' \subseteq scratch \cup {mine}
        /\ sessions' \subseteq sessions \cup {rehearsal[r].run}
  <2> DEFINE new == [run |-> rehearsal[r].run, src |-> rehearsal[r].src, aged |-> FALSE]
  <2>1. new \in [run : {rehearsal[r].run}, src : Sources, aged : BOOLEAN]
    BY <1>b
  <2>2. scratch' \subseteq scratch \cup {new} /\ sessions' \subseteq sessions \cup {rehearsal[r].run}
    BY DEF CreateScratch, BeginRestore, RestoreTimesOut, CheckRestored
  <2> QED
    BY <2>1, <2>2
<1>4. \A n \in Nat \ {rehearsal[r].run} : Gone(n) => Gone(n)'
  BY <1>3 DEF Gone
<1>5. RehearsalShape'
  <2>1. mine \in [run : Nat, src : Sources, aged : BOOLEAN]
    BY <1>b, <1>3
  <2> QED
    BY <1>t, <1>c, <1>2, <1>3, <2>1 DEF RehearsalShape
<1>6. DoneInv(r)'
  <2>1. rehearsal'[r].restored => step = "drop"
    <3>1. rehearsal[r].pc = "check" => step = "drop"
      BY <1>t, <1>2 DEF CreateScratch, BeginRestore, RestoreTimesOut, CheckRestored, Raised,
         RehearsalShape, Rehearsals
    <3> QED
      BY <1>b, <1>2, <3>1
  <2> QED
    BY <1>b, <1>c, <1>2, <2>1 DEF DoneInv, AfterRestore, disk
<1> QED
  BY <1>b, <1>c, <1>2, <1>4, <1>5, <1>6, OneRehearses

\* The clean-up.
LEMMA CleanupKeeps ==
    ASSUME TypeInv, RehearseInv, NEW r \in Rehearsers,
           DropScratch(r) \/ ReadBack(r) \/ RemoveCopy(r)
    PROVE  RehearseInv'
<1>t. /\ RehearsalShape /\ rehearsal[r] \in Rehearsals /\ PlanInv(r) /\ DoneInv(r)
  BY DEF RehearseInv, RehearsalShape
<1>a. rehearsal[r].pc \in {"drop", "readback", "remove"}
  BY DEF DropScratch, ReadBack, RemoveCopy
<1>b. /\ rehearsal[r].pc \notin Resting /\ lock = r /\ rehearsal[r].run \in Nat
      /\ rehearsal[r].restored =>
            rehearsal[r].stamp \in local.dumps /\ rehearsal[r].run \in filled
  BY <1>a, <1>t DEF Resting, DoneInv, AfterRestore, Locked, Rehearsals
<1>c. UNCHANGED <<disk, proc, lock, runs, filled>>
      /\ scratch' \subseteq scratch /\ sessions' \subseteq sessions /\ copies' \subseteq copies
  BY DEF DropScratch, ReadBack, RemoveCopy, vars
<1>g. (\A n \in Nat : Gone(n) => Gone(n)') /\ (Gone(rehearsal[r].run) => \A n :
          n = rehearsal[r].run => Gone(n)')
  BY <1>c DEF Gone
<1>1. PICK step \in {"readback", "remove", "unlock"}, mark \in BOOLEAN :
        /\ \/ rehearsal' = [rehearsal EXCEPT ![r].pc = step] /\ mark = rehearsal[r].blocked
           \/ rehearsal' = [rehearsal EXCEPT ![r].pc = step, ![r].blocked = mark]
        /\ step = "remove" /\ ~mark => rehearsal[r].pc = "readback" /\ Gone(rehearsal[r].run)
        /\ step = "unlock" => rehearsal[r].pc = "remove"
        /\ step = "unlock" /\ ~mark => ~rehearsal[r].blocked /\ rehearsal[r].run \notin copies'
  <2>m. rehearsal[r].blocked \in BOOLEAN
    BY <1>t DEF Rehearsals
  <2>1. CASE DropScratch(r)
    BY <2>1, <2>m DEF DropScratch, Onto
  <2>2. CASE ReadBack(r)
    <3>1. PICK mark \in BOOLEAN :
            /\ rehearsal' = [rehearsal EXCEPT ![r].pc = "remove", ![r].blocked = mark]
            /\ ~mark => Gone(rehearsal[r].run)
      <4>1. CASE rehearsal' = [rehearsal EXCEPT ![r].pc = "remove", ![r].blocked = TRUE]
        BY <4>1
      <4>2. CASE rehearsal' = [rehearsal EXCEPT ![r].pc = "remove",
                                  ![r].blocked = @ \/ ~Gone(rehearsal[r].run)]
        <5> DEFINE found == rehearsal[r].blocked \/ ~Gone(rehearsal[r].run)
        <5>1. rehearsal' = [rehearsal EXCEPT ![r].pc = "remove", ![r].blocked = found]
          BY <1>t, <4>2 DEF RehearsalShape, Rehearsals
        <5>2. found \in BOOLEAN /\ (~found => Gone(rehearsal[r].run))
          BY <2>m DEF Gone
        <5> HIDE DEF found
        <5> QED
          BY <5>1, <5>2
      <4> QED
        BY <2>2, <4>1, <4>2 DEF ReadBack
    <3>2. rehearsal[r].pc = "readback"
      BY <2>2 DEF ReadBack
    <3> QED
      BY <3>1, <3>2
  <2>3. CASE RemoveCopy(r)
    BY <2>3, <2>m DEF RemoveCopy, Onto
  <2> QED
    BY <2>1, <2>2, <2>3
<1>2. /\ rehearsal' \in [Rehearsers -> Rehearsals] /\ rehearsal'[r].pc = step
      /\ \A q \in Rehearsers \ {r} : rehearsal'[q] = rehearsal[q]
      /\ rehearsal'[r].run = rehearsal[r].run /\ rehearsal'[r].stamp = rehearsal[r].stamp
      /\ rehearsal'[r].src = rehearsal[r].src
      /\ rehearsal'[r].restored = rehearsal[r].restored
      /\ rehearsal'[r].blocked = mark
  <2>1. step \in RehearsalSteps
    BY DEF RehearsalSteps, Locked
  <2> QED
    BY <1>t, <1>1, <2>1, OntoShape
<1>3. RehearsalShape'
  BY <1>t, <1>c, <1>2 DEF RehearsalShape
<1>4. DoneInv(r)'
  <2>1. rehearsal'[r].pc \in {"remove", "unlock"} /\ ~rehearsal'[r].blocked =>
           Gone(rehearsal[r].run)
    BY <1>t, <1>1, <1>2 DEF DoneInv
  <2>2. Gone(rehearsal[r].run) => Gone(rehearsal[r].run)'
    BY <1>b, <1>2, <1>c DEF Gone
  <2>3. rehearsal'[r].pc = "unlock" /\ ~rehearsal'[r].blocked => rehearsal'[r].run \notin copies'
    BY <1>1, <1>2
  <2> QED
    BY <1>b, <1>c, <1>1, <1>2, <2>1, <2>2, <2>3 DEF DoneInv, AfterRestore, disk
<1> QED
  BY <1>b, <1>c, <1>g, <1>2, <1>3, <1>4, OneRehearses

LEMMA NoRehearsalType ==
    /\ NoRehearsal \in Rehearsals
    /\ NoRehearsal.pc = "idle" /\ NoRehearsal.restored = FALSE
    /\ \A step \in Resting :
          LET me == [NoRehearsal EXCEPT !.pc = step] IN
          me \in Rehearsals /\ me.pc = step /\ me.restored = FALSE
<1>1. NoRehearsal \in Rehearsals
  <2>1. 0 \in 0 .. MaxStamp /\ 0 \in Nat /\ "idle" \in RehearsalSteps
    BY BoundAssumption DEF RehearsalSteps, Resting
  <2> QED
    BY <2>1 DEF NoRehearsal, Rehearsals
<1>2. NoRehearsal.pc = "idle" /\ NoRehearsal.restored = FALSE
  BY DEF NoRehearsal
<1>3. ASSUME NEW step \in Resting
      PROVE  LET me == [NoRehearsal EXCEPT !.pc = step] IN
             me \in Rehearsals /\ me.pc = step /\ me.restored = FALSE
  <2>1. step \in RehearsalSteps
    BY DEF RehearsalSteps
  <2> QED
    BY <1>1, <1>2, <2>1 DEF Rehearsals
<1> QED
  BY <1>1, <1>2, <1>3

\* The end of a rehearsal, of itself or by a kill.
LEMMA EndKeeps ==
    ASSUME TypeInv, RehearseInv, NEW r \in Rehearsers, EndRehearsal(r) \/ KillRehearser(r)
    PROVE  RehearseInv'
<1>t. RehearsalShape
  BY DEF RehearseInv
<1>a. rehearsal[r].pc \notin Resting
  BY DEF EndRehearsal, KillRehearser, Resting
<1>c. UNCHANGED <<disk, proc, runs, filled, scratch, sessions, copies>>
      /\ (lock \notin {None, r} => lock' = lock)
  BY DEF EndRehearsal, KillRehearser, Release
<1>1. PICK me \in Rehearsals :
         me.pc \in Resting /\ me.restored = FALSE /\ rehearsal' = [rehearsal EXCEPT ![r] = me]
  <2>1. CASE EndRehearsal(r)
    <3> DEFINE step == IF rehearsal[r].error THEN "raised"
                       ELSE IF rehearsal[r].restored /\ ~rehearsal[r].blocked THEN "verified"
                       ELSE "unverified"
    <3>1. step \in Resting
      BY DEF Resting
    <3>2. rehearsal' = [rehearsal EXCEPT ![r] = [NoRehearsal EXCEPT !.pc = step]]
      BY <2>1 DEF EndRehearsal
    <3> HIDE DEF step
    <3> QED
      BY <3>1, <3>2, NoRehearsalType
  <2>2. CASE KillRehearser(r)
    BY <2>2, NoRehearsalType DEF KillRehearser, Resting
  <2> QED
    BY <2>1, <2>2
<1>2. /\ rehearsal' \in [Rehearsers -> Rehearsals]
      /\ rehearsal'[r].pc \in Resting /\ rehearsal'[r].restored = FALSE
      /\ \A q \in Rehearsers \ {r} : rehearsal'[q] = rehearsal[q]
  BY <1>t, <1>1 DEF RehearsalShape
<1>3. RehearsalShape'
  BY <1>t, <1>c, <1>2 DEF RehearsalShape
<1>4. DoneInv(r)'
  BY <1>2 DEF DoneInv, Locked, Resting
<1>5. \A n : Gone(n) => Gone(n)'
  BY <1>c DEF Gone
<1> QED
  BY <1>a, <1>c, <1>2, <1>3, <1>4, <1>5, OneRehearses

\* A pg_restore ends, for the rehearsal that waits for it.
LEMMA RestoreEndsKeeps ==
    ASSUME TypeInv, RehearseInv, NEW n \in sessions, RestoreEnds(n)
    PROVE  RehearseInv'
<1>t. /\ RehearsalShape /\ RunsInv /\ DumpFirst
      /\ \A r \in Rehearsers : PlanInv(r) /\ DoneInv(r)
  BY DEF RehearseInv
<1>c. UNCHANGED <<local, madeFrom, clock, proc, lock, runs, scratch, copies>>
      /\ sessions' = sessions \ {n}
  BY DEF RestoreEnds, vars, disk
<1>1. PICK whole \in BOOLEAN :
        /\ filled' = IF whole THEN filled \cup {n} ELSE filled
        /\ rehearsal' = [r \in Rehearsers |->
             IF rehearsal[r].run # n \/ rehearsal[r].pc # "restoring" THEN rehearsal[r]
             ELSE IF whole
                  THEN [rehearsal[r] EXCEPT !.pc = "check", !.restored = TRUE]
                  ELSE [rehearsal[r] EXCEPT !.pc = "drop", !.blocked = TRUE]]
  BY DEF RestoreEnds
<1>2. ASSUME NEW r \in Rehearsers
      PROVE  \/ rehearsal'[r] = rehearsal[r]
             \/ /\ rehearsal[r].run = n /\ rehearsal[r].pc = "restoring"
                /\ rehearsal'[r] \in Rehearsals
                /\ rehearsal'[r].run = n /\ rehearsal'[r].stamp = rehearsal[r].stamp
                /\ rehearsal'[r].src = rehearsal[r].src
                /\ rehearsal'[r].pc \in {"check", "drop"}
                /\ rehearsal'[r].restored => n \in filled'
  <2>1. rehearsal[r] \in Rehearsals /\ DoneInv(r)
    BY <1>t DEF RehearsalShape
  <2>2. CASE rehearsal[r].run # n \/ rehearsal[r].pc # "restoring"
    BY <1>1, <2>2
  <2>s. "check" \in RehearsalSteps /\ "drop" \in RehearsalSteps
    BY DEF RehearsalSteps, Locked
  <2>3. CASE rehearsal[r].run = n /\ rehearsal[r].pc = "restoring" /\ whole
    <3>1. rehearsal'[r] = [rehearsal[r] EXCEPT !.pc = "check", !.restored = TRUE]
          /\ n \in filled'
      BY <1>1, <2>3
    <3>2. rehearsal'[r] \in Rehearsals /\ rehearsal'[r].pc = "check"
      BY <2>1, <2>s, <3>1 DEF Rehearsals
    <3>3. rehearsal'[r].run = n /\ rehearsal'[r].stamp = rehearsal[r].stamp
          /\ rehearsal'[r].src = rehearsal[r].src
      BY <2>1, <2>3, <3>1 DEF Rehearsals
    <3> QED
      BY <2>3, <3>1, <3>2, <3>3
  <2>4. CASE rehearsal[r].run = n /\ rehearsal[r].pc = "restoring" /\ ~whole
    <3>1. rehearsal'[r] = [rehearsal[r] EXCEPT !.pc = "drop", !.blocked = TRUE]
      BY <1>1, <2>4
    <3>2. rehearsal'[r] \in Rehearsals /\ rehearsal'[r].pc = "drop"
      BY <2>1, <2>s, <3>1 DEF Rehearsals
    <3>3. rehearsal'[r].run = n /\ rehearsal'[r].stamp = rehearsal[r].stamp
          /\ rehearsal'[r].src = rehearsal[r].src
          /\ rehearsal'[r].restored = rehearsal[r].restored
      BY <2>1, <2>4, <3>1 DEF Rehearsals
    <3>4. ~rehearsal[r].restored
      BY <2>1, <2>4 DEF DoneInv, AfterRestore
    <3> QED
      BY <2>4, <3>2, <3>3, <3>4
  <2> QED
    BY <2>2, <2>3, <2>4
<1>r. "restoring" \notin Resting /\ "check" \notin Resting /\ "drop" \notin Resting
      /\ "restoring" \in Locked
  BY DEF Resting, Locked
<1>3. RehearsalShape'
  <2>1. rehearsal' \in [Rehearsers -> Rehearsals]
    BY <1>t, <1>1, <1>2 DEF RehearsalShape
  <2> QED
    BY <1>t, <1>c, <2>1 DEF RehearsalShape
<1>4. RunsInv'
  <2>1. \A r \in Rehearsers : rehearsal'[r].run = rehearsal[r].run
           /\ (rehearsal'[r].pc \notin Resting => rehearsal[r].pc \notin Resting)
    BY <1>2, <1>r
  <2> QED
    BY <1>t, <1>c, <2>1 DEF RunsInv
<1>5. DumpFirst'
  BY <1>t, <1>c DEF DumpFirst
<1>6. ASSUME NEW r \in Rehearsers PROVE PlanInv(r)'
  BY <1>t, <1>c, <1>2, <1>r DEF PlanInv, From, Settled
<1>7. ASSUME NEW r \in Rehearsers PROVE DoneInv(r)'
  <2>1. CASE rehearsal'[r] = rehearsal[r]
    <3>1. Gone(rehearsal[r].run) => Gone(rehearsal[r].run)'
      BY <1>c, <2>1 DEF Gone
    <3>2. filled \subseteq filled'
      BY <1>1
    <3> QED
      BY <1>t, <1>c, <2>1, <3>1, <3>2 DEF DoneInv
  <2>2. CASE rehearsal'[r] # rehearsal[r]
    <3>1. lock = r /\ rehearsal[r].stamp \in local.dumps
      BY <1>2, <1>r, <1>t, <2>2 DEF DoneInv
    <3>2. /\ rehearsal'[r].run = n /\ rehearsal'[r].stamp = rehearsal[r].stamp
          /\ rehearsal'[r].pc \in {"check", "drop"} /\ (rehearsal'[r].restored => n \in filled')
      BY <1>2, <2>2
    <3> QED
      BY <1>c, <3>1, <3>2 DEF DoneInv, AfterRestore
  <2> QED
    BY <2>1, <2>2
<1> QED
  BY <1>3, <1>4, <1>5, <1>6, <1>7 DEF RehearseInv

LEMMA RehearseHolds == RecoverySpec => []RehearseInv
<1>1. RecoveryInit => RehearseInv
  <2> SUFFICES ASSUME RecoveryInit PROVE RehearseInv
    OBVIOUS
  <2>1. RehearsalShape /\ \A r \in Rehearsers : rehearsal[r] = NoRehearsal
    BY NoRehearsalType DEF RecoveryInit, RehearsalShape
  <2>2. RunsInv /\ \A r \in Rehearsers : PlanInv(r) /\ DoneInv(r)
    BY <2>1, NoRehearsalType DEF RunsInv, PlanInv, DoneInv, Resting, Locked
  <2>3. DumpFirst
    BY DEF RecoveryInit, Init, DumpFirst, Idle
  <2> QED
    BY <2>1, <2>2, <2>3 DEF RehearseInv
<1>2. RoleInv /\ RehearseInv /\ [RecoveryNext]_recoveryVars => RehearseInv'
  <2> SUFFICES ASSUME RoleInv, RehearseInv, [RecoveryNext]_recoveryVars PROVE RehearseInv'
    OBVIOUS
  <2>t. TypeInv /\ LockInv /\ SetInv
    BY DEF RoleInv
  <2>1. CASE (Next /\ UNCHANGED <<copying, rehearsing>>) \/ UNCHANGED recoveryVars
    <3>1. [Next]_vars /\ UNCHANGED rehearsing
      BY <2>1 DEF recoveryVars
    <3> QED
      BY <2>t, <3>1, RehearseKept
  <2>2. CASE CopyStep
    <3>1. UNCHANGED <<rehearsing, lock>>
      BY <2>2
      DEF CopyStep, SyncBegins, LookAtName, ReadChecksum, RsyncLists, RsyncSends, VerifyRemote,
          SyncFails, WriteSyncStatus, KillCopier, vars
    <3>2. UNCHANGED <<disk, proc>>
      BY <2>t, <2>2, OthersBeside DEF Beside
    <3>3. UNCHANGED <<rehearsal, scratch, sessions, filled, copies, runs>>
      BY <3>1 DEF rehearsing
    <3>4. RehearsalShape' /\ \A n \in Nat : Gone(n) => Gone(n)'
      BY <3>3 DEF RehearseInv, RehearsalShape, Gone
    <3> QED
      BY <3>1, <3>2, <3>3, <3>4, ScratchShrinks
  <2>3. ASSUME NEW r \in Rehearsers, RehearsalStep(r) PROVE RehearseInv'
    BY <2>t, <2>3, PlanKeeps, BeforeKeeps, RestoreKeeps, CleanupKeeps, EndKeeps
    DEF RehearsalStep
  <2>4. ASSUME NEW n \in sessions, RestoreEnds(n) PROVE RehearseInv'
    BY <2>t, <2>4, RestoreEndsKeeps
  <2>5. ASSUME NEW d \in scratch, Age(d) PROVE RehearseInv'
    <3>1. UNCHANGED <<disk, proc, lock, rehearsal, runs, filled, copies, sessions>>
      BY <2>5 DEF Age, vars
    <3> DEFINE old == [d EXCEPT !.aged = TRUE]
    <3>2. /\ scratch' = (scratch \ {d}) \cup {old} /\ old.run = d.run
          /\ old \in [run : Nat, src : Sources, aged : BOOLEAN]
      BY <2>5 DEF Age, RehearseInv, RehearsalShape
    <3> HIDE DEF old
    <3>3. RehearsalShape' /\ \A n \in Nat : Gone(n) => Gone(n)'
      BY <3>1, <3>2 DEF RehearseInv, RehearsalShape, Gone
    <3> QED
      BY <3>1, <3>3, ScratchShrinks
  <2>6. ASSUME NEW s \in Sources, OtherRoleSweeps(s) PROVE RehearseInv'
    <3>1. UNCHANGED <<disk, proc, lock, rehearsal, runs, filled, copies, sessions>>
          /\ scratch' \subseteq scratch
      BY <2>6 DEF OtherRoleSweeps, Sweep, vars
    <3>2. RehearsalShape' /\ \A n \in Nat : Gone(n) => Gone(n)'
      BY <3>1 DEF RehearseInv, RehearsalShape, Gone
    <3> QED
      BY <3>1, <3>2, ScratchShrinks
  <2> QED
    BY <2>1, <2>2, <2>3, <2>4, <2>5, <2>6 DEF RecoveryNext
<1> QED
  BY <1>1, <1>2, RoleHolds, PTL DEF RecoverySpec

\* Only the end of a rehearsal reports it as verified.
LEMMA WhoVerifies ==
    ASSUME RehearseInv, [RecoveryNext]_recoveryVars, NEW r \in Rehearsers,
           rehearsal[r].pc # "verified", rehearsal'[r].pc = "verified"
    PROVE  EndRehearsal(r)
<1>t. RehearsalShape
  BY DEF RehearseInv
<1>1. CASE \/ Next /\ UNCHANGED <<copying, rehearsing>>
           \/ UNCHANGED recoveryVars \/ CopyStep
           \/ \E d \in scratch : Age(d)
           \/ \E s \in Sources : OtherRoleSweeps(s)
  <2>1. UNCHANGED rehearsal
    BY <1>1
    DEF recoveryVars, rehearsing, CopyStep, SyncBegins, LookAtName, ReadChecksum, RsyncLists,
        RsyncSends, VerifyRemote, SyncFails, WriteSyncStatus, KillCopier, Age, OtherRoleSweeps
  <2> QED
    BY <2>1
<1>2. ASSUME NEW n \in sessions, RestoreEnds(n) PROVE FALSE
  BY <1>2, <1>t DEF RestoreEnds, RehearsalShape, Rehearsals
<1>3. ASSUME NEW q \in Rehearsers, q # r, RehearsalStep(q) PROVE FALSE
  <2>1. PICK me : rehearsal' = [rehearsal EXCEPT ![q] = me] \/ rehearsal' = rehearsal
    <3>1. CASE PlanRestore(q) \/ SweepStale(q) \/ LockToRehearse(q) \/ TooLittleSpace(q)
      BY <1>3, <3>1
      DEF PlanRestore, SweepStale, LockToRehearse, TooLittleSpace, Onto
    <3>2. CASE CopyIn(q) \/ CreateScratch(q) \/ BeginRestore(q) \/ RestoreTimesOut(q)
      BY <1>3, <3>2
      DEF CopyIn, CreateScratch, BeginRestore, RestoreTimesOut, Onto, Raised
    <3>3. CASE CheckRestored(q) \/ DropScratch(q) \/ ReadBack(q) \/ RemoveCopy(q)
      BY <1>3, <3>3
      DEF CheckRestored, DropScratch, ReadBack, RemoveCopy, Onto, Raised
    <3>4. CASE EndRehearsal(q) \/ KillRehearser(q)
      BY <3>4 DEF EndRehearsal, KillRehearser
    <3> QED
      BY <1>3, <3>1, <3>2, <3>3, <3>4 DEF RehearsalStep
  <2> QED
    BY <1>3, <1>t, <2>1 DEF RehearsalShape
<1>4. ASSUME PlanRestore(r) PROVE FALSE
  BY <1>4, <1>t DEF PlanRestore, NoRehearsal, Onto, RehearsalShape, Rehearsals
<1>5. ASSUME \/ SweepStale(r) \/ LockToRehearse(r) \/ TooLittleSpace(r) \/ CopyIn(r)
             \/ CreateScratch(r) \/ BeginRestore(r)
      PROVE  FALSE
  BY <1>5, <1>t
  DEF SweepStale, LockToRehearse, TooLittleSpace, CopyIn, CreateScratch, BeginRestore, Onto,
      Raised, RehearsalShape, Rehearsals
<1>6. ASSUME \/ RestoreTimesOut(r) \/ CheckRestored(r) \/ DropScratch(r) \/ ReadBack(r)
             \/ RemoveCopy(r) \/ KillRehearser(r)
      PROVE  FALSE
  BY <1>6, <1>t
  DEF RestoreTimesOut, CheckRestored, DropScratch, ReadBack, RemoveCopy, KillRehearser, Onto,
      Raised, NoRehearsal, RehearsalShape, Rehearsals
<1> QED
  BY <1>1, <1>2, <1>3, <1>4, <1>5, <1>6 DEF RecoveryNext, RehearsalStep

\* A rehearsal that reports its backup as verified has restored it to the end into its own
\* database, the backup is still there, and nothing of the rehearsal is left behind.
THEOREM VerifiedRehearsal == RecoverySpec => VerifiedRehearsalIsTrue
<1> DEFINE Truth ==
      \A r \in Rehearsers :
          rehearsal[r].pc # "verified" /\ rehearsal'[r].pc = "verified" =>
             /\ rehearsal[r].run \in filled /\ Gone(rehearsal[r].run)
             /\ rehearsal[r].run \notin copies
             /\ rehearsal[r].stamp \in local.dumps
             /\ madeFrom[rehearsal[r].stamp] = rehearsal[r].src
<1>1. RehearseInv /\ [RecoveryNext]_recoveryVars => [Truth]_recoveryVars
  <2> SUFFICES ASSUME RehearseInv, [RecoveryNext]_recoveryVars, NEW r \in Rehearsers,
                      rehearsal[r].pc # "verified", rehearsal'[r].pc = "verified"
               PROVE  /\ rehearsal[r].run \in filled /\ Gone(rehearsal[r].run)
                      /\ rehearsal[r].run \notin copies
                      /\ rehearsal[r].stamp \in local.dumps
                      /\ madeFrom[rehearsal[r].stamp] = rehearsal[r].src
    OBVIOUS
  <2>1. EndRehearsal(r)
    BY WhoVerifies
  <2>2. PlanInv(r) /\ DoneInv(r)
    BY DEF RehearseInv
  <2>3. rehearsal[r].pc = "unlock" /\ rehearsal[r].restored /\ ~rehearsal[r].blocked
    <3>1. rehearsal'[r].pc = IF rehearsal[r].error THEN "raised"
             ELSE IF rehearsal[r].restored /\ ~rehearsal[r].blocked THEN "verified"
             ELSE "unverified"
      BY <2>1 DEF EndRehearsal, RehearseInv, RehearsalShape, NoRehearsal
    <3> QED
      BY <2>1, <3>1 DEF EndRehearsal
  <2>4. rehearsal[r].stamp \in local.dumps /\ rehearsal[r].pc \notin Resting
    BY <2>2, <2>3 DEF DoneInv, Resting
  <2> QED
    BY <2>2, <2>3, <2>4 DEF PlanInv, DoneInv, From
<1> QED
  BY <1>1, RehearseHolds, PTL DEF RecoverySpec, VerifiedRehearsalIsTrue

=============================================================================
