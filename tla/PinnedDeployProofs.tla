------------------------ MODULE PinnedDeployProofs ------------------------
(***************************************************************************)
(* Proofs about PinnedDeploy, for every set of pairs, builds and identities*)
(* and every bound.  The invariant is built in layers: types, then what the*)
(* record says of the reset (RecordInv), then what may still run (QuietInv)*)
(* and, when no operator works during a deploy, which databases a deploy   *)
(* changes (BaselineInv) and what it has brought up so far (DeployedInv).  *)
(***************************************************************************)
EXTENDS PinnedDeploy, TLAPS

\* The pieces of the next-state relation, one disjunct per action.
LEMMA NextCases ==
    ASSUME Next
    PROVE  \/ \E m \in Modes : Start(m)
           \/ Judge \/ Converge \/ Begin \/ Stop \/ Retire \/ Reconcile \/ ReconcileRmdir
           \/ DropMap \/ DropPinvi \/ RecreatePinvi \/ MarkReset \/ CreatePinvi \/ EnsureMap
           \/ RunMapSchema \/ RequireHead \/ ComposeUp \/ CreateCredential \/ RunPinviBootstrap
           \/ CleanupCredential \/ Commit \/ OneShot \/ Fail \/ Crash
           \/ ChangeRelease \/ SwapDatabase
BY DEF Next, Advance

-----------------------------------------------------------------------------
\* What is observed is an identity per role, whatever the databases are.
LEMMA ObservedType ==
    ASSUME TypeOK
    PROVE  Observed \in [Roles -> Ids \cup {0}]
<1>1. \A r \in Roles : db[r].id \in Ids \cup {0}
  BY DEF TypeOK, Database
<1> QED
  BY <1>1 DEF Observed, NoBaseline

\* begin_deploy makes a well-formed record of a well-formed one.
LEMMA BeginDeployType ==
    ASSUME NEW previous \in Status, NEW c \in Images, NEW m \in Modes,
           NEW o \in [Roles -> Ids \cup {0}]
    PROVE  BeginDeploy(previous, c, m, o) \in Status
BY DEF BeginDeploy, Status, Images

\* commit_deploy makes a well-formed record of a well-formed one.
LEMMA CommitDeployType ==
    ASSUME NEW s \in Status, NEW c \in Images, NEW o \in [Roles -> Ids \cup {0}]
    PROVE  CommitDeploy(s, c, o) \in Status
BY DEF CommitDeploy, Status, Images

\* The two databases are known by their role names.
LEMMA RoleNames == "map_application" \in Roles /\ "pinvi" \in Roles
BY DEF Roles

\* Replacing one database by another keeps the shape of db.
LEMMA DatabaseUpdate ==
    ASSUME db \in [Roles -> Database], NEW r \in Roles, NEW d \in Database
    PROVE  [db EXCEPT ![r] = d] \in [Roles -> Database]
OBVIOUS

\* A dropped and a recreated PinVi database are databases.
LEMMA DatabaseValues ==
    /\ NoDatabase \in Database
    /\ \A i \in Ids, h \in Nat, b \in BOOLEAN :
          [id |-> i, head |-> h, bootstrapped |-> b] \in Database
BY DEF NoDatabase, Database

\* A created database: an empty schema, for Map without its schema owner yet.
LEMMA CreatedDatabase ==
    \A i \in Ids : /\ [id |-> i, head |-> 0, bootstrapped |-> TRUE] \in Database
                   /\ [id |-> i, head |-> 0, bootstrapped |-> FALSE] \in Database
BY DEF Database

\* A one-shot's work keeps the shape of db.
LEMMA WorkType ==
    ASSUME db \in [Roles -> Database], NEW c, c.kind \in Kinds, c.pair \in Pairs
    PROVE  Work(c) \in [Roles -> Database]
<1>1. \A r \in Roles, h \in Nat :
         /\ [db[r] EXCEPT !.head = h] \in Database
         /\ [db[r] EXCEPT !.bootstrapped = TRUE] \in Database
  BY DEF Database
<1>2. /\ "map_application" \in Roles /\ "pinvi" \in Roles
      /\ Head["map_application"][c.pair] \in Nat /\ Head["pinvi"][c.pair] \in Nat
  BY HeadAssumption DEF Roles
<1>3. CASE c.kind = "role_bootstrap"
  BY <1>1, <1>2, <1>3 DEF Work
<1>4. CASE c.kind = "map_schema"
  BY <1>1, <1>2, <1>4 DEF Work
<1>5. CASE c.kind = "pinvi_bootstrap"
  BY <1>1, <1>2, <1>5 DEF Work
<1> QED
  BY <1>3, <1>4, <1>5 DEF Kinds

\* What the end of a one-shot container can change: one container fewer, the work
\* it did on its database, and the step of the process that waited for it.
LEMMA OneShotEffect ==
    ASSUME TypeOK, OneShot
    PROVE  /\ UNCHANGED <<release, status, up, cred, wiped, mode, cand, swaps, releases>>
           /\ \E c \in oneshots :
                /\ oneshots' = oneshots \ {c}
                /\ db' = db \/ db' = Work(c)
           /\ \/ pc' = pc
              \/ pc = "await_role_bootstrap" /\ pc' \in {"map_schema", "cleanup_stop"}
              \/ pc = "await_map_schema" /\ pc' \in {"map_head", "cleanup_stop"}
              \/ pc = "await_pinvi_bootstrap" /\ pc' \in {"unlink_ok", "unlink_err"}
<1>1. PICK c \in oneshots :
        /\ oneshots' = oneshots \ {c}
        /\ \/ db' = Work(c) /\ Exit(c, OnSuccess(c.kind))
           \/ UNCHANGED db /\ Exit(c, OnFailure(c.kind))
           \/ UNCHANGED db /\ Exit(c, OnSuccess(c.kind))
        /\ UNCHANGED <<release, status, up, cred, wiped, swaps, releases>>
  BY DEF OneShot
<1>2. c.kind \in Kinds
  BY DEF TypeOK
<1>3. /\ UNCHANGED <<mode, cand>>
      /\ \/ pc' = pc
         \/ pc = "await_role_bootstrap" /\ pc' \in {"map_schema", "cleanup_stop"}
         \/ pc = "await_map_schema" /\ pc' \in {"map_head", "cleanup_stop"}
         \/ pc = "await_pinvi_bootstrap" /\ pc' \in {"unlink_ok", "unlink_err"}
  <2>1. CASE c.kind = "role_bootstrap"
    BY <1>1, <2>1 DEF Exit, OnSuccess, OnFailure, Waits, Goto, local
  <2>2. CASE c.kind = "map_schema"
    BY <1>1, <2>2 DEF Exit, OnSuccess, OnFailure, Waits, Goto, local
  <2>3. CASE c.kind = "pinvi_bootstrap"
    BY <1>1, <2>3 DEF Exit, OnSuccess, OnFailure, Waits, Goto, local
  <2> QED
    BY <1>2, <2>1, <2>2, <2>3 DEF Kinds
<1> QED
  BY <1>1, <1>3

\* Every action keeps the shape of the state.
THEOREM TypeCorrect == Spec => []TypeOK
<1>1. Init => TypeOK
  <2>1. NoFile \in Status
    BY DEF NoFile, Status, NoBaseline
  <2>2. [r \in Roles |-> NoDatabase] \in [Roles -> Database]
    BY DatabaseValues
  <2>3. AllDown \in [Services -> Images \cup {Down}]
    BY DEF AllDown
  <2>4. 0 \in 0 .. MaxFaults /\ 0 \in 0 .. MaxSwaps /\ 0 \in 0 .. MaxReleases
    BY BoundsAssumption
  <2>5. "idle" \in Steps /\ "plain" \in Modes
    BY DEF Steps, Modes
  <2> QED
    BY <2>1, <2>2, <2>3, <2>4, <2>5 DEF Init, TypeOK
<1>2. TypeOK /\ [Next]_vars => TypeOK'
  <2> SUFFICES ASSUME TypeOK, [Next]_vars PROVE TypeOK'
    OBVIOUS
  <2> USE DEF TypeOK, world, local, budget, Finish, Goto
  <2>1. ASSUME NEW m \in Modes, Start(m) PROVE TypeOK'
    BY <2>1 DEF Start, Steps, EarlySteps
  <2>2. CASE Judge
    BY <2>2 DEF Judge, Steps, EarlySteps, Modes
  <2>3. CASE Converge
    BY <2>3 DEF Converge, Steps, Modes
  <2>4. CASE Begin
    BY <2>4, ObservedType, BeginDeployType DEF Begin, Steps, ForwardSteps
  <2>5. CASE Stop
    BY <2>5 DEF Stop, Steps, ForwardSteps, CleanupSteps, AllDown
  <2>6. CASE Retire
    BY <2>6 DEF Retire, Steps, ForwardSteps, CleanupSteps
  <2>7. CASE Reconcile
    BY <2>7 DEF Reconcile, AfterReconcile, Steps, ForwardSteps, CleanupSteps, Modes
  <2>8. CASE ReconcileRmdir
    BY <2>8 DEF ReconcileRmdir, AfterReconcile, Steps, ForwardSteps, Modes
  <2>9. CASE DropMap
    BY <2>9, DatabaseUpdate, DatabaseValues, RoleNames DEF DropMap, Steps, ForwardSteps
  <2>10. CASE DropPinvi
    BY <2>10, DatabaseUpdate, DatabaseValues, RoleNames DEF DropPinvi, Steps, ForwardSteps
  <2>11. CASE RecreatePinvi
    <3>1. \E i \in Ids :
             db' = [db EXCEPT !["pinvi"] = [id |-> i, head |-> 0, bootstrapped |-> TRUE]]
      BY <2>11 DEF RecreatePinvi, Fresh
    <3>2. db' \in [Roles -> Database]
      BY <3>1, CreatedDatabase, DatabaseUpdate, RoleNames
    <3> QED
      BY <2>11, <3>2 DEF RecreatePinvi, Steps, ForwardSteps
  <2>12. CASE MarkReset
    BY <2>12 DEF MarkReset, Status, NoBaseline, Steps, ForwardSteps
  <2>13. CASE CreatePinvi
    <3>1. \/ UNCHANGED db
          \/ \E i \in Ids :
                db' = [db EXCEPT !["pinvi"] = [id |-> i, head |-> 0, bootstrapped |-> TRUE]]
      BY <2>13 DEF CreatePinvi, Fresh
    <3>2. db' \in [Roles -> Database]
      BY <3>1, CreatedDatabase, DatabaseUpdate, RoleNames
    <3> QED
      BY <2>13, <3>2 DEF CreatePinvi, Steps, ForwardSteps
  <2>14. CASE EnsureMap
    <3>0. \/ UNCHANGED db
          \/ \E i \in Ids : db' = [db EXCEPT !["map_application"] =
                                       [id |-> i, head |-> 0, bootstrapped |-> FALSE]]
      BY <2>14 DEF EnsureMap, Fresh
    <3>1. db' \in [Roles -> Database]
      BY <3>0, CreatedDatabase, DatabaseUpdate, RoleNames
    <3>2. oneshots' \subseteq [kind : Kinds, pair : Pairs]
      BY <2>14 DEF EnsureMap, Kinds, Images
    <3>3. UNCHANGED local \/ Goto("await_role_bootstrap") \/ Goto("cleanup_stop")
            \/ Goto("map_schema")
      BY <2>14 DEF EnsureMap
    <3> QED
      BY <2>14, <3>1, <3>2, <3>3 DEF EnsureMap, Steps, ForwardSteps, CleanupSteps
  <2>15. CASE RunMapSchema
    BY <2>15 DEF RunMapSchema, Steps, ForwardSteps, Kinds, Images
  <2>16. CASE RequireHead
    BY <2>16 DEF RequireHead, Steps, ForwardSteps, CleanupSteps
  <2>17. CASE ComposeUp
    BY <2>17 DEF ComposeUp, Steps, ForwardSteps, CleanupSteps
  <2>18. CASE CreateCredential
    BY <2>18 DEF CreateCredential, Steps, ForwardSteps
  <2>19. CASE RunPinviBootstrap
    BY <2>19 DEF RunPinviBootstrap, Steps, ForwardSteps, Kinds, Images
  <2>20. CASE CleanupCredential
    BY <2>20 DEF CleanupCredential, Steps, ForwardSteps, CleanupSteps
  <2>21. CASE Commit
    BY <2>21, ObservedType, CommitDeployType DEF Commit, Steps, CleanupSteps, Modes
  <2>22. CASE OneShot
    <3>1. PICK c \in oneshots :
            /\ oneshots' = oneshots \ {c}
            /\ \/ CanWork(c) /\ db' = Work(c) /\ Exit(c, OnSuccess(c.kind)) /\ UNCHANGED faults
               \/ ~CanWork(c) /\ UNCHANGED <<db, faults>> /\ Exit(c, OnFailure(c.kind))
               \/ /\ faults < MaxFaults /\ faults' = faults + 1 /\ UNCHANGED db
                  /\ \/ Exit(c, OnFailure(c.kind))
                     \/ c.kind # "role_bootstrap" /\ Exit(c, OnSuccess(c.kind))
            /\ UNCHANGED <<release, status, up, cred, wiped, swaps, releases>>
      BY <2>22 DEF OneShot
    <3>2. c.kind \in Kinds /\ c.pair \in Pairs
      OBVIOUS
    <3>3. db' \in [Roles -> Database]
      BY <3>1, <3>2, WorkType
    <3>4. /\ pc' \in Steps /\ mode' \in Modes /\ cand' \in Images \cup {Down}
          /\ (pc' # "idle" => cand' \in Images)
      BY <3>1, <3>2 DEF Exit, OnSuccess, OnFailure, Waits, Kinds, Steps, ForwardSteps, CleanupSteps
    <3>5. faults' \in 0 .. MaxFaults
      BY <3>1, BoundsAssumption
    <3> QED
      BY <3>1, <3>3, <3>4, <3>5
  <2>23. CASE Fail
    BY <2>23, BoundsAssumption DEF Fail, Steps, EarlySteps, ForwardSteps, CleanupSteps, Modes
  <2>24. CASE Crash
    BY <2>24, BoundsAssumption DEF Crash, Steps, Modes
  <2>25. CASE ChangeRelease
    BY <2>25, BoundsAssumption DEF ChangeRelease
  <2>26. CASE SwapDatabase
    <3>1. PICK r \in Roles :
             \/ db' = [db EXCEPT ![r] = NoDatabase]
             \/ \E i \in Ids, h \in {0} \cup {Head[r][p] : p \in Pairs}, b \in BOOLEAN :
                   db' = [db EXCEPT ![r] = [id |-> i, head |-> h, bootstrapped |-> b]]
      BY <2>26 DEF SwapDatabase
    <3>2. {0} \cup {Head[r][p] : p \in Pairs} \subseteq Nat
      BY HeadAssumption
    <3>3. db' \in [Roles -> Database]
      BY <3>1, <3>2, DatabaseUpdate, DatabaseValues
    <3> QED
      BY <2>26, <3>3, BoundsAssumption DEF SwapDatabase
  <2>27. CASE UNCHANGED vars
    BY <2>27 DEF vars
  <2> QED
    BY <2>1, <2>2, <2>3, <2>4, <2>5, <2>6, <2>7, <2>8, <2>9, <2>10, <2>11, <2>12, <2>13, <2>14,
       <2>15, <2>16, <2>17, <2>18, <2>19, <2>20, <2>21, <2>22, <2>23, <2>24, <2>25, <2>26, <2>27,
       NextCases
<1> QED
  BY <1>1, <1>2, PTL DEF Spec
-----------------------------------------------------------------------------
(* The record and the reset.  A reset record that may be carried or committed *)
(* is one whose reset finished: the mark is written after it, in one step.    *)

ResetSteps == {"drop_map", "drop_pinvi", "recreate_pinvi", "mark_reset"}
\* The steps after the reset branch, in which nothing resets any more.
MigrateSteps == {"create_pinvi", "ensure_map", "await_role_bootstrap", "map_schema",
                 "await_map_schema", "map_head", "map_api", "map_ui", "cred_mkdir", "cred_file",
                 "pinvi_bootstrap", "await_pinvi_bootstrap", "unlink_ok", "rmdir_ok",
                 "unlink_err", "rmdir_err", "pinvi_head", "pinvi_api", "pinvi_web", "commit"}

RecordInv ==
    /\ status.step = "reset" => /\ status.state = "in_progress" /\ status.restart
                                /\ ~status.adopted /\ status.databases = NoBaseline
    /\ RestartRecordIsTrue
    /\ pc \in ForwardSteps => status.state = "in_progress"
    /\ pc \in CleanupSteps => status.state = "in_progress"
    /\ pc = "converge" => status.state = "committed"
    /\ pc \in ForwardSteps /\ mode = "restart" => status.restart
    /\ pc \in ResetSteps => mode = "restart"
    /\ pc = "mark_reset" => wiped # "no"
    /\ pc \in ResetSteps => ~status.adopted
    /\ pc \in ForwardSteps /\ mode # "restart" /\ status.restart => status.step = "reset"
    /\ pc \in MigrateSteps /\ status.restart => status.step = "reset"
    /\ pc \in ForwardSteps /\ mode = "restart" => ~status.adopted

\* A reset record is true of the databases, whatever was killed or failed.
THEOREM RecordInvariant == Spec => []RecordInv
<1>1. Init => RecordInv
  BY DEF Init, RecordInv, NoFile, RestartRecordIsTrue, ForwardSteps, CleanupSteps, ResetSteps,
     MigrateSteps
<1>2. TypeOK /\ RecordInv /\ [Next]_vars => RecordInv'
  <2> SUFFICES ASSUME TypeOK, RecordInv, [Next]_vars PROVE RecordInv'
    OBVIOUS
  <2> USE DEF RecordInv, RestartRecordIsTrue, ForwardSteps, CleanupSteps, EarlySteps, ResetSteps,
              MigrateSteps, TypeOK, Status, Modes, world, local, budget, Finish, Goto
  <2>1. ASSUME NEW m \in Modes, Start(m) PROVE RecordInv'
    BY <2>1 DEF Start
  <2>2. CASE Judge
    BY <2>2 DEF Judge, Converges
  <2>3. CASE Converge
    BY <2>3 DEF Converge
  <2>4. CASE Begin
    BY <2>4 DEF Begin, BeginDeploy
  <2>5. CASE Stop
    BY <2>5 DEF Stop
  <2>6. CASE Retire
    BY <2>6 DEF Retire
  <2>7. CASE Reconcile
    BY <2>7 DEF Reconcile, AfterReconcile
  <2>8. CASE ReconcileRmdir
    BY <2>8 DEF ReconcileRmdir, AfterReconcile
  <2>9. CASE DropMap
    BY <2>9 DEF DropMap
  <2>10. CASE DropPinvi
    BY <2>10 DEF DropPinvi
  <2>11. CASE RecreatePinvi
    BY <2>11 DEF RecreatePinvi
  <2>12. CASE MarkReset
    BY <2>12 DEF MarkReset
  <2>13. CASE CreatePinvi
    BY <2>13 DEF CreatePinvi
  <2>14. CASE EnsureMap
    BY <2>14 DEF EnsureMap
  <2>15. CASE RunMapSchema
    BY <2>15 DEF RunMapSchema
  <2>16. CASE RequireHead
    BY <2>16 DEF RequireHead
  <2>17. CASE ComposeUp
    BY <2>17 DEF ComposeUp
  <2>18. CASE CreateCredential
    BY <2>18 DEF CreateCredential
  <2>19. CASE RunPinviBootstrap
    BY <2>19 DEF RunPinviBootstrap
  <2>20. CASE CleanupCredential
    BY <2>20 DEF CleanupCredential
  <2>21. CASE Commit
    BY <2>21 DEF Commit, CommitDeploy
  <2>22. CASE OneShot
    BY <2>22, OneShotEffect
  <2>23. CASE Fail
    BY <2>23 DEF Fail
  <2>24. CASE Crash
    BY <2>24 DEF Crash
  <2>25. CASE ChangeRelease
    BY <2>25 DEF ChangeRelease
  <2>26. CASE SwapDatabase
    BY <2>26 DEF SwapDatabase
  <2>27. CASE UNCHANGED vars
    BY <2>27 DEF vars
  <2> QED
    BY <2>1, <2>2, <2>3, <2>4, <2>5, <2>6, <2>7, <2>8, <2>9, <2>10, <2>11, <2>12, <2>13, <2>14,
       <2>15, <2>16, <2>17, <2>18, <2>19, <2>20, <2>21, <2>22, <2>23, <2>24, <2>25, <2>26,
       <2>27,
       NextCases
<1> QED
  BY <1>1, <1>2, TypeCorrect, PTL DEF Spec

\* A restart record that is committed, or carried by a resumed deploy, is of a reset
\* that finished (RESET_DONE_STEP is written only after it).
THEOREM RestartRecordTruth == Spec => []RestartRecordIsTrue
BY RecordInvariant, PTL DEF RecordInv

-----------------------------------------------------------------------------
(* What still runs.  Outside a deploy that is in progress nothing is left over*)
(* and inside one a one-shot only ever runs while its step waits for it.      *)

\* Between quiescence and commit, no one-shot runs except the one waited for.
CalmSteps == {"reconcile", "reconcile_rmdir", "drop_map", "drop_pinvi", "recreate_pinvi",
              "mark_reset", "create_pinvi", "ensure_map", "map_schema", "map_head", "map_api",
              "map_ui", "cred_mkdir", "cred_file", "pinvi_bootstrap", "unlink_ok", "rmdir_ok",
              "pinvi_head", "pinvi_api", "pinvi_web", "commit"}
MapDownSteps == {"retire", "reconcile", "reconcile_rmdir", "drop_map", "drop_pinvi",
                 "recreate_pinvi", "mark_reset", "create_pinvi", "ensure_map",
                 "await_role_bootstrap", "map_schema", "await_map_schema", "map_head", "map_api"}
PinviDownSteps == MapDownSteps \cup {"map_ui", "cred_mkdir", "cred_file", "pinvi_bootstrap",
                                     "await_pinvi_bootstrap", "unlink_ok", "rmdir_ok",
                                     "pinvi_head", "pinvi_api"}

QuietInv ==
    /\ status.state # "in_progress" => oneshots = {} /\ cred = "absent"
    /\ pc \in CalmSteps => oneshots = {}
    /\ pc \in {"pinvi_head", "pinvi_api", "pinvi_web", "commit"} => cred = "absent"
    /\ \A c, d \in oneshots : c = d
    /\ \A c \in oneshots :
          IF c.kind = "pinvi_bootstrap" THEN up["pinvi_api"] = Down /\ up["pinvi_web"] = Down
          ELSE up["map_api"] = Down /\ up["map_ui"] = Down
    /\ pc = "await_role_bootstrap" => \A c \in oneshots : c.kind = "role_bootstrap"
    /\ pc = "await_map_schema" => \A c \in oneshots : c.kind = "map_schema"
    /\ pc = "await_pinvi_bootstrap" => \A c \in oneshots : c.kind = "pinvi_bootstrap"
    /\ pc \in MapDownSteps => up["map_api"] = Down /\ up["map_ui"] = Down
    /\ pc \in PinviDownSteps => up["pinvi_api"] = Down /\ up["pinvi_web"] = Down

\* Nothing is left running or lying about outside a deploy in progress, and nothing
\* writes next to a one-shot inside one.
THEOREM QuietInvariant == Spec => []QuietInv
<1>1. Init => QuietInv
  BY DEF Init, QuietInv, NoFile, CalmSteps, MapDownSteps, PinviDownSteps
<1>2. TypeOK /\ RecordInv /\ QuietInv /\ [Next]_vars => QuietInv'
  <2> SUFFICES ASSUME TypeOK, RecordInv, QuietInv, [Next]_vars PROVE QuietInv'
    OBVIOUS
  <2> USE DEF RecordInv, QuietInv, ForwardSteps, CleanupSteps, EarlySteps, CalmSteps,
              MapDownSteps, PinviDownSteps, Services, TypeOK, Status, world, local, budget,
              Finish, Goto
  <2>1. ASSUME NEW m \in Modes, Start(m) PROVE QuietInv'
    BY <2>1 DEF Start
  <2>2. CASE Judge
    BY <2>2 DEF Judge, Converges
  <2>3. CASE Converge
    BY <2>3 DEF Converge
  <2>4. CASE Begin
    BY <2>4 DEF Begin, BeginDeploy
  <2>5. CASE Stop
    BY <2>5 DEF Stop, AllDown
  <2>6. CASE Retire
    BY <2>6 DEF Retire
  <2>7. CASE Reconcile
    BY <2>7 DEF Reconcile, AfterReconcile
  <2>8. CASE ReconcileRmdir
    BY <2>8 DEF ReconcileRmdir, AfterReconcile
  <2>9. CASE DropMap
    BY <2>9 DEF DropMap
  <2>10. CASE DropPinvi
    BY <2>10 DEF DropPinvi
  <2>11. CASE RecreatePinvi
    BY <2>11 DEF RecreatePinvi
  <2>12. CASE MarkReset
    BY <2>12 DEF MarkReset
  <2>13. CASE CreatePinvi
    BY <2>13 DEF CreatePinvi
  <2>14. CASE EnsureMap
    BY <2>14 DEF EnsureMap
  <2>15. CASE RunMapSchema
    BY <2>15 DEF RunMapSchema
  <2>16. CASE RequireHead
    BY <2>16 DEF RequireHead
  <2>17. CASE ComposeUp
    BY <2>17 DEF ComposeUp
  <2>18. CASE CreateCredential
    BY <2>18 DEF CreateCredential
  <2>19. CASE RunPinviBootstrap
    BY <2>19 DEF RunPinviBootstrap
  <2>20. CASE CleanupCredential
    BY <2>20 DEF CleanupCredential
  <2>21. CASE Commit
    BY <2>21 DEF Commit, CommitDeploy
  <2>22. CASE OneShot
    BY <2>22, OneShotEffect
  <2>23. CASE Fail
    BY <2>23 DEF Fail
  <2>24. CASE Crash
    BY <2>24 DEF Crash
  <2>25. CASE ChangeRelease
    BY <2>25 DEF ChangeRelease
  <2>26. CASE SwapDatabase
    BY <2>26 DEF SwapDatabase
  <2>27. CASE UNCHANGED vars
    BY <2>27 DEF vars
  <2> QED
    BY <2>1, <2>2, <2>3, <2>4, <2>5, <2>6, <2>7, <2>8, <2>9, <2>10, <2>11, <2>12, <2>13, <2>14,
       <2>15, <2>16, <2>17, <2>18, <2>19, <2>20, <2>21, <2>22, <2>23, <2>24, <2>25, <2>26,
       <2>27,
       NextCases
<1> QED
  BY <1>1, <1>2, TypeCorrect, RecordInvariant, PTL DEF Spec

\* No writer runs next to a one-shot or a reset (_retire_pinned_runtime_oneshot_writers).
THEOREM OneWriter == Spec => []WriterExclusion
<1>1. RecordInv /\ QuietInv /\ TypeOK => WriterExclusion
  BY DEF RecordInv, QuietInv, TypeOK, WriterExclusion, CalmSteps, MapDownSteps, PinviDownSteps,
     AllDown, Services
<1> QED
  BY <1>1, TypeCorrect, RecordInvariant, QuietInvariant, PTL

\* A committed record leaves no one-shot and no credential behind.
THEOREM CommittedQuiet == Spec => []CommittedIsQuiet
<1>1. QuietInv => CommittedIsQuiet
  BY DEF QuietInv, CommittedIsQuiet
<1> QED
  BY <1>1, QuietInvariant, PTL

-----------------------------------------------------------------------------
(* Which databases a deploy changes, when no operator works next to it.       *)

BaselineInv ==
    /\ ~OperatorConcurrent /\ mode = "plain" /\ pc = "begin" /\ status.databases # NoBaseline
          => Observed = status.databases
    /\ DeploysOnlyKnownDatabases

\* The observation depends on the identities alone.
LEMMA SameIdentity ==
    ASSUME \A r \in Roles : db'[r].id = db[r].id
    PROVE  Observed' = Observed
BY DEF Observed

\* What leaves the databases alone leaves the observation alone.
LEMMA SameObserved == ASSUME UNCHANGED db PROVE Observed' = Observed
BY DEF Observed

\* One missing database is as good as none observed.
LEMMA MissingDatabase ==
    ASSUME NEW r \in Roles, db[r].id = 0
    PROVE  Observed = NoBaseline
BY DEF Observed

\* A one-shot migrates a database, it never replaces one.
LEMMA OneShotIdentity ==
    ASSUME TypeOK, OneShot
    PROVE  \A r \in Roles : db'[r].id = db[r].id
<1>1. PICK c \in oneshots : db' = db \/ db' = Work(c)
  BY OneShotEffect
<1>2. c.kind \in Kinds /\ db \in [Roles -> Database]
  BY DEF TypeOK
<1>3. CASE db' = Work(c) /\ c.kind = "role_bootstrap"
  BY <1>2, <1>3 DEF Work, Roles, Database
<1>4. CASE db' = Work(c) /\ c.kind = "map_schema"
  BY <1>2, <1>4 DEF Work, Roles, Database
<1>5. CASE db' = Work(c) /\ c.kind = "pinvi_bootstrap"
  BY <1>2, <1>5 DEF Work, Roles, Database
<1> QED
  BY <1>1, <1>2, <1>3, <1>4, <1>5 DEF Kinds

\* A deploy invoked without --restart changes only the databases on record.
THEOREM BaselineInvariant == Spec => []BaselineInv
<1>1. Init => BaselineInv
  BY DEF Init, BaselineInv, DeploysOnlyKnownDatabases, ForwardSteps
<1>2. TypeOK /\ RecordInv /\ BaselineInv /\ [Next]_vars => BaselineInv'
  <2> SUFFICES ASSUME TypeOK, RecordInv, BaselineInv, [Next]_vars PROVE BaselineInv'
    OBVIOUS
  <2> USE DEF RecordInv, BaselineInv, DeploysOnlyKnownDatabases, ForwardSteps, CleanupSteps,
              EarlySteps, ResetSteps, world, local, budget, Finish, Goto
  <2>1. ASSUME NEW m \in Modes, Start(m) PROVE BaselineInv'
    BY <2>1, SameObserved DEF Start
  <2>2. CASE Judge
    BY <2>2, SameObserved DEF Judge, Refuses
  <2>3. CASE Converge
    BY <2>3, SameObserved DEF Converge
  <2>4. CASE Begin
    BY <2>4, SameObserved DEF Begin, BeginDeploy, TypeOK, Modes
  <2>5. CASE Stop
    BY <2>5, SameObserved DEF Stop
  <2>6. CASE Retire
    BY <2>6, SameObserved DEF Retire
  <2>7. CASE Reconcile
    BY <2>7, SameObserved DEF Reconcile, AfterReconcile
  <2>8. CASE ReconcileRmdir
    BY <2>8, SameObserved DEF ReconcileRmdir, AfterReconcile
  <2>9. CASE DropMap
    BY <2>9 DEF DropMap
  <2>10. CASE DropPinvi
    BY <2>10 DEF DropPinvi
  <2>11. CASE RecreatePinvi
    BY <2>11 DEF RecreatePinvi
  <2>12. CASE MarkReset
    BY <2>12, SameObserved DEF MarkReset
  <2>13. CASE CreatePinvi
    BY <2>13, SameObserved, MissingDatabase, RoleNames DEF CreatePinvi
  <2>14. CASE EnsureMap
    BY <2>14, SameObserved, MissingDatabase, RoleNames DEF EnsureMap
  <2>15. CASE RunMapSchema
    BY <2>15, SameObserved DEF RunMapSchema
  <2>16. CASE RequireHead
    BY <2>16, SameObserved DEF RequireHead
  <2>17. CASE ComposeUp
    BY <2>17, SameObserved DEF ComposeUp
  <2>18. CASE CreateCredential
    BY <2>18, SameObserved DEF CreateCredential
  <2>19. CASE RunPinviBootstrap
    BY <2>19, SameObserved DEF RunPinviBootstrap
  <2>20. CASE CleanupCredential
    BY <2>20, SameObserved DEF CleanupCredential
  <2>21. CASE Commit
    BY <2>21, SameObserved DEF Commit, CommitDeploy
  <2>22. CASE OneShot
    <3>1. Observed' = Observed
      BY <2>22, OneShotIdentity, SameIdentity
    <3>2. /\ UNCHANGED <<status, mode>>
          /\ pc' \in ForwardSteps => pc \in ForwardSteps
          /\ pc' = "begin" => pc = "begin"
      BY <2>22, OneShotEffect
    <3> QED
      BY <3>1, <3>2
  <2>23. CASE Fail
    BY <2>23, SameObserved DEF Fail
  <2>24. CASE Crash
    BY <2>24, SameObserved DEF Crash
  <2>25. CASE ChangeRelease
    BY <2>25, SameObserved DEF ChangeRelease
  <2>26. CASE SwapDatabase
    BY <2>26 DEF SwapDatabase
  <2>27. CASE UNCHANGED vars
    BY <2>27, SameObserved DEF vars
  <2> QED
    BY <2>1, <2>2, <2>3, <2>4, <2>5, <2>6, <2>7, <2>8, <2>9, <2>10, <2>11, <2>12, <2>13, <2>14,
       <2>15, <2>16, <2>17, <2>18, <2>19, <2>20, <2>21, <2>22, <2>23, <2>24, <2>25, <2>26,
       <2>27,
       NextCases
<1> QED
  BY <1>1, <1>2, TypeCorrect, RecordInvariant, PTL DEF Spec

\* A run that is not --restart writes next to the databases on record only: the
\* refusal before in_progress is never overtaken by a step of the deploy itself.
THEOREM KnownDatabases == Spec => []DeploysOnlyKnownDatabases
BY BaselineInvariant, PTL DEF BaselineInv

-----------------------------------------------------------------------------
(* What a step may do to the baseline and to the databases.                   *)

\* When no operator replaces a database during a deploy, the recorded baseline is
\* replaced only in a step whose record carries the operator's decision.
THEOREM BaselineDecisions == ASSUME ~OperatorConcurrent PROVE Spec => BaselineMovesByDecision
<1>1. TypeOK /\ RecordInv /\ BaselineInv /\ [Next]_vars
        => (status.databases # NoBaseline /\ status'.databases # status.databases
              => status'.restart \/ status'.adopted)
  <2> SUFFICES ASSUME TypeOK, RecordInv, BaselineInv, [Next]_vars,
                      status.databases # NoBaseline, status'.databases # status.databases
               PROVE  status'.restart \/ status'.adopted
    OBVIOUS
  <2>1. Begin \/ MarkReset \/ Commit
    BY OneShotEffect DEF Next, Advance, Start, Judge, Converge, Stop, Retire, Reconcile,
       ReconcileRmdir, DropMap, DropPinvi, RecreatePinvi, CreatePinvi, EnsureMap, RunMapSchema,
       RequireHead, ComposeUp, CreateCredential, RunPinviBootstrap, CleanupCredential, Fail,
       Crash, ChangeRelease, SwapDatabase, vars
  <2>2. CASE Begin
    BY <2>2 DEF Begin, BeginDeploy, TypeOK, Status, Modes
  <2>3. CASE MarkReset
    BY <2>3 DEF MarkReset, RecordInv, ForwardSteps, ResetSteps, TypeOK, Status
  <2>4. CASE Commit
    <3>1. pc = "commit" /\ status'.databases = Observed
      BY <2>4 DEF Commit, CommitDeploy, TypeOK, Status
    <3>2. mode # "restart" => Observed = status.databases
      BY <3>1 DEF BaselineInv, DeploysOnlyKnownDatabases, ForwardSteps
    <3>3. mode = "restart" => status.databases = NoBaseline
      BY <3>1 DEF RecordInv, ForwardSteps, MigrateSteps
    <3> QED
      BY <3>1, <3>2, <3>3
  <2> QED
    BY <2>1, <2>2, <2>3, <2>4
<1> QED
  BY <1>1, TypeCorrect, RecordInvariant, BaselineInvariant, PTL DEF Spec, BaselineMovesByDecision

\* The Manager destroys a database only in a run invoked with --restart, after the
\* record of that decision is on disk.
THEOREM DestructionOnlyByRestart == Spec => DestroysOnlyWhenRestarting
<1>1. TypeOK /\ RecordInv /\ [Next]_vars
        => (\A r \in Roles : db[r].id # 0 /\ db'[r].id # db[r].id /\ swaps' = swaps
              => mode = "restart" /\ status.state = "in_progress" /\ status.restart)
  <2> SUFFICES ASSUME TypeOK, RecordInv, [Next]_vars, NEW r \in Roles,
                      db[r].id # 0, db'[r].id # db[r].id, swaps' = swaps
               PROVE  mode = "restart" /\ status.state = "in_progress" /\ status.restart
    OBVIOUS
  <2>1. ~OneShot
    BY OneShotIdentity
  <2>2. ~SwapDatabase
    BY DEF SwapDatabase, TypeOK
  <2>3. ~CreatePinvi
    BY RoleNames DEF CreatePinvi, TypeOK
  <2>4. ~EnsureMap
    BY RoleNames DEF EnsureMap, TypeOK
  <2>5. DropMap \/ DropPinvi \/ RecreatePinvi
    BY <2>1, <2>2, <2>3, <2>4 DEF Next, Advance, Start, Judge, Converge, Begin, Stop, Retire,
       Reconcile, ReconcileRmdir, MarkReset, RunMapSchema, RequireHead, ComposeUp,
       CreateCredential, RunPinviBootstrap, CleanupCredential, Commit, Fail, Crash,
       ChangeRelease, vars, world
  <2>6. pc \in ResetSteps /\ pc \in ForwardSteps
    BY <2>5 DEF DropMap, DropPinvi, RecreatePinvi, ResetSteps, ForwardSteps
  <2> QED
    BY <2>6 DEF RecordInv
<1> QED
  BY <1>1, TypeCorrect, RecordInvariant, PTL DEF Spec, DestroysOnlyWhenRestarting
-----------------------------------------------------------------------------
(* What a commit records.  Each part of it was looked at by its own step, and  *)
(* nothing of the deploy or of an earlier one touches that part afterwards.    *)

\* The steps once the Map schema has been read at its head for the second time.
PastMapApi == {"map_ui", "cred_mkdir", "cred_file", "pinvi_bootstrap", "await_pinvi_bootstrap",
               "unlink_ok", "rmdir_ok", "pinvi_head", "pinvi_api", "pinvi_web", "commit"}
PastPinviHead == {"pinvi_api", "pinvi_web", "commit"}

\* The services that are up at each step.
StartedBy(step) ==
    (IF step \in PastMapApi THEN {"map_api"} ELSE {})
      \cup (IF step \in PastMapApi \ {"map_ui"} THEN {"map_ui"} ELSE {})
      \cup (IF step \in {"pinvi_web", "commit"} THEN {"pinvi_api"} ELSE {})
      \cup (IF step = "commit" THEN {"pinvi_web"} ELSE {})

DeployedInv ==
    /\ pc \in ForwardSteps => status.pair = cand.pair
    /\ \A s \in StartedBy(pc) : up[s] = cand
    /\ ~OperatorConcurrent =>
          /\ pc \in PastMapApi => AtHead("map_application", cand.pair)
          /\ pc \in PastPinviHead => AtHead("pinvi", cand.pair)

\* What leaves the databases alone leaves their heads alone.
LEMMA SameHead ==
    ASSUME NEW r \in Roles, NEW p, db'[r] = db[r]
    PROVE  AtHead(r, p)' = AtHead(r, p)
BY DEF AtHead

\* The PinVi bootstrap does not touch the Map database, and the heads of a pair that
\* is past a head check are not touched by any one-shot.
LEMMA OneShotHeads ==
    ASSUME TypeOK, QuietInv, OneShot
    PROVE  /\ pc \in PastMapApi => db'["map_application"] = db["map_application"]
           /\ pc \notin PastPinviHead
<1>1. PICK c \in oneshots : db' = db \/ db' = Work(c)
  BY OneShotEffect
<1>2. pc \notin PastPinviHead /\ pc \notin CalmSteps
  BY DEF QuietInv, CalmSteps, PastPinviHead
<1>3. ASSUME pc \in PastMapApi PROVE db'["map_application"] = db["map_application"]
  <2>1. c.kind = "pinvi_bootstrap"
    BY <1>2, <1>3 DEF QuietInv, CalmSteps, PastMapApi
  <2>2. db' = db \/ db' = [db EXCEPT !["pinvi"].head = Head["pinvi"][c.pair]]
    BY <1>1, <2>1 DEF Work
  <2> QED
    BY <2>2, RoleNames DEF TypeOK
<1> QED
  BY <1>2, <1>3

\* At each step of the way to the commit, what was checked before is still so.
THEOREM DeployedInvariant == Spec => []DeployedInv
<1>1. Init => DeployedInv
  BY DEF Init, DeployedInv, StartedBy, ForwardSteps, PastMapApi, PastPinviHead
<1>2. TypeOK /\ QuietInv /\ DeployedInv /\ [Next]_vars => DeployedInv'
  <2> SUFFICES ASSUME TypeOK, QuietInv, DeployedInv, [Next]_vars PROVE DeployedInv'
    OBVIOUS
  <2>t. \A r \in Roles, p \in Pairs : UNCHANGED db => AtHead(r, p)' = AtHead(r, p)
    BY SameHead
  <2> USE RoleNames, <2>t
      DEF DeployedInv, StartedBy, ForwardSteps, CleanupSteps, EarlySteps, PastMapApi,
          PastPinviHead, world, local, budget, Finish, Goto
  <2>1. ASSUME NEW m \in Modes, Start(m) PROVE DeployedInv'
    BY <2>1 DEF Start
  <2>2. CASE Judge
    BY <2>2 DEF Judge
  <2>3. CASE Converge
    BY <2>3 DEF Converge
  <2>4. CASE Begin
    BY <2>4 DEF Begin, BeginDeploy
  <2>5. CASE Stop
    BY <2>5 DEF Stop
  <2>6. CASE Retire
    BY <2>6 DEF Retire
  <2>7. CASE Reconcile
    BY <2>7 DEF Reconcile, AfterReconcile
  <2>8. CASE ReconcileRmdir
    BY <2>8 DEF ReconcileRmdir, AfterReconcile
  <2>9. CASE DropMap \/ DropPinvi \/ RecreatePinvi
    BY <2>9 DEF DropMap, DropPinvi, RecreatePinvi
  <2>10. CASE MarkReset
    BY <2>10 DEF MarkReset, TypeOK, Status
  <2>11. CASE CreatePinvi
    BY <2>11 DEF CreatePinvi
  <2>12. CASE EnsureMap
    BY <2>12 DEF EnsureMap
  <2>13. CASE RunMapSchema
    BY <2>13 DEF RunMapSchema
  <2>14. CASE RequireHead
    BY <2>14, SameHead DEF RequireHead
  <2>15. CASE ComposeUp
    BY <2>15, SameHead DEF ComposeUp, TypeOK, Services
  <2>16. CASE CreateCredential
    BY <2>16, SameHead DEF CreateCredential
  <2>17. CASE RunPinviBootstrap
    BY <2>17, SameHead DEF RunPinviBootstrap
  <2>18. CASE CleanupCredential
    BY <2>18, SameHead DEF CleanupCredential
  <2>19. CASE Commit
    BY <2>19 DEF Commit
  <2>20. CASE OneShot
    BY <2>20, OneShotEffect, OneShotHeads, SameHead
  <2>21. CASE Fail
    BY <2>21 DEF Fail
  <2>22. CASE Crash
    BY <2>22 DEF Crash
  <2>23. CASE ChangeRelease
    BY <2>23, SameHead DEF ChangeRelease
  <2>24. CASE SwapDatabase
    BY <2>24 DEF SwapDatabase
  <2>25. CASE UNCHANGED vars
    BY <2>25, SameHead DEF vars
  <2> QED
    BY <2>1, <2>2, <2>3, <2>4, <2>5, <2>6, <2>7, <2>8, <2>9, <2>10, <2>11, <2>12, <2>13, <2>14,
       <2>15, <2>16, <2>17, <2>18, <2>19, <2>20, <2>21, <2>22, <2>23, <2>24, <2>25, NextCases
<1> QED
  BY <1>1, <1>2, TypeCorrect, QuietInvariant, PTL DEF Spec

\* When no operator replaces a database during a deploy, a commit records what is true
\* of the host at that moment: heads, identities and images, whatever was killed before.
THEOREM CommitsWhatRuns == ASSUME ~OperatorConcurrent PROVE Spec => CommitIsWhatRuns
<1> DEFINE Truth ==
      status'.state = "committed" /\ status' # status
        => /\ \A r \in Roles : AtHead(r, status'.pair)
           /\ Observed = status'.databases
           /\ \A s \in Services : up[s] = [pair |-> status'.pair, build |-> status'.build]
<1>1. TypeOK /\ RecordInv /\ DeployedInv /\ [Next]_vars => [Truth]_vars
  <2> SUFFICES ASSUME TypeOK, RecordInv, DeployedInv, [Next]_vars,
                      status'.state = "committed", status' # status
               PROVE  Truth
    OBVIOUS
  <2>1. Begin \/ MarkReset \/ Commit
    BY OneShotEffect DEF Next, Advance, Start, Judge, Converge, Stop, Retire, Reconcile,
       ReconcileRmdir, DropMap, DropPinvi, RecreatePinvi, CreatePinvi, EnsureMap, RunMapSchema,
       RequireHead, ComposeUp, CreateCredential, RunPinviBootstrap, CleanupCredential, Fail,
       Crash, ChangeRelease, SwapDatabase, vars
  <2>2. ~Begin
    BY DEF Begin, BeginDeploy
  <2>3. ~MarkReset
    BY DEF MarkReset, RecordInv, ForwardSteps, TypeOK, Status
  <2>4. pc = "commit" /\ status' = CommitDeploy(status, cand, Observed)
    BY <2>1, <2>2, <2>3 DEF Commit
  <2>5. /\ status'.pair = cand.pair /\ status'.build = cand.build
        /\ status'.databases = Observed
    BY <2>4 DEF CommitDeploy, DeployedInv, ForwardSteps, TypeOK, Status
  <2>6. \A r \in Roles : AtHead(r, cand.pair)
    BY <2>4 DEF DeployedInv, PastMapApi, PastPinviHead, Roles
  <2>7. \A s \in Services : up[s] = cand
    BY <2>4 DEF DeployedInv, StartedBy, PastMapApi, Services
  <2>8. cand = [pair |-> cand.pair, build |-> cand.build]
    BY <2>4 DEF TypeOK, Images
  <2> QED
    BY <2>5, <2>6, <2>7, <2>8
<1> QED
  BY <1>1, TypeCorrect, RecordInvariant, DeployedInvariant, PTL DEF Spec, CommitIsWhatRuns
=============================================================================
