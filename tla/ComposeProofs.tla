----------------------------- MODULE ComposeProofs -----------------------------
(***************************************************************************)
(* Proofs about the compose file.                                          *)
(*                                                                         *)
(* Of ComposeTransaction, for any number of backends and ktdctl processes, *)
(* configurations, rules, requests, edits and faults: the shape of the     *)
(* state, who holds which lock, what a refusal and a busy answer leave     *)
(* behind, which documents run, and when file and container part.          *)
(*                                                                         *)
(* Of ComposeBoundary, for every release, edit and environment: what an    *)
(* admitted document is.  The rules are asked twice, of the names as they  *)
(* are written and of the values as they are resolved; that both verdicts  *)
(* are about the same document, .env and files is the inductive part       *)
(* (VerdictInv), the rest is what the verdicts imply.                      *)
(***************************************************************************)
EXTENDS ComposeTransaction, ComposeBoundary, TLAPS

\* The actions, one disjunct each.
LEMMA NextCases ==
    ASSUME Next
    PROVE  \/ \E a \in Actors :
                 \/ Begin(a) \/ Acquire(a) \/ Control(a) \/ ControlMissing(a) \/ ReadConfig(a)
                 \/ Baseline(a) \/ Candidate(a) \/ Write(a) \/ BoundaryBusy(a)
                 \/ BoundaryRefused(a) \/ Recreated(a) \/ RecreateFailed(a) \/ InitStep(a)
                 \/ ContractHandler(a) \/ RestoreFile(a) \/ RestoreRuntime(a) \/ Die(a)
           \/ TakeG \/ GiveG \/ OperatorCompose \/ OperatorMode \/ OperatorValue
BY DEF Next, Step

-----------------------------------------------------------------------------
(* The shape of the state.                                                   *)

LEMMA BlankType == Blank \in Transactions /\ Blank.outcome = "none"
BY ConfigAssumption DEF Blank, Transactions, Operations, EnvFiles, Modes, Outcomes

LEMMA GoType ==
    ASSUME TypeOK, NEW a \in Actors, NEW step \in Steps, Go(a, step)
    PROVE  /\ pc' \in [Actors -> Steps] /\ pc'[a] = step
           /\ \A b \in Actors \ {a} : pc'[b] = pc[b]
BY DEF TypeOK, Go

LEMMA SetType ==
    ASSUME TypeOK, NEW a \in Actors, NEW t \in Transactions, Set(a, t)
    PROVE  /\ tx' \in [Actors -> Transactions] /\ tx'[a] = t
           /\ \A b \in Actors \ {a} : tx'[b] = tx[b]
BY DEF TypeOK, Set

\* An operation that ends leaves no lock behind, and of its transaction what
\* it did and how it ended.
LEMMA FinishType ==
    ASSUME TypeOK, NEW a \in Actors, NEW t \in Transactions, NEW outcome \in Outcomes,
           Finish(a, t, outcome)
    PROVE  /\ pc' \in [Actors -> Steps] /\ pc'[a] = "idle"
           /\ tx' \in [Actors -> Transactions]
           /\ tx'[a].wrote = t.wrote /\ tx'[a].touched = t.touched /\ tx'[a].outcome = outcome
           /\ holder' \in [Locks -> Actors \cup {Nobody, Outside}]
           /\ \A l \in Locks : holder'[l] = IF holder[l] = a THEN Nobody ELSE holder[l]
           /\ \A b \in Actors \ {a} : pc'[b] = pc[b] /\ tx'[b] = tx[b]
<1> DEFINE last == [Blank EXCEPT !.wrote = t.wrote, !.touched = t.touched, !.outcome = outcome]
<1>1. /\ last \in Transactions /\ last.wrote = t.wrote /\ last.touched = t.touched
      /\ last.outcome = outcome
  BY BlankType DEF Transactions
<1>2. Go(a, "idle") /\ Set(a, last) /\ holder' = Released(a)
  BY DEF Finish
<1>3. "idle" \in Steps
  BY DEF Steps
<1>4. /\ holder' \in [Locks -> Actors \cup {Nobody, Outside}]
      /\ \A l \in Locks : holder'[l] = IF holder[l] = a THEN Nobody ELSE holder[l]
  BY <1>2 DEF Released, TypeOK
<1> QED
  BY <1>1, <1>2, <1>3, <1>4, GoType, SetType

\* The values a process acts on, and what Docker makes of them.
LEMMA MadeType ==
    ASSUME TypeOK, NEW a \in Actors, NEW config \in Configs
    PROVE  /\ Effective(a, tx[a].env) \in EnvFiles
           /\ Made(a, config) \in Containers
           /\ Made(a, config) # Nobody
           /\ Made(a, config).config = config
           /\ Made(a, config).env = Effective(a, tx[a].env)
<1>1. tx[a].env \in EnvFiles /\ tx[a].ext \in 0..1 /\ loaded[a] \in EnvFiles \cup {Nobody}
  BY DEF TypeOK, Transactions
<1>2. Effective(a, tx[a].env) \in EnvFiles
  BY <1>1 DEF Effective
<1>3. /\ Made(a, config) \in Containers /\ Made(a, config).config = config
      /\ Made(a, config).env = Effective(a, tx[a].env)
  BY <1>1, <1>2 DEF Made, Containers
<1> QED
  BY <1>2, <1>3, ConfigAssumption

LEMMA SourceType ==
    ASSUME TypeOK, NEW a \in Actors
    PROVE  Source(a) \in Configs /\ tx[a].base \in Configs /\ tx[a] \in Transactions
BY DEF TypeOK, Source, Transactions

LEMMA TypeInit == Init => TypeOK
<1> SUFFICES ASSUME Init PROVE TypeOK
  OBVIOUS
<1>1. env \in EnvFiles /\ compose \in Configs /\ ext \in 0..1
  <2>1. First \in Configs /\ 0 \in 0..1
    BY ConfigAssumption
  <2>2. PICK mode \in Modes : env = [mode |-> mode, rev |-> 0]
    BY DEF Init
  <2> QED
    BY <2>1, <2>2 DEF Init, EnvFiles
<1>2. container \in Containers \cup {Nobody}
  <2>1. [config |-> First, env |-> env, ext |-> 0, running |-> TRUE] \in Containers
    BY <1>1, ConfigAssumption DEF Containers
  <2> QED
    BY <2>1 DEF Init
<1>3. holder \in [Locks -> Actors \cup {Nobody, Outside}]
  BY DEF Init
<1>4. loaded \in [Actors -> EnvFiles \cup {Nobody}]
  BY <1>1 DEF Init
<1>5. default \in [Actors -> Configs] /\ pc \in [Actors -> Steps] /\ tx \in [Actors -> Transactions]
  BY BlankType, ConfigAssumption DEF Init, Steps
<1>6. requests \in 0..MaxRequests /\ edits \in 0..MaxEdits /\ faults \in 0..MaxFaults
  <2>1. requests = 0 /\ edits = 0 /\ faults = 0
    BY DEF Init
  <2> QED
    BY <2>1, BoundAssumption
<1>7. explained \in BOOLEAN
  BY DEF Init
<1> QED
  BY <1>1, <1>2, <1>3, <1>4, <1>5, <1>6, <1>7 DEF TypeOK

\* Every action keeps the types.
LEMMA TypeStep == TypeOK /\ [Next]_vars => TypeOK'
<1> SUFFICES ASSUME TypeOK, [Next]_vars PROVE TypeOK'
  OBVIOUS
<1> USE DEF disk
<1>0. ASSUME NEW a \in Actors
      PROVE  /\ tx[a] \in Transactions /\ tx[a].base \in Configs /\ tx[a].want \in Configs
             /\ Source(a) \in Configs
             /\ {"ok", "failed", "refused", "busy", "post", "none"} \subseteq Outcomes
             /\ Steps = {"idle", "begun", "locked", "based", "ready", "written", "init",
                         "contract", "undo", "undone"}
  BY <1>0, SourceType DEF TypeOK, Transactions, Outcomes, Steps
<1>1. CASE \E a \in Actors : Begin(a)
  <2>1. PICK a \in Actors : Begin(a)
    BY <1>1
  <2>2. PICK op \in Operations \ {"create"}, want \in Configs :
          Set(a, [Blank EXCEPT !.op = op, !.want = want, !.env = env])
    BY <2>1 DEF Begin
  <2>3. [Blank EXCEPT !.op = op, !.want = want, !.env = env] \in Transactions
    BY BlankType DEF Transactions, TypeOK
  <2>4. tx' \in [Actors -> Transactions] /\ pc' \in [Actors -> Steps]
    BY <2>1, <2>2, <2>3, SetType, GoType, <1>0 DEF Begin
  <2>5. requests' \in 0..MaxRequests
    BY <2>1, BoundAssumption DEF Begin, TypeOK
  <2> QED
    BY <2>1, <2>4, <2>5 DEF Begin, TypeOK
<1>2. CASE \E a \in Actors : Acquire(a)
  <2>1. PICK a \in Actors : Acquire(a)
    BY <1>2
  <2>2. CASE Finish(a, tx[a], "busy") \/ Finish(a, tx[a], "refused")
    BY <2>1, <2>2, <1>0, FinishType DEF Acquire, TypeOK
  <2>3. CASE /\ holder' = [holder EXCEPT ![LockOf(a, tx[a].env.mode)] = a]
             /\ Go(a, "locked")
             /\ Set(a, IF tx[a].op = "reset" THEN [tx[a] EXCEPT !.want = default[a]] ELSE tx[a])
    <3>1. [tx[a] EXCEPT !.want = default[a]] \in Transactions
      BY <1>0 DEF Transactions, TypeOK
    <3>2. tx' \in [Actors -> Transactions] /\ pc' \in [Actors -> Steps]
      BY <2>3, <3>1, SetType, GoType, <1>0
    <3>3. holder' \in [Locks -> Actors \cup {Nobody, Outside}]
      BY <2>3 DEF TypeOK
    <3> QED
      BY <2>1, <3>2, <3>3 DEF Acquire, TypeOK
  <2> QED
    BY <2>1, <2>2, <2>3 DEF Acquire
<1>3. CASE \E a \in Actors : Control(a)
  <2>1. PICK a \in Actors : Control(a)
    BY <1>3
  <2>2. container' \in Containers \cup {Nobody}
    BY <2>1 DEF Control, TypeOK, Containers
  <2> QED
    BY <2>1, <2>2, <1>0, FinishType DEF Control, TypeOK
<1>4. CASE \E a \in Actors : ControlMissing(a)
  BY <1>4, <1>0, FinishType DEF ControlMissing, TypeOK
<1>5. CASE \E a \in Actors : ReadConfig(a)
  <2>1. PICK a \in Actors : ReadConfig(a)
    BY <1>5
  <2>2. PICK config \in {compose, Bare} : Set(a, [tx[a] EXCEPT !.op = "create", !.want = config])
    BY <2>1 DEF ReadConfig
  <2>3. [tx[a] EXCEPT !.op = "create", !.want = config] \in Transactions
    BY <1>0, ConfigAssumption DEF Transactions, TypeOK, Operations
  <2>4. faults' \in 0..MaxFaults
    BY <2>1, BoundAssumption DEF ReadConfig, TypeOK
  <2> QED
    BY <2>1, <2>2, <2>3, <2>4, SetType DEF ReadConfig, TypeOK
<1>6. CASE \E a \in Actors : Baseline(a)
  <2>1. PICK a \in Actors : Baseline(a)
    BY <1>6
  <2>2. CASE Snapshot(a)
    <3>1. [tx[a] EXCEPT !.base = compose, !.ext = ext] \in Transactions
      BY <1>0 DEF Transactions, TypeOK
    <3> QED
      BY <2>2, <3>1, <1>0, GoType, SetType DEF Snapshot, TypeOK
  <2>3. CASE ~Snapshot(a)
    BY <2>1, <2>3, <1>0, FinishType DEF Baseline, TypeOK
  <2> QED
    BY <2>2, <2>3
<1>7. CASE \E a \in Actors : Candidate(a)
  BY <1>7, <1>0, GoType DEF Candidate, TypeOK
<1>8. CASE \E a \in Actors : Write(a)
  <2>1. PICK a \in Actors : Write(a)
    BY <1>8
  <2>2. [tx[a] EXCEPT !.wrote = TRUE] \in Transactions
    BY <1>0 DEF Transactions
  <2>3. compose' \in Configs /\ faults' \in 0..MaxFaults
    BY <2>1, <1>0, BoundAssumption DEF Write, TypeOK
  <2>4. tx' \in [Actors -> Transactions] /\ pc' \in [Actors -> Steps]
    BY <2>1, <2>2, <1>0, GoType, SetType DEF Write
  <2> QED
    BY <2>1, <2>3, <2>4 DEF Write, TypeOK
<1>9. CASE \E a \in Actors : BoundaryBusy(a)
  <2>1. PICK a \in Actors : BoundaryBusy(a)
    BY <1>9
  <2>2. CASE Rewrites(a)
    BY <2>1, <2>2, <1>0, GoType DEF BoundaryBusy, TypeOK
  <2>3. CASE ~Rewrites(a)
    BY <2>1, <2>3, <1>0, FinishType DEF BoundaryBusy, TypeOK
  <2> QED
    BY <2>2, <2>3
<1>10. CASE \E a \in Actors : BoundaryRefused(a)
  <2>1. PICK a \in Actors : BoundaryRefused(a)
    BY <1>10
  <2>2. CASE Go(a, "contract") /\ UNCHANGED <<tx, holder>>
    BY <2>1, <2>2, <1>0, GoType DEF BoundaryRefused, TypeOK
  <2>3. CASE Finish(a, tx[a], "refused")
    BY <2>1, <2>3, <1>0, FinishType DEF BoundaryRefused, TypeOK
  <2>4. CASE Go(a, "undo") /\ Set(a, [tx[a] EXCEPT !.post = TRUE]) /\ UNCHANGED holder
    <3>1. [tx[a] EXCEPT !.post = TRUE] \in Transactions
      BY <1>0 DEF Transactions
    <3> QED
      BY <2>1, <2>4, <3>1, <1>0, GoType, SetType DEF BoundaryRefused, TypeOK
  <2> QED
    BY <2>1, <2>2, <2>3, <2>4 DEF BoundaryRefused
<1>11. CASE \E a \in Actors : Recreated(a)
  <2>1. PICK a \in Actors : Recreated(a)
    BY <1>11
  <2>2. [tx[a] EXCEPT !.mutated = TRUE, !.touched = TRUE] \in Transactions
    BY <1>0 DEF Transactions
  <2>3. container' \in Containers
    BY <2>1, <1>0, MadeType DEF Recreated
  <2>4. tx' \in [Actors -> Transactions] /\ pc' \in [Actors -> Steps]
    BY <2>1, <2>2, <1>0, GoType, SetType DEF Recreated
  <2> QED
    BY <2>1, <2>3, <2>4 DEF Recreated, TypeOK
<1>12. CASE \E a \in Actors : RecreateFailed(a)
  <2>1. PICK a \in Actors : RecreateFailed(a)
    BY <1>12
  <2> DEFINE t == [tx[a] EXCEPT !.touched = TRUE]
  <2>2. t \in Transactions
    BY <1>0 DEF Transactions
  <2>3. container' \in Containers \cup {Nobody}
    BY <2>1, <1>0, MadeType DEF RecreateFailed, TypeOK
  <2>4. \/ Go(a, "undo") /\ Set(a, t) /\ UNCHANGED holder
        \/ Finish(a, t, "failed")
    BY <2>1 DEF RecreateFailed
  <2> HIDE DEF t
  <2>5. /\ tx' \in [Actors -> Transactions] /\ pc' \in [Actors -> Steps]
        /\ holder' \in [Locks -> Actors \cup {Nobody, Outside}]
    BY <2>2, <2>4, <1>0, GoType, SetType, FinishType DEF TypeOK
  <2> QED
    BY <2>1, <2>3, <2>5 DEF RecreateFailed, TypeOK
<1>13. CASE \E a \in Actors : InitStep(a)
  <2>1. PICK a \in Actors : InitStep(a)
    BY <1>13
  <2>2. \/ Go(a, "undo") /\ UNCHANGED <<tx, holder>>
        \/ Finish(a, tx[a], "ok") \/ Finish(a, tx[a], "failed")
    BY <2>1 DEF InitStep
  <2>3. /\ tx' \in [Actors -> Transactions] /\ pc' \in [Actors -> Steps]
        /\ holder' \in [Locks -> Actors \cup {Nobody, Outside}]
    BY <2>2, <1>0, GoType, FinishType DEF TypeOK
  <2> QED
    BY <2>1, <2>3 DEF InitStep, TypeOK
<1>14. CASE \E a \in Actors : ContractHandler(a)
  <2>1. PICK a \in Actors : ContractHandler(a)
    BY <1>14
  <2> DEFINE post == [tx[a] EXCEPT !.post = TRUE]
             clean == [tx[a] EXCEPT !.wrote = FALSE]
  <2>2. post \in Transactions /\ clean \in Transactions
    BY <1>0 DEF Transactions
  <2>3. /\ compose' \in Configs /\ explained' \in BOOLEAN
        /\ faults' \in 0..MaxFaults
    <3>1. /\ faults' = faults \/ (faults < MaxFaults /\ faults' = faults + 1)
          /\ compose' \in {compose, tx[a].base} /\ explained' \in {explained, TRUE}
      BY <2>1 DEF ContractHandler
    <3>2. faults' \in 0..MaxFaults
      BY <3>1, BoundAssumption DEF TypeOK
    <3>3. compose' \in Configs /\ explained' \in BOOLEAN
      BY <3>1, <1>0 DEF TypeOK
    <3> QED
      BY <3>2, <3>3
  <2>4. \/ Go(a, "undo") /\ Set(a, post) /\ UNCHANGED holder
        \/ Finish(a, tx[a], "refused") \/ Finish(a, tx[a], "post") \/ Finish(a, clean, "refused")
    BY <2>1 DEF ContractHandler
  <2> HIDE DEF post, clean
  <2>5. /\ tx' \in [Actors -> Transactions] /\ pc' \in [Actors -> Steps]
        /\ holder' \in [Locks -> Actors \cup {Nobody, Outside}]
    BY <2>2, <2>4, <1>0, GoType, SetType, FinishType DEF TypeOK
  <2> QED
    BY <2>1, <2>3, <2>5 DEF ContractHandler, TypeOK
<1>15. CASE \E a \in Actors : RestoreFile(a)
  <2>1. PICK a \in Actors : RestoreFile(a)
    BY <1>15
  <2> DEFINE clean == [tx[a] EXCEPT !.wrote = FALSE]
  <2>2. clean \in Transactions /\ Ending(a) \in Outcomes
    BY <1>0 DEF Transactions, Ending
  <2>3. compose' \in Configs /\ explained' \in BOOLEAN /\ faults' \in 0..MaxFaults
    <3>1. /\ faults' = faults \/ (faults < MaxFaults /\ faults' = faults + 1)
          /\ compose' \in {compose, tx[a].base} /\ explained' \in {explained, TRUE}
      BY <2>1 DEF RestoreFile
    <3>2. faults' \in 0..MaxFaults
      BY <3>1, BoundAssumption DEF TypeOK
    <3>3. compose' \in Configs /\ explained' \in BOOLEAN
      BY <3>1, <1>0 DEF TypeOK
    <3> QED
      BY <3>2, <3>3
  <2>4. \/ Go(a, "undone") /\ Set(a, clean) /\ UNCHANGED holder
        \/ Finish(a, tx[a], Ending(a))
    BY <2>1 DEF RestoreFile
  <2> HIDE DEF clean
  <2>5. /\ tx' \in [Actors -> Transactions] /\ pc' \in [Actors -> Steps]
        /\ holder' \in [Locks -> Actors \cup {Nobody, Outside}]
    BY <2>2, <2>4, <1>0, GoType, SetType, FinishType DEF TypeOK
  <2> QED
    BY <2>1, <2>3, <2>5 DEF RestoreFile, TypeOK
<1>16. CASE \E a \in Actors : RestoreRuntime(a)
  <2>1. PICK a \in Actors : RestoreRuntime(a)
    BY <1>16
  <2> DEFINE t == [tx[a] EXCEPT !.touched = TRUE]
  <2>2. t \in Transactions /\ Ending(a) \in Outcomes
    BY <1>0 DEF Transactions, Ending
  <2>3. container' \in Containers \cup {Nobody} /\ explained' \in BOOLEAN
    BY <2>1, <1>0, MadeType DEF RestoreRuntime, Frozen, TypeOK
  <2>4. Finish(a, t, Ending(a)) \/ Finish(a, tx[a], Ending(a))
    BY <2>1 DEF RestoreRuntime
  <2> HIDE DEF t
  <2>5. /\ tx' \in [Actors -> Transactions] /\ pc' \in [Actors -> Steps]
        /\ holder' \in [Locks -> Actors \cup {Nobody, Outside}]
    BY <2>2, <2>4, <1>0, FinishType DEF TypeOK
  <2> QED
    BY <2>1, <2>3, <2>5 DEF RestoreRuntime, TypeOK
<1>17. CASE \E a \in Actors : Die(a)
  <2>1. PICK a \in Actors : Die(a)
    BY <1>17
  <2>2. /\ loaded' \in [Actors -> EnvFiles \cup {Nobody}] /\ default' \in [Actors -> Configs]
        /\ explained' \in BOOLEAN
    BY <2>1 DEF Die, Inside, TypeOK
  <2>3. faults' \in 0..MaxFaults
    BY <2>1, BoundAssumption DEF Die, TypeOK
  <2>4. /\ tx' \in [Actors -> Transactions] /\ pc' \in [Actors -> Steps]
        /\ holder' \in [Locks -> Actors \cup {Nobody, Outside}]
    BY <2>1, <1>0, FinishType DEF Die
  <2> QED
    BY <2>1, <2>2, <2>3, <2>4 DEF Die, TypeOK
<1>18. CASE TakeG \/ GiveG
  BY <1>18 DEF TakeG, GiveG, TypeOK
<1>19. CASE OperatorCompose \/ OperatorMode \/ OperatorValue
  <2>1. edits' \in 0..MaxEdits
    BY <1>19, BoundAssumption DEF OperatorCompose, OperatorMode, OperatorValue, TypeOK
  <2>2. env' \in EnvFiles /\ ext' \in 0..1
    BY <1>19 DEF OperatorCompose, OperatorMode, OperatorValue, TypeOK, EnvFiles
  <2> QED
    BY <1>19, <2>1, <2>2 DEF OperatorCompose, OperatorMode, OperatorValue, TypeOK
<1>20. CASE UNCHANGED vars
  BY <1>20 DEF vars, TypeOK
<1> QED
  BY <1>1, <1>2, <1>3, <1>4, <1>5, <1>6, <1>7, <1>8, <1>9, <1>10, <1>11, <1>12, <1>13,
     <1>14, <1>15, <1>16, <1>17, <1>18, <1>19, <1>20, NextCases

\* Every variable stays in its type.
THEOREM TypeCorrect == Spec => []TypeOK
BY TypeInit, TypeStep, PTL DEF Spec

-----------------------------------------------------------------------------
(* The invariants that are inductive together.                               *)

\* Between the lock and the end of its operation.
Insider(a) == pc[a] \notin {"idle", "begun"}

\* An insider holds the lock that its own snapshot of .env asks for, and
\* nobody else holds anything.
LockInv ==
    /\ \A a \in Actors : Insider(a) => holder[LockOf(a, tx[a].env.mode)] = a
    /\ \A a \in Actors, l \in Locks :
          holder[l] = a => Insider(a) /\ l = LockOf(a, tx[a].env.mode)

\* Until the operator edits the mode every process sees the one of the file.
SeesMode(a) ==
    /\ loaded[a] = Nobody \/ loaded[a].mode = env.mode
    /\ pc[a] # "idle" => tx[a].env.mode = env.mode
ModeInv == ~explained => \A a \in Actors : SeesMode(a)

\* What a transaction has done at each of its steps.
FlagsOf(a) ==
    /\ pc[a] # "idle" => tx[a].outcome = "none"
    /\ pc[a] = "idle" /\ tx[a].outcome = "refused" => ~tx[a].wrote /\ ~tx[a].touched
    /\ pc[a] = "idle" /\ tx[a].outcome = "busy" /\ tx[a].touched => explained
    /\ pc[a] \in {"begun", "locked", "based", "ready"} => ~tx[a].wrote
    /\ pc[a] \in {"begun", "locked", "based", "ready", "written"} =>
          ~tx[a].touched /\ ~tx[a].mutated
    /\ pc[a] \in {"ready", "written", "contract"} => Rewrites(a)
    /\ pc[a] = "written" => tx[a].wrote
    /\ pc[a] = "init" => tx[a].mutated /\ (Rewrites(a) => tx[a].wrote)
    /\ pc[a] = "contract" => (tx[a].touched => tx[a].mutated) /\ (tx[a].mutated => tx[a].wrote)
FlagInv == \A a \in Actors : FlagsOf(a)

\* What the rules have been asked about at each step.
RulesOf(a) ==
    /\ pc[a] \notin {"idle", "begun", "locked"} => Allowed(tx[a].base, Effective(a, tx[a].env))
    /\ pc[a] \in {"ready", "written"} => Allowed(tx[a].want, Effective(a, tx[a].env))
RuleInv == (\A a \in Actors : RulesOf(a)) /\ OnlyAllowedRuns

\* What file and container hold at each step, while nothing has happened
\* that may part them.
Runs(config) == container # Nobody => container.config = config
FileOf(a) ==
    /\ pc[a] = "locked" => Runs(compose)
    /\ pc[a] \in {"based", "ready"} => compose = tx[a].base /\ Runs(tx[a].base)
    /\ pc[a] = "written" => compose = tx[a].want /\ Runs(tx[a].base)
    /\ pc[a] = "init" => compose = Source(a) /\ Runs(Source(a))
    /\ pc[a] = "contract" /\ ~tx[a].mutated => Runs(tx[a].base)
    /\ pc[a] = "undone" => compose = tx[a].base
FileInv ==
    ~explained => DriftIsExplained /\ \A a \in Actors : FileOf(a)

-----------------------------------------------------------------------------
(* How one process moves.                                                    *)

\* A process ends its operation: it holds nothing any more.
Ends(a) ==
    /\ pc'[a] = "idle"
    /\ \A l \in Locks : holder'[l] = IF holder[l] = a THEN Nobody ELSE holder[l]

\* A process goes on with what it holds.
GoesOn(a) ==
    /\ Insider(a) /\ Insider(a)'
    /\ tx'[a].env = tx[a].env /\ holder' = holder /\ loaded' = loaded

\* A process begins with the .env of now.
Begins(a) ==
    /\ pc[a] = "idle" /\ pc'[a] = "begun"
    /\ tx'[a].env = env /\ holder' = holder /\ loaded' = loaded

\* A process takes the lock of its snapshot.
Enters(a) ==
    LET l == LockOf(a, tx[a].env.mode) IN
    /\ pc[a] = "begun" /\ pc'[a] = "locked"
    /\ Free(l, a) /\ holder' = [holder EXCEPT ![l] = a]
    /\ tx'[a].env = tx[a].env /\ tx[a].env = env /\ loaded' = loaded

LEMMA EndsOnFinish ==
    ASSUME TypeOK, NEW a \in Actors, NEW t \in Transactions, NEW outcome \in Outcomes,
           Finish(a, t, outcome)
    PROVE  Ends(a)
BY FinishType DEF Ends

\* Every step of a process is one of the four.
LEMMA ActorMove ==
    ASSUME TypeOK, NEW a \in Actors, Step(a)
    PROVE  Ends(a) \/ GoesOn(a) \/ Begins(a) \/ Enters(a)
<1>1. /\ tx[a] \in Transactions /\ Ending(a) \in Outcomes
      /\ {"ok", "failed", "refused", "busy", "post", "none"} \subseteq Outcomes
      /\ Steps = {"idle", "begun", "locked", "based", "ready", "written", "init",
                  "contract", "undo", "undone"}
  BY DEF TypeOK, Outcomes, Steps, Ending
<1>2. /\ [tx[a] EXCEPT !.touched = TRUE] \in Transactions
      /\ [tx[a] EXCEPT !.wrote = FALSE] \in Transactions
  BY <1>1 DEF Transactions
<1>3. CASE Begin(a)
  <2>1. PICK op \in Operations \ {"create"}, want \in Configs :
          Set(a, [Blank EXCEPT !.op = op, !.want = want, !.env = env])
    BY <1>3 DEF Begin
  <2>2. /\ [Blank EXCEPT !.op = op, !.want = want, !.env = env] \in Transactions
        /\ [Blank EXCEPT !.op = op, !.want = want, !.env = env].env = env
    BY BlankType DEF Transactions, TypeOK
  <2> QED
    BY <1>1, <1>3, <2>1, <2>2, SetType, GoType DEF Begin, Begins
<1>4. CASE Acquire(a)
  <2>1. CASE Finish(a, tx[a], "busy") \/ Finish(a, tx[a], "refused")
    BY <1>1, <2>1, EndsOnFinish
  <2>2. CASE /\ Free(LockOf(a, tx[a].env.mode), a) /\ ~EnvMoved(a)
             /\ holder' = [holder EXCEPT ![LockOf(a, tx[a].env.mode)] = a]
             /\ Go(a, "locked")
             /\ Set(a, IF tx[a].op = "reset" THEN [tx[a] EXCEPT !.want = default[a]] ELSE tx[a])
    <3> DEFINE t == IF tx[a].op = "reset" THEN [tx[a] EXCEPT !.want = default[a]] ELSE tx[a]
    <3>1. t \in Transactions /\ t.env = tx[a].env
      BY <1>1 DEF Transactions, TypeOK
    <3>2. Set(a, t)
      BY <2>2
    <3> HIDE DEF t
    <3>3. tx'[a].env = tx[a].env /\ pc'[a] = "locked"
      BY <1>1, <2>2, <3>1, <3>2, GoType, SetType
    <3> QED
      BY <1>4, <2>2, <3>3 DEF Acquire, Enters, EnvMoved
  <2> QED
    BY <1>4, <2>1, <2>2 DEF Acquire
<1>5. CASE Control(a) \/ ControlMissing(a)
  BY <1>1, <1>5, EndsOnFinish DEF Control, ControlMissing
<1>6. CASE ReadConfig(a)
  <2>1. PICK config \in {compose, Bare} : Set(a, [tx[a] EXCEPT !.op = "create", !.want = config])
    BY <1>6 DEF ReadConfig
  <2> DEFINE t == [tx[a] EXCEPT !.op = "create", !.want = config]
  <2>2. t \in Transactions /\ t.env = tx[a].env
    BY <1>1, ConfigAssumption DEF Transactions, TypeOK, Operations
  <2> HIDE DEF t
  <2> QED
    BY <1>6, <2>1, <2>2, SetType DEF t, ReadConfig, GoesOn, Insider
<1>7. CASE Baseline(a)
  <2>1. CASE Snapshot(a)
    <3> DEFINE t == [tx[a] EXCEPT !.base = compose, !.ext = ext]
    <3>1. t \in Transactions /\ t.env = tx[a].env
      BY <1>1 DEF Transactions, TypeOK
    <3>2. Set(a, t) /\ Go(a, "based")
      BY <2>1 DEF Snapshot
    <3> HIDE DEF t
    <3> QED
      BY <1>1, <1>7, <2>1, <3>1, <3>2, GoType, SetType DEF Baseline, Snapshot, GoesOn, Insider
  <2>2. CASE ~Snapshot(a)
    BY <1>1, <1>7, <2>2, EndsOnFinish DEF Baseline
  <2> QED
    BY <2>1, <2>2
<1>8. CASE Candidate(a)
  <2>1. PICK step \in {"ready", "contract"} : Go(a, step)
    BY <1>8 DEF Candidate
  <2> QED
    BY <1>1, <1>8, <2>1, GoType DEF Candidate, GoesOn, Insider
<1>9. CASE Write(a)
  <2> DEFINE t == [tx[a] EXCEPT !.wrote = TRUE]
  <2>1. t \in Transactions /\ t.env = tx[a].env
    BY <1>1 DEF Transactions
  <2>2. PICK step \in {"written", "undo"} : Go(a, step)
    BY <1>9 DEF Write
  <2>3. Set(a, t)
    BY <1>9 DEF Write
  <2> HIDE DEF t
  <2> QED
    BY <1>1, <1>9, <2>1, <2>2, <2>3, GoType, SetType DEF Write, GoesOn, Insider
<1>10. CASE BoundaryBusy(a)
  <2>1. Insider(a)
    BY <1>10 DEF BoundaryBusy, AtBoundary, Insider
  <2>2. \/ Go(a, "undo") /\ UNCHANGED <<tx, holder>>
        \/ Finish(a, tx[a], "busy")
    BY <1>10 DEF BoundaryBusy
  <2> QED
    BY <1>1, <1>10, <2>1, <2>2, GoType, EndsOnFinish DEF BoundaryBusy, GoesOn, Insider
<1>11. CASE BoundaryRefused(a)
  <2>1. Insider(a)
    BY <1>11 DEF BoundaryRefused, AtBoundary, Insider
  <2> DEFINE t == [tx[a] EXCEPT !.post = TRUE]
  <2>2. t \in Transactions /\ t.env = tx[a].env
    BY <1>1 DEF Transactions
  <2>3. \/ Go(a, "contract") /\ UNCHANGED <<tx, holder>>
        \/ Finish(a, tx[a], "refused")
        \/ Go(a, "undo") /\ Set(a, t) /\ UNCHANGED holder
    BY <1>11 DEF BoundaryRefused
  <2> HIDE DEF t
  <2> QED
    BY <1>1, <1>11, <2>1, <2>2, <2>3, GoType, SetType, EndsOnFinish DEF BoundaryRefused, GoesOn, Insider
<1>12. CASE Recreated(a)
  <2>1. Insider(a)
    BY <1>12 DEF Recreated, AtBoundary, Insider
  <2> DEFINE t == [tx[a] EXCEPT !.mutated = TRUE, !.touched = TRUE]
  <2>2. t \in Transactions /\ t.env = tx[a].env
    BY <1>1 DEF Transactions
  <2>3. Go(a, "init") /\ Set(a, t)
    BY <1>12 DEF Recreated
  <2> HIDE DEF t
  <2> QED
    BY <1>1, <1>12, <2>1, <2>2, <2>3, GoType, SetType DEF Recreated, GoesOn, Insider
<1>13. CASE RecreateFailed(a)
  <2>1. Insider(a)
    BY <1>13 DEF RecreateFailed, AtBoundary, Insider
  <2> DEFINE t == [tx[a] EXCEPT !.touched = TRUE]
  <2>2. t \in Transactions /\ t.env = tx[a].env
    BY <1>1 DEF Transactions
  <2>3. \/ Go(a, "undo") /\ Set(a, t) /\ UNCHANGED holder
        \/ Finish(a, t, "failed")
    BY <1>13 DEF RecreateFailed
  <2> HIDE DEF t
  <2> QED
    BY <1>1, <1>13, <2>1, <2>2, <2>3, GoType, SetType, EndsOnFinish DEF RecreateFailed, GoesOn, Insider
<1>14. CASE InitStep(a)
  <2>1. \/ Go(a, "undo") /\ UNCHANGED <<tx, holder>>
        \/ Finish(a, tx[a], "ok") \/ Finish(a, tx[a], "failed")
    BY <1>14 DEF InitStep
  <2> QED
    BY <1>1, <1>14, <2>1, GoType, EndsOnFinish DEF InitStep, GoesOn, Insider
<1>15. CASE ContractHandler(a)
  <2> DEFINE t == [tx[a] EXCEPT !.post = TRUE]
             clean == [tx[a] EXCEPT !.wrote = FALSE]
  <2>1. t \in Transactions /\ t.env = tx[a].env /\ clean \in Transactions
    BY <1>1 DEF Transactions
  <2>2. \/ Go(a, "undo") /\ Set(a, t) /\ UNCHANGED holder
        \/ Finish(a, tx[a], "refused") \/ Finish(a, tx[a], "post") \/ Finish(a, clean, "refused")
    BY <1>15 DEF ContractHandler
  <2> HIDE DEF t, clean
  <2> QED
    BY <1>1, <1>15, <2>1, <2>2, GoType, SetType, EndsOnFinish DEF ContractHandler, GoesOn, Insider
<1>16. CASE RestoreFile(a)
  <2> DEFINE t == [tx[a] EXCEPT !.wrote = FALSE]
  <2>1. t \in Transactions /\ t.env = tx[a].env
    BY <1>1 DEF Transactions
  <2>2. \/ Go(a, "undone") /\ Set(a, t) /\ UNCHANGED holder
        \/ Finish(a, tx[a], Ending(a))
    BY <1>16 DEF RestoreFile
  <2> HIDE DEF t
  <2> QED
    BY <1>1, <1>16, <2>1, <2>2, GoType, SetType, EndsOnFinish DEF RestoreFile, GoesOn, Insider
<1>17. CASE RestoreRuntime(a)
  BY <1>1, <1>2, <1>17, EndsOnFinish DEF RestoreRuntime
<1>18. CASE Die(a)
  BY <1>1, <1>18, EndsOnFinish DEF Die
<1> QED
  BY <1>3, <1>4, <1>5, <1>6, <1>7, <1>8, <1>9, <1>10, <1>11, <1>12, <1>13, <1>14, <1>15,
     <1>16, <1>17, <1>18 DEF Step

\* What a step of a process leaves alone: the other processes and the files
\* that only the operator edits.
LEMMA ActorFrame ==
    ASSUME TypeOK, NEW a \in Actors, Step(a)
    PROVE  /\ env' = env /\ ext' = ext
           /\ explained => explained'
           /\ \A b \in Actors \ {a} : pc'[b] = pc[b] /\ tx'[b] = tx[b] /\ loaded'[b] = loaded[b]
<1> USE DEF disk
<1>1. env' = env /\ ext' = ext /\ (explained => explained')
  <2>1. CASE Die(a)
    BY <2>1 DEF Die
  <2>2. CASE ContractHandler(a) \/ RestoreFile(a) \/ RestoreRuntime(a)
    <3>1. env' = env /\ ext' = ext
      BY <2>2 DEF ContractHandler, RestoreFile, RestoreRuntime
    <3>2. explained' = TRUE \/ explained' = explained
      BY <2>2 DEF ContractHandler, RestoreFile, RestoreRuntime
    <3> QED
      BY <3>1, <3>2
  <2>3. CASE \/ Begin(a) \/ Acquire(a) \/ Control(a) \/ ControlMissing(a) \/ ReadConfig(a)
             \/ Baseline(a) \/ Candidate(a) \/ Write(a)
    <3>1. CASE Baseline(a)
      <4>1. CASE Snapshot(a)
        BY <4>1 DEF Snapshot
      <4>2. CASE ~Snapshot(a)
        BY <3>1, <4>2 DEF Baseline
      <4> QED
        BY <4>1, <4>2
    <3>2. CASE Begin(a) \/ Acquire(a) \/ Control(a) \/ ControlMissing(a)
      <4>1. Begin(a) => UNCHANGED <<env, ext, explained>>
        BY DEF Begin
      <4>2. Acquire(a) => UNCHANGED <<env, ext, explained>>
        BY DEF Acquire
      <4>3. Control(a) => UNCHANGED <<env, ext, explained>>
        BY DEF Control
      <4>4. ControlMissing(a) => UNCHANGED <<env, ext, explained>>
        BY DEF ControlMissing
      <4> QED
        BY <3>2, <4>1, <4>2, <4>3, <4>4
    <3>3. CASE ReadConfig(a) \/ Candidate(a) \/ Write(a)
      BY <3>3 DEF ReadConfig, Candidate, Write
    <3> QED
      BY <2>3, <3>1, <3>2, <3>3
  <2>4. CASE \/ BoundaryBusy(a) \/ BoundaryRefused(a) \/ Recreated(a) \/ RecreateFailed(a)
             \/ InitStep(a)
    BY <2>4 DEF BoundaryBusy, BoundaryRefused, Recreated, RecreateFailed, InitStep
  <2> QED
    BY <2>1, <2>2, <2>3, <2>4 DEF Step
<1>2. loaded' = loaded \/ \E file \in EnvFiles \cup {Nobody} : loaded' = [loaded EXCEPT ![a] = file]
  <2>1. CASE Die(a)
    BY <2>1 DEF Die, TypeOK
  <2>2. CASE ~Die(a)
    BY <2>2 DEF Step, Begin, Acquire, Control, ControlMissing, ReadConfig, Baseline, Snapshot,
       Candidate, Write, BoundaryBusy, BoundaryRefused, Recreated, RecreateFailed, InitStep,
       ContractHandler, RestoreFile, RestoreRuntime
  <2> QED
    BY <2>1, <2>2
<1>3. pc' = pc \/ \E step : Go(a, step)
  BY DEF Step, Begin, Acquire, Control, ControlMissing, ReadConfig, Baseline, Snapshot, Candidate,
     Write, BoundaryBusy, BoundaryRefused, Recreated, RecreateFailed, InitStep, ContractHandler,
     RestoreFile, RestoreRuntime, Die, Finish
<1>4. tx' = tx \/ \E t : Set(a, t)
  BY DEF Step, Begin, Acquire, Control, ControlMissing, ReadConfig, Baseline, Snapshot, Candidate,
     Write, BoundaryBusy, BoundaryRefused, Recreated, RecreateFailed, InitStep, ContractHandler,
     RestoreFile, RestoreRuntime, Die, Finish
<1>5. \A b \in Actors \ {a} : pc'[b] = pc[b] /\ tx'[b] = tx[b] /\ loaded'[b] = loaded[b]
  BY <1>2, <1>3, <1>4 DEF Go, Set, TypeOK
<1> QED
  BY <1>1, <1>5

\* What a step of the host leaves alone.
LEMMA HostFrame ==
    ASSUME TypeOK, TakeG \/ GiveG \/ OperatorCompose \/ OperatorMode \/ OperatorValue
    PROVE  /\ pc' = pc /\ tx' = tx /\ loaded' = loaded /\ container' = container
           /\ explained => explained'
           /\ \A a \in Actors, l \in Locks : holder'[l] = a <=> holder[l] = a
<1>1. CASE TakeG \/ GiveG
  BY <1>1, HolderAssumption DEF TakeG, GiveG, TypeOK
<1>2. CASE OperatorCompose \/ OperatorMode \/ OperatorValue
  BY <1>2 DEF OperatorCompose, OperatorMode, OperatorValue
<1> QED
  BY <1>1, <1>2

-----------------------------------------------------------------------------
(* Who holds which lock.                                                     *)

LEMMA LockType == \A a \in Actors, mode \in Modes : LockOf(a, mode) \in Locks
BY DEF LockOf, Locks

LEMMA LockInit == Init => LockInv
BY HolderAssumption DEF Init, LockInv, Insider

LEMMA LockStep == TypeOK /\ LockInv /\ [Next]_vars => LockInv'
<1> SUFFICES ASSUME TypeOK, LockInv, [Next]_vars PROVE LockInv'
  OBVIOUS
<1>1. CASE \E a \in Actors : Step(a)
  <2>1. PICK a \in Actors : Step(a)
    BY <1>1
  <2>2. \A b \in Actors \ {a} : /\ Insider(b)' <=> Insider(b)
                                /\ LockOf(b, tx[b].env.mode)' = LockOf(b, tx[b].env.mode)
    BY <2>1, ActorFrame DEF Insider, LockOf
  <2>3. LockOf(a, tx[a].env.mode) \in Locks
    BY LockType DEF LockOf, Locks
  <2>4. CASE Ends(a)
    <3>1. ~Insider(a)' /\ \A l \in Locks : holder'[l] # a
      BY <2>4, HolderAssumption DEF Ends, Insider
    <3>2. \A b \in Actors \ {a}, l \in Locks : holder'[l] = b <=> holder[l] = b
      BY <2>4, HolderAssumption DEF Ends
    <3>3. \A b \in Actors : LockOf(b, tx[b].env.mode) \in Locks
      BY DEF LockOf, Locks
    <3> QED
      BY <2>2, <3>1, <3>2, <3>3 DEF LockInv
  <2>5. CASE GoesOn(a)
    BY <2>2, <2>5 DEF GoesOn, LockInv, LockOf
  <2>6. CASE Begins(a)
    BY <2>2, <2>6 DEF Begins, LockInv, Insider
  <2>7. CASE Enters(a)
    <3> DEFINE l0 == LockOf(a, tx[a].env.mode)
    <3>1. /\ LockOf(a, tx[a].env.mode)' = l0 /\ Insider(a)' /\ ~Insider(a)
          /\ holder[l0] \in {Nobody, a} /\ holder' = [holder EXCEPT ![l0] = a]
      BY <2>7 DEF Enters, LockOf, Insider, Free
    <3> HIDE DEF l0
    <3>2. l0 \in Locks
      BY <2>3 DEF l0
    <3>3. holder'[l0] = a /\ \A l \in Locks \ {l0} : holder'[l] = holder[l]
      BY <3>1, <3>2 DEF TypeOK
    <3>4. \A b \in Actors \ {a}, l \in Locks : holder'[l] = b <=> holder[l] = b
      BY <3>1, <3>2, <3>3, HolderAssumption
    <3>5. \A b \in Actors : LockOf(b, tx[b].env.mode) \in Locks
      BY DEF LockOf, Locks
    <3> QED
      BY <2>2, <3>1, <3>2, <3>3, <3>4, <3>5 DEF LockInv
  <2> QED
    BY <2>1, <2>4, <2>5, <2>6, <2>7, ActorMove
<1>2. CASE TakeG \/ GiveG \/ OperatorCompose \/ OperatorMode \/ OperatorValue
  <2>1. \A a \in Actors : LockOf(a, tx[a].env.mode) \in Locks
    BY DEF LockOf, Locks
  <2> QED
    BY <1>2, <2>1, HostFrame DEF LockInv, Insider, LockOf
<1>3. CASE UNCHANGED vars
  BY <1>3 DEF vars, LockInv, Insider, LockOf
<1> QED
  BY <1>1, <1>2, <1>3 DEF Next

LEMMA ProductionLock ==
    ASSUME TypeOK, LockInv, NEW a \in Actors, ActsInProduction(a)
    PROVE  holder["G"] = a
<1>1. Insider(a) /\ holder[LockOf(a, tx[a].env.mode)] = a
  BY DEF ActsInProduction, Inside, LockInv
<1>2. LockOf(a, tx[a].env.mode) = "G"
  BY DEF ActsInProduction, Effective, LockOf
<1> QED
  BY <1>1, <1>2

\* The lock is chosen from the file and the mode from the process, and still
\* whoever acts in production holds G: one at a time, and no pinned command.
THEOREM ProductionIsExclusive == Spec => []OneProductionMutator
<1>1. TypeOK /\ LockInv => OneProductionMutator
  BY ProductionLock, HolderAssumption DEF OneProductionMutator
<1> QED
  BY <1>1, LockInit, LockStep, TypeCorrect, PTL DEF Spec

-----------------------------------------------------------------------------
(* Which mode the processes see.                                             *)

LEMMA ModeInit == Init => ModeInv
BY DEF Init, ModeInv, SeesMode

LEMMA ModeStep == TypeOK /\ ModeInv /\ [Next]_vars => ModeInv'
<1> SUFFICES ASSUME TypeOK, ModeInv, [Next]_vars PROVE ModeInv'
  OBVIOUS
<1> SUFFICES ASSUME ~explained', NEW c \in Actors PROVE SeesMode(c)'
  BY DEF ModeInv
<1>1. CASE \E a \in Actors : Step(a)
  <2>1. PICK a \in Actors : Step(a)
    BY <1>1
  <2>2. /\ ~explained /\ env' = env
        /\ \A b \in Actors \ {a} : pc'[b] = pc[b] /\ tx'[b] = tx[b] /\ loaded'[b] = loaded[b]
    BY <2>1, ActorFrame
  <2>3. CASE Ends(a)
    <3>1. loaded'[a] \in {loaded[a], env, Nobody}
      BY <2>1 DEF Step, Begin, Acquire, Control, ControlMissing, ReadConfig, Baseline, Snapshot,
         Candidate, Write, BoundaryBusy, BoundaryRefused, Recreated, RecreateFailed, InitStep,
         ContractHandler, RestoreFile, RestoreRuntime, Die, TypeOK
    <3> QED
      BY <2>2, <2>3, <3>1 DEF Ends, ModeInv, SeesMode
  <2>4. CASE GoesOn(a) \/ Begins(a) \/ Enters(a)
    BY <2>2, <2>4 DEF GoesOn, Begins, Enters, ModeInv, SeesMode, Insider
  <2> QED
    BY <2>1, <2>3, <2>4, ActorMove
<1>2. CASE TakeG \/ GiveG \/ OperatorCompose \/ OperatorMode \/ OperatorValue
  <2>1. ~explained /\ pc' = pc /\ tx' = tx /\ loaded' = loaded
    BY <1>2, HostFrame
  <2>2. env'.mode = env.mode
    BY <1>2 DEF TakeG, GiveG, OperatorCompose, OperatorMode, OperatorValue, disk, TypeOK, EnvFiles
  <2> QED
    BY <2>1, <2>2 DEF ModeInv, SeesMode
<1>3. CASE UNCHANGED vars
  BY <1>3 DEF vars, ModeInv, SeesMode
<1> QED
  BY <1>1, <1>2, <1>3 DEF Next

\* Unless the mode was edited, a boundary finds its own lock free to take.
LEMMA RelockFree ==
    ASSUME TypeOK, LockInv, ModeInv, NEW a \in Actors, Insider(a), RelockBusy(a)
    PROVE  explained
<1>1. SUFFICES ASSUME ~explained PROVE FALSE
  OBVIOUS
<1>2. env.mode = tx[a].env.mode
  BY <1>1 DEF ModeInv, SeesMode, Insider
<1> QED
  BY <1>2 DEF RelockBusy, Free, LockInv

\* ... and two processes are never inside together.
LEMMA OneInside ==
    ASSUME TypeOK, LockInv, ModeInv, ~explained, NEW a \in Actors, NEW b \in Actors,
           Insider(a), Insider(b)
    PROVE  a = b
<1>1. tx[a].env.mode = env.mode /\ tx[b].env.mode = env.mode
  BY DEF ModeInv, SeesMode, Insider
<1>2. LockOf(a, env.mode) = LockOf(b, env.mode)
  BY DEF ModeInv, SeesMode, LockOf
<1> QED
  BY <1>1, <1>2 DEF LockInv

-----------------------------------------------------------------------------
(* What a refusal and a busy answer leave behind.                            *)

LEMMA FlagInit == Init => FlagInv
<1>1. Blank.outcome = "none"
  BY BlankType
<1> QED
  BY <1>1 DEF Init, FlagInv, FlagsOf

\* What Finish leaves to be said of a.
LEMMA FlagsOnFinish ==
    ASSUME TypeOK, NEW a \in Actors, NEW t \in Transactions, NEW outcome \in Outcomes,
           Finish(a, t, outcome),
           outcome = "refused" => ~t.wrote /\ ~t.touched,
           outcome = "busy" /\ t.touched => explained'
    PROVE  FlagsOf(a)'
BY FinishType DEF FlagsOf, Insider

LEMMA FlagActor ==
    ASSUME TypeOK, LockInv, ModeInv, FlagInv, NEW a \in Actors, Step(a)
    PROVE  FlagsOf(a)'
<1>1. /\ tx[a] \in Transactions /\ Ending(a) \in {"post", "failed"} /\ Ending(a) \in Outcomes
      /\ {"ok", "failed", "refused", "busy", "post", "none"} \subseteq Outcomes
      /\ Steps = {"idle", "begun", "locked", "based", "ready", "written", "init",
                  "contract", "undo", "undone"}
  BY DEF TypeOK, Outcomes, Steps, Ending
<1>2. FlagsOf(a)
  BY DEF FlagInv
<1>3. CASE Begin(a)
  <2>1. PICK op \in Operations \ {"create"}, want \in Configs :
          Set(a, [Blank EXCEPT !.op = op, !.want = want, !.env = env])
    BY <1>3 DEF Begin
  <2> DEFINE t == [Blank EXCEPT !.op = op, !.want = want, !.env = env]
  <2>2. /\ t \in Transactions /\ t.outcome = "none"
        /\ ~t.wrote /\ ~t.touched /\ ~t.mutated
    <3>1. t \in Transactions
      BY BlankType DEF Transactions, TypeOK
    <3> QED
      BY <3>1 DEF Blank
  <2>3. Set(a, t)
    BY <2>1
  <2> HIDE DEF t
  <2>4. pc'[a] = "begun" /\ tx'[a] = t
    BY <1>1, <1>3, <2>2, <2>3, GoType, SetType DEF Begin
  <2> QED
    BY <2>2, <2>4 DEF FlagsOf
<1>4. CASE Acquire(a)
  <2>1. pc[a] = "begun"
    BY <1>4 DEF Acquire
  <2>2. CASE Finish(a, tx[a], "busy") \/ Finish(a, tx[a], "refused")
    BY <1>1, <1>2, <2>1, <2>2, FlagsOnFinish DEF FlagsOf
  <2>3. CASE /\ Go(a, "locked")
             /\ Set(a, IF tx[a].op = "reset" THEN [tx[a] EXCEPT !.want = default[a]] ELSE tx[a])
    <3> DEFINE t == IF tx[a].op = "reset" THEN [tx[a] EXCEPT !.want = default[a]] ELSE tx[a]
    <3>1. /\ t \in Transactions /\ t.outcome = tx[a].outcome /\ t.wrote = tx[a].wrote
          /\ t.touched = tx[a].touched /\ t.mutated = tx[a].mutated
      BY <1>1 DEF Transactions, TypeOK
    <3>2. Set(a, t)
      BY <2>3
    <3> HIDE DEF t
    <3>3. pc'[a] = "locked" /\ tx'[a] = t
      BY <1>1, <2>3, <3>1, <3>2, GoType, SetType
    <3> QED
      BY <1>2, <2>1, <3>1, <3>3 DEF FlagsOf
  <2> QED
    BY <1>4, <2>2, <2>3 DEF Acquire
<1>5. CASE Control(a) \/ ControlMissing(a)
  BY <1>1, <1>5, FlagsOnFinish DEF Control, ControlMissing
<1>6. CASE ReadConfig(a)
  <2>1. PICK config \in {compose, Bare} : Set(a, [tx[a] EXCEPT !.op = "create", !.want = config])
    BY <1>6 DEF ReadConfig
  <2> DEFINE t == [tx[a] EXCEPT !.op = "create", !.want = config]
  <2>2. /\ t \in Transactions /\ t.outcome = tx[a].outcome /\ t.wrote = tx[a].wrote
        /\ t.touched = tx[a].touched /\ t.mutated = tx[a].mutated
    BY <1>1, ConfigAssumption DEF Transactions, TypeOK, Operations
  <2>3. Set(a, t)
    BY <2>1
  <2> HIDE DEF t
  <2>4. pc[a] = "locked" /\ pc'[a] = "locked" /\ tx'[a] = t
    BY <1>6, <2>2, <2>3, SetType DEF ReadConfig
  <2> QED
    BY <1>2, <2>2, <2>4 DEF FlagsOf
<1>7. CASE Baseline(a)
  <2>1. CASE Snapshot(a)
    <3> DEFINE t == [tx[a] EXCEPT !.base = compose, !.ext = ext]
    <3>1. /\ t \in Transactions /\ t.outcome = tx[a].outcome /\ t.wrote = tx[a].wrote
          /\ t.touched = tx[a].touched /\ t.mutated = tx[a].mutated
      BY <1>1 DEF Transactions, TypeOK
    <3>2. Set(a, t) /\ Go(a, "based")
      BY <2>1 DEF Snapshot
    <3> HIDE DEF t
    <3>3. pc[a] = "locked" /\ pc'[a] = "based" /\ tx'[a] = t
      BY <1>1, <1>7, <3>1, <3>2, GoType, SetType DEF Baseline
    <3> QED
      BY <1>2, <3>1, <3>3 DEF FlagsOf
  <2>2. CASE ~Snapshot(a)
    BY <1>1, <1>2, <1>7, <2>2, FlagsOnFinish DEF Baseline, FlagsOf
  <2> QED
    BY <2>1, <2>2
<1>8. CASE Candidate(a)
  <2>1. PICK step \in {"ready", "contract"} : Go(a, step)
    BY <1>8 DEF Candidate
  <2>2. pc[a] = "based" /\ pc'[a] = step /\ tx'[a] = tx[a] /\ Rewrites(a)
    BY <1>1, <1>8, <2>1, GoType DEF Candidate
  <2> QED
    BY <1>2, <2>2 DEF FlagsOf, Rewrites
<1>9. CASE Write(a)
  <2> DEFINE t == [tx[a] EXCEPT !.wrote = TRUE]
  <2>1. /\ t \in Transactions /\ t.outcome = tx[a].outcome /\ t.wrote
        /\ t.touched = tx[a].touched /\ t.mutated = tx[a].mutated /\ t.op = tx[a].op
    BY <1>1 DEF Transactions
  <2>2. PICK step \in {"written", "undo"} : Go(a, step)
    BY <1>9 DEF Write
  <2>3. Set(a, t)
    BY <1>9 DEF Write
  <2> HIDE DEF t
  <2>4. pc[a] = "ready" /\ pc'[a] = step /\ tx'[a] = t
    BY <1>1, <1>9, <2>1, <2>2, <2>3, GoType, SetType DEF Write
  <2> QED
    BY <1>2, <2>1, <2>4 DEF FlagsOf, Rewrites
<1>10. CASE BoundaryBusy(a)
  <2>1. Insider(a) /\ RelockBusy(a) /\ explained' = explained
    BY <1>10 DEF BoundaryBusy, AtBoundary, Insider
  <2>2. explained
    BY <2>1, RelockFree
  <2>3. CASE Go(a, "undo") /\ UNCHANGED <<tx, holder>>
    BY <1>1, <1>2, <2>1, <2>3, GoType DEF FlagsOf, Insider
  <2>4. CASE Finish(a, tx[a], "busy")
    BY <1>1, <2>1, <2>2, <2>4, FlagsOnFinish
  <2> QED
    BY <1>10, <2>3, <2>4 DEF BoundaryBusy
<1>11. CASE BoundaryRefused(a)
  <2>1. AtBoundary(a)
    BY <1>11 DEF BoundaryRefused
  <2>2. CASE Rewrites(a) /\ Go(a, "contract") /\ UNCHANGED <<tx, holder>>
    <3>1. pc'[a] = "contract" /\ tx'[a] = tx[a]
      BY <1>1, <2>2, GoType
    <3> QED
      BY <1>2, <2>1, <2>2, <3>1 DEF FlagsOf, Rewrites, AtBoundary
  <2>3. CASE ~Rewrites(a) /\ ~tx[a].mutated /\ Finish(a, tx[a], "refused")
    <3>1. ~tx[a].wrote /\ ~tx[a].touched
      BY <1>2, <2>1, <2>3 DEF AtBoundary, FlagsOf
    <3> QED
      BY <1>1, <2>3, <3>1, FlagsOnFinish
  <2>4. CASE Go(a, "undo") /\ Set(a, [tx[a] EXCEPT !.post = TRUE])
    <3> DEFINE t == [tx[a] EXCEPT !.post = TRUE]
    <3>1. t \in Transactions /\ t.outcome = tx[a].outcome
      BY <1>1 DEF Transactions
    <3>2. Set(a, t)
      BY <2>4
    <3> HIDE DEF t
    <3>3. pc'[a] = "undo" /\ tx'[a] = t
      BY <1>1, <2>4, <3>1, <3>2, GoType, SetType
    <3> QED
      BY <1>2, <2>1, <3>1, <3>3 DEF FlagsOf, AtBoundary
  <2> QED
    BY <1>11, <2>2, <2>3, <2>4 DEF BoundaryRefused
<1>12. CASE Recreated(a)
  <2> DEFINE t == [tx[a] EXCEPT !.mutated = TRUE, !.touched = TRUE]
  <2>1. /\ t \in Transactions /\ t.outcome = tx[a].outcome /\ t.wrote = tx[a].wrote
        /\ t.mutated /\ t.op = tx[a].op
    BY <1>1 DEF Transactions
  <2>2. Go(a, "init") /\ Set(a, t)
    BY <1>12 DEF Recreated
  <2> HIDE DEF t
  <2>3. pc'[a] = "init" /\ tx'[a] = t
    BY <1>1, <2>1, <2>2, GoType, SetType
  <2> QED
    BY <1>2, <1>12, <2>1, <2>3 DEF FlagsOf, Rewrites, Recreated, AtBoundary
<1>13. CASE RecreateFailed(a)
  <2> DEFINE t == [tx[a] EXCEPT !.touched = TRUE]
  <2>1. t \in Transactions /\ t.outcome = tx[a].outcome
    BY <1>1 DEF Transactions
  <2>2. \/ Go(a, "undo") /\ Set(a, t)
        \/ Finish(a, t, "failed")
    BY <1>13 DEF RecreateFailed
  <2> HIDE DEF t
  <2>3. CASE Finish(a, t, "failed")
    BY <1>1, <2>1, <2>3, FlagsOnFinish
  <2>4. CASE Go(a, "undo") /\ Set(a, t)
    <3>1. pc'[a] = "undo" /\ tx'[a] = t
      BY <1>1, <2>1, <2>4, GoType, SetType
    <3> QED
      BY <1>2, <1>13, <2>1, <3>1 DEF FlagsOf, RecreateFailed, AtBoundary
  <2> QED
    BY <2>2, <2>3, <2>4
<1>14. CASE InitStep(a)
  <2>1. CASE Finish(a, tx[a], "ok") \/ Finish(a, tx[a], "failed")
    BY <1>1, <2>1, FlagsOnFinish
  <2>2. CASE Go(a, "undo") /\ UNCHANGED tx
    BY <1>1, <1>2, <1>14, <2>2, GoType DEF FlagsOf, InitStep
  <2> QED
    BY <1>14, <2>1, <2>2 DEF InitStep
<1>15. CASE ContractHandler(a)
  <2> DEFINE t == [tx[a] EXCEPT !.post = TRUE]
             clean == [tx[a] EXCEPT !.wrote = FALSE]
  <2>1. /\ t \in Transactions /\ t.outcome = tx[a].outcome
        /\ clean \in Transactions /\ ~clean.wrote /\ clean.touched = tx[a].touched
    BY <1>1 DEF Transactions
  <2>2. pc[a] = "contract"
    BY <1>15 DEF ContractHandler
  <2>3. \/ ~tx[a].wrote /\ Finish(a, tx[a], "refused")
        \/ Go(a, "undo") /\ Set(a, t)
        \/ ~tx[a].mutated /\ Finish(a, clean, "refused")
        \/ Finish(a, tx[a], "post")
    BY <1>15 DEF ContractHandler
  <2> HIDE DEF t, clean
  <2>4. CASE Go(a, "undo") /\ Set(a, t)
    <3>1. pc'[a] = "undo" /\ tx'[a] = t
      BY <1>1, <2>1, <2>4, GoType, SetType
    <3> QED
      BY <1>2, <2>1, <2>2, <3>1 DEF FlagsOf
  <2>5. CASE ~tx[a].wrote /\ Finish(a, tx[a], "refused")
    <3>1. ~tx[a].touched
      BY <1>2, <2>2, <2>5 DEF FlagsOf
    <3> QED
      BY <1>1, <2>5, <3>1, FlagsOnFinish
  <2>6. CASE ~tx[a].mutated /\ Finish(a, clean, "refused")
    <3>1. ~tx[a].touched
      BY <1>2, <2>2, <2>6 DEF FlagsOf
    <3> QED
      BY <1>1, <2>1, <2>6, <3>1, FlagsOnFinish
  <2>7. CASE Finish(a, tx[a], "post")
    BY <1>1, <2>7, FlagsOnFinish
  <2> QED
    BY <2>3, <2>4, <2>5, <2>6, <2>7
<1>16. CASE RestoreFile(a)
  <2> DEFINE t == [tx[a] EXCEPT !.wrote = FALSE]
  <2>1. t \in Transactions /\ t.outcome = tx[a].outcome
    BY <1>1 DEF Transactions
  <2>2. \/ Go(a, "undone") /\ Set(a, t)
        \/ Finish(a, tx[a], Ending(a))
    BY <1>16 DEF RestoreFile
  <2> HIDE DEF t
  <2>3. CASE Go(a, "undone") /\ Set(a, t)
    <3>1. pc'[a] = "undone" /\ tx'[a] = t
      BY <1>1, <2>1, <2>3, GoType, SetType
    <3> QED
      BY <1>2, <1>16, <2>1, <3>1 DEF FlagsOf, RestoreFile
  <2>4. CASE Finish(a, tx[a], Ending(a))
    BY <1>1, <2>4, FlagsOnFinish
  <2> QED
    BY <2>2, <2>3, <2>4
<1>17. CASE RestoreRuntime(a)
  <2> DEFINE t == [tx[a] EXCEPT !.touched = TRUE]
  <2>1. t \in Transactions
    BY <1>1 DEF Transactions
  <2>2. Finish(a, t, Ending(a)) \/ Finish(a, tx[a], Ending(a))
    BY <1>17 DEF RestoreRuntime
  <2> HIDE DEF t
  <2> QED
    BY <1>1, <2>1, <2>2, FlagsOnFinish
<1>18. CASE Die(a)
  BY <1>1, <1>18, FlagsOnFinish DEF Die
<1> QED
  BY <1>3, <1>4, <1>5, <1>6, <1>7, <1>8, <1>9, <1>10, <1>11, <1>12, <1>13, <1>14, <1>15,
     <1>16, <1>17, <1>18 DEF Step

LEMMA FlagStep == TypeOK /\ LockInv /\ ModeInv /\ FlagInv /\ [Next]_vars => FlagInv'
<1> SUFFICES ASSUME TypeOK, LockInv, ModeInv, FlagInv, [Next]_vars PROVE FlagInv'
  OBVIOUS
<1>1. CASE \E a \in Actors : Step(a)
  <2>1. PICK a \in Actors : Step(a)
    BY <1>1
  <2>2. FlagsOf(a)'
    BY <2>1, FlagActor
  <2>3. \A b \in Actors \ {a} : FlagsOf(b)'
    BY <2>1, ActorFrame DEF FlagInv, FlagsOf, Rewrites
  <2> QED
    BY <2>2, <2>3 DEF FlagInv
<1>2. CASE TakeG \/ GiveG \/ OperatorCompose \/ OperatorMode \/ OperatorValue
  BY <1>2, HostFrame DEF FlagInv, FlagsOf, Rewrites
<1>3. CASE UNCHANGED vars
  BY <1>3 DEF vars, FlagInv, FlagsOf, Rewrites
<1> QED
  BY <1>1, <1>2, <1>3 DEF Next

LEMMA FlagsHold == Spec => [](TypeOK /\ LockInv /\ ModeInv /\ FlagInv)
BY LockInit, LockStep, ModeInit, ModeStep, FlagInit, FlagStep, TypeCorrect, PTL DEF Spec

\* A refusal without the post-mutation error leaves no candidate in the file
\* and gave Docker nothing to do; a busy answer leaves the container alone,
\* whatever interleaves, until the operator edits the mode or something was
\* already reported as broken.
THEOREM RefusalsAreClean == Spec => []RefusalChangedNothing
<1>1. FlagInv => RefusalChangedNothing
  BY DEF FlagInv, FlagsOf, RefusalChangedNothing
<1> QED
  BY <1>1, FlagsHold, PTL

-----------------------------------------------------------------------------
(* Which documents run.                                                      *)

LEMMA RuleInit == Init => RuleInv
<1> SUFFICES ASSUME Init PROVE RuleInv
  OBVIOUS
<1>1. \A a \in Actors : RulesOf(a)
  BY DEF Init, RulesOf
<1>2. env.rev = 0
  BY DEF Init
<1>3. container = Nobody \/ (container.config = First /\ container.env = env)
  BY DEF Init
<1>4. Allowed(First, env)
  BY <1>2, RuleAssumption DEF Allowed, SecretsAllowed, DocumentAllowed, ResolvedAllowed
<1> QED
  BY <1>1, <1>3, <1>4 DEF RuleInv, OnlyAllowedRuns

\* What a transaction that keeps its snapshot has been told by the rules.
LEMMA RulesKept ==
    ASSUME TypeOK, NEW a \in Actors, RulesOf(a), loaded' = loaded,
           tx'[a].env = tx[a].env, tx'[a].base = tx[a].base,
           pc[a] \notin {"idle", "begun", "locked"},
           pc'[a] \in {"ready", "written"} =>
              tx'[a].want = tx[a].want /\ Allowed(tx[a].want, Effective(a, tx[a].env))
    PROVE  RulesOf(a)'
<1>1. Effective(a, tx[a].env)' = Effective(a, tx[a].env)
  BY DEF Effective
<1>2. Allowed(tx[a].base, Effective(a, tx[a].env))
  BY DEF RulesOf
<1>3. /\ Allowed(tx[a].base, Effective(a, tx[a].env))'
      /\ pc'[a] \in {"ready", "written"} => Allowed(tx[a].want, Effective(a, tx[a].env))'
  BY <1>1, <1>2 DEF Allowed, SecretsAllowed, DocumentAllowed, ResolvedAllowed
<1> QED
  BY <1>3 DEF RulesOf

LEMMA RuleActor ==
    ASSUME TypeOK, FlagInv, RuleInv, NEW a \in Actors, Step(a)
    PROVE  RulesOf(a)'
<1>1. /\ tx[a] \in Transactions
      /\ Steps = {"idle", "begun", "locked", "based", "ready", "written", "init",
                  "contract", "undo", "undone"}
  BY DEF TypeOK, Steps
<1>2. RulesOf(a) /\ FlagsOf(a)
  BY DEF RuleInv, FlagInv
<1>3. CASE pc'[a] \in {"idle", "begun", "locked"}
  BY <1>3 DEF RulesOf
<1>4. CASE pc'[a] \notin {"idle", "begun", "locked"}
  <2>1. GoesOn(a)
    BY <1>4, ActorMove DEF Ends, Begins, Enters
  <2>2. CASE Baseline(a)
    <3>1. Snapshot(a) /\ Allowed(compose, Effective(a, tx[a].env))
      BY <1>1, <1>4, <2>1, <2>2, FinishType DEF Baseline, Outcomes, GoesOn, Insider
    <3> DEFINE t == [tx[a] EXCEPT !.base = compose, !.ext = ext]
    <3>2. t \in Transactions /\ t.base = compose /\ t.env = tx[a].env
      BY <1>1 DEF Transactions, TypeOK
    <3>3. Set(a, t) /\ Go(a, "based")
      BY <3>1 DEF Snapshot
    <3> HIDE DEF t
    <3>4. tx'[a].base = compose /\ pc'[a] = "based"
      BY <1>1, <3>2, <3>3, GoType, SetType
    <3>5. Effective(a, tx[a].env)' = Effective(a, tx[a].env)
      BY <2>1 DEF GoesOn, Effective
    <3>6. Allowed(tx[a].base, Effective(a, tx[a].env))'
      BY <3>1, <3>4, <3>5 DEF Allowed, SecretsAllowed, DocumentAllowed, ResolvedAllowed
    <3> QED
      BY <3>4, <3>6 DEF RulesOf
  <2>3. CASE Candidate(a)
    <3>1. CASE CandidateAllowed(a)
      <4>1. Allowed(tx[a].want, Effective(a, tx[a].env))
        BY <3>1 DEF CandidateAllowed
      <4>2. tx' = tx /\ pc[a] = "based"
        BY <2>3 DEF Candidate
      <4> QED
        BY <1>2, <2>1, <4>1, <4>2, RulesKept DEF GoesOn
    <3>2. CASE ~CandidateAllowed(a)
      <4>1. tx' = tx /\ pc[a] = "based" /\ Go(a, "contract")
        BY <2>3, <3>2 DEF Candidate
      <4>2. pc'[a] = "contract"
        BY <1>1, <4>1, GoType
      <4> QED
        BY <1>2, <2>1, <4>1, <4>2, RulesKept DEF GoesOn
    <3> QED
      BY <3>1, <3>2
  <2>4. CASE Write(a)
    <3> DEFINE t == [tx[a] EXCEPT !.wrote = TRUE]
    <3>1. t \in Transactions /\ t.base = tx[a].base /\ t.want = tx[a].want /\ t.env = tx[a].env
      BY <1>1 DEF Transactions
    <3>2. Set(a, t) /\ pc[a] = "ready"
      BY <2>4 DEF Write
    <3> HIDE DEF t
    <3>3. tx'[a] = t
      BY <3>1, <3>2, SetType
    <3>4. Allowed(tx[a].want, Effective(a, tx[a].env))
      BY <1>2, <3>2 DEF RulesOf
    <3> QED
      BY <1>2, <2>1, <3>1, <3>2, <3>3, <3>4, RulesKept DEF GoesOn
  <2>5. CASE \/ BoundaryBusy(a) \/ BoundaryRefused(a) \/ Recreated(a) \/ RecreateFailed(a)
             \/ InitStep(a) \/ ContractHandler(a) \/ RestoreFile(a)
    <3>1. pc[a] \notin {"idle", "begun", "locked"}
      BY <2>5 DEF BoundaryBusy, BoundaryRefused, Recreated, RecreateFailed, InitStep,
         ContractHandler, RestoreFile, AtBoundary
    <3>2. PICK step \in {"undo", "contract", "init", "undone"} : Go(a, step)
      <4>1. \A t \in Transactions, outcome \in Outcomes : ~Finish(a, t, outcome)
        BY <1>4, FinishType
      <4>2. /\ [tx[a] EXCEPT !.touched = TRUE] \in Transactions /\ Ending(a) \in Outcomes
            /\ [tx[a] EXCEPT !.wrote = FALSE] \in Transactions
            /\ {"ok", "failed", "refused", "busy", "post"} \subseteq Outcomes
        BY <1>1 DEF Transactions, Outcomes, Ending
      <4> QED
        BY <1>1, <2>5, <4>1, <4>2 DEF BoundaryBusy, BoundaryRefused, Recreated, RecreateFailed,
           InitStep, ContractHandler, RestoreFile
    <3>3. pc'[a] = step
      BY <1>1, <3>2, GoType
    <3>4. tx'[a].base = tx[a].base
      <4>1. \A t \in Transactions, outcome \in Outcomes : ~Finish(a, t, outcome)
        BY <1>4, FinishType
      <4>2. /\ [tx[a] EXCEPT !.touched = TRUE] \in Transactions /\ Ending(a) \in Outcomes
            /\ [tx[a] EXCEPT !.wrote = FALSE] \in Transactions
            /\ [tx[a] EXCEPT !.post = TRUE] \in Transactions
            /\ [tx[a] EXCEPT !.mutated = TRUE, !.touched = TRUE] \in Transactions
            /\ {"ok", "failed", "refused", "busy", "post"} \subseteq Outcomes
        BY <1>1 DEF Transactions, Outcomes, Ending
      <4>3. \/ tx' = tx
            \/ Set(a, [tx[a] EXCEPT !.touched = TRUE])
            \/ Set(a, [tx[a] EXCEPT !.wrote = FALSE])
            \/ Set(a, [tx[a] EXCEPT !.post = TRUE])
            \/ Set(a, [tx[a] EXCEPT !.mutated = TRUE, !.touched = TRUE])
        <5>1. CASE BoundaryBusy(a) \/ BoundaryRefused(a)
          BY <1>1, <4>1, <4>2, <5>1 DEF BoundaryBusy, BoundaryRefused
        <5>2. CASE Recreated(a) \/ RecreateFailed(a)
          BY <1>1, <4>1, <4>2, <5>2 DEF Recreated, RecreateFailed
        <5>3. CASE InitStep(a) \/ ContractHandler(a) \/ RestoreFile(a)
          BY <1>1, <4>1, <4>2, <5>3 DEF InitStep, ContractHandler, RestoreFile
        <5> QED
          BY <2>5, <5>1, <5>2, <5>3
      <4>4. \A t \in Transactions : Set(a, t) => tx'[a] = t
        BY SetType
      <4>5. CASE tx' # tx
        <5>1. PICK t \in Transactions : Set(a, t) /\ t.base = tx[a].base
          <6>1. /\ [tx[a] EXCEPT !.touched = TRUE].base = tx[a].base
                /\ [tx[a] EXCEPT !.wrote = FALSE].base = tx[a].base
                /\ [tx[a] EXCEPT !.post = TRUE].base = tx[a].base
                /\ [tx[a] EXCEPT !.mutated = TRUE, !.touched = TRUE].base = tx[a].base
            BY <1>1 DEF Transactions
          <6> QED
            BY <4>2, <4>3, <4>5, <6>1
        <5> QED
          BY <4>4, <5>1
      <4> QED
        BY <4>5
    <3> QED
      BY <1>2, <2>1, <3>1, <3>2, <3>3, <3>4, RulesKept DEF GoesOn
  <2>6. CASE RestoreRuntime(a) \/ Die(a)
    <3>1. \A t \in Transactions, outcome \in Outcomes : ~Finish(a, t, outcome)
      BY <1>4, FinishType
    <3>2. /\ [tx[a] EXCEPT !.touched = TRUE] \in Transactions /\ Ending(a) \in Outcomes
          /\ "none" \in Outcomes
      BY <1>1 DEF Transactions, Outcomes, Ending
    <3> QED
      BY <1>1, <2>6, <3>1, <3>2 DEF RestoreRuntime, Die
  <2>7. CASE \/ Begin(a) \/ Acquire(a) \/ Control(a) \/ ControlMissing(a) \/ ReadConfig(a)
    <3>1. \A t \in Transactions, outcome \in Outcomes : ~Finish(a, t, outcome)
      BY <1>4, FinishType
    <3>2. {"ok", "failed", "refused", "busy"} \subseteq Outcomes
      BY DEF Outcomes
    <3>3. \A step \in {"begun", "locked"} : ~Go(a, step)
      BY <1>1, <1>4, GoType
    <3> QED
      BY <1>1, <1>4, <2>7, <3>1, <3>2, <3>3 DEF Begin, Acquire, Control, ControlMissing, ReadConfig
  <2> QED
    BY <2>2, <2>3, <2>4, <2>5, <2>6, <2>7 DEF Step
<1> QED
  BY <1>3, <1>4

\* Where a container may come from: a step leaves it, starts or stops it,
\* removes it, or creates it from a document of the transaction that the
\* rules have allowed.
LEMMA ContainerActor ==
    ASSUME TypeOK, FlagInv, RuleInv, NEW a \in Actors, Step(a), container' # Nobody
    PROVE  \/ container # Nobody /\ container'.config = container.config
                                /\ container'.env = container.env
           \/ Allowed(container'.config, container'.env)
<1>1. RulesOf(a) /\ FlagsOf(a)
  BY DEF RuleInv, FlagInv
<1>2. \A config \in Configs :
         Made(a, config).config = config /\ Made(a, config).env = Effective(a, tx[a].env)
  BY MadeType
<1>3. CASE Control(a)
  BY <1>3 DEF Control, TypeOK, Containers
<1>4. CASE Recreated(a) \/ RecreateFailed(a)
  <2>1. Allowed(Source(a), Effective(a, tx[a].env))
    BY <1>1, <1>4 DEF Recreated, RecreateFailed, AtBoundary, RulesOf, FlagsOf, Source, Rewrites
  <2>2. container' = container \/ container' = Made(a, Source(a))
    BY <1>4 DEF Recreated, RecreateFailed
  <2> QED
    BY <1>2, <2>1, <2>2, SourceType
<1>5. CASE RestoreRuntime(a)
  <2>1. Allowed(tx[a].base, Effective(a, tx[a].env))
    BY <1>1, <1>5 DEF RestoreRuntime, RulesOf
  <2>2. container' = container \/ container' = Made(a, tx[a].base)
    BY <1>5 DEF RestoreRuntime, Frozen
  <2> QED
    BY <1>2, <2>1, <2>2, SourceType
<1>6. CASE ~(Control(a) \/ Recreated(a) \/ RecreateFailed(a) \/ RestoreRuntime(a))
  <2>1. container' = container
    <3>1. CASE \/ Begin(a) \/ Acquire(a) \/ ControlMissing(a) \/ ReadConfig(a)
      BY <3>1 DEF Begin, Acquire, ControlMissing, ReadConfig
    <3>2. CASE Baseline(a)
      BY <3>2 DEF Baseline, Snapshot
    <3>3. CASE Candidate(a) \/ Write(a) \/ BoundaryBusy(a) \/ BoundaryRefused(a)
      BY <3>3 DEF Candidate, Write, BoundaryBusy, BoundaryRefused
    <3>4. CASE InitStep(a) \/ Die(a)
      BY <3>4 DEF InitStep, Die
    <3>5. CASE ContractHandler(a) \/ RestoreFile(a)
      BY <3>5 DEF ContractHandler, RestoreFile
    <3> QED
      BY <1>6, <3>1, <3>2, <3>3, <3>4, <3>5 DEF Step
  <2> QED
    BY <2>1
<1> QED
  BY <1>3, <1>4, <1>5, <1>6

LEMMA RuleStep == TypeOK /\ FlagInv /\ RuleInv /\ [Next]_vars => RuleInv'
<1> SUFFICES ASSUME TypeOK, FlagInv, RuleInv, [Next]_vars PROVE RuleInv'
  OBVIOUS
<1>1. CASE \E a \in Actors : Step(a)
  <2>1. PICK a \in Actors : Step(a)
    BY <1>1
  <2>2. RulesOf(a)'
    BY <2>1, RuleActor
  <2>3. ASSUME NEW b \in Actors \ {a} PROVE RulesOf(b)'
    <3>1. RulesOf(b) /\ pc'[b] = pc[b] /\ tx'[b] = tx[b] /\ loaded'[b] = loaded[b]
      BY <2>1, ActorFrame DEF RuleInv
    <3>2. Effective(b, tx[b].env)' = Effective(b, tx[b].env)
      BY <3>1 DEF Effective
    <3> QED
      BY <3>1, <3>2 DEF RulesOf, Allowed, SecretsAllowed, DocumentAllowed, ResolvedAllowed
  <2>4. OnlyAllowedRuns'
    <3>1. container' # Nobody => Allowed(container'.config, container'.env)
      BY <2>1, ContainerActor DEF RuleInv, OnlyAllowedRuns
    <3> QED
      BY <3>1 DEF OnlyAllowedRuns, Allowed, SecretsAllowed, DocumentAllowed, ResolvedAllowed
  <2> QED
    BY <2>2, <2>3, <2>4 DEF RuleInv
<1>2. CASE TakeG \/ GiveG \/ OperatorCompose \/ OperatorMode \/ OperatorValue
  <2>1. pc' = pc /\ tx' = tx /\ loaded' = loaded /\ container' = container
    BY <1>2, HostFrame
  <2> QED
    BY <2>1 DEF RuleInv, RulesOf, OnlyAllowedRuns, Allowed, SecretsAllowed, DocumentAllowed,
       ResolvedAllowed, Effective
<1>3. CASE UNCHANGED vars
  BY <1>3 DEF vars, RuleInv, RulesOf, OnlyAllowedRuns, Allowed, SecretsAllowed, DocumentAllowed,
     ResolvedAllowed, Effective
<1> QED
  BY <1>1, <1>2, <1>3 DEF Next

\* No container runs a document that the rules refuse with the values it was
\* given: a restoration, which asks nothing, goes back to a baseline that
\* was asked about.
THEOREM RefusedNeverRuns == Spec => []OnlyAllowedRuns
<1>1. RuleInv => OnlyAllowedRuns
  BY DEF RuleInv
<1> QED
  BY <1>1, FlagsHold, RuleInit, RuleStep, PTL DEF Spec

-----------------------------------------------------------------------------
(* When file and container part.                                             *)

LEMMA FileInit == Init => FileInv
<1> SUFFICES ASSUME Init PROVE FileInv
  OBVIOUS
<1>1. \A a \in Actors : FileOf(a)
  BY DEF Init, FileOf
<1>2. DriftIsExplained
  BY DEF Init, DriftIsExplained
<1> QED
  BY <1>1, <1>2 DEF FileInv

\* The only process inside, or one that enters, and what it leaves when it
\* ends: file and container agree.
LEMMA FileActor ==
    ASSUME TypeOK, LockInv, ModeInv, FlagInv, FileInv, NEW a \in Actors, Step(a), ~explained'
    PROVE  /\ FileOf(a)'
           /\ Ends(a) /\ (\A b \in Actors : ~Insider(b)') => Runs(compose)'
<1>1. /\ tx[a] \in Transactions /\ ~explained
      /\ Steps = {"idle", "begun", "locked", "based", "ready", "written", "init",
                  "contract", "undo", "undone"}
      /\ {"ok", "failed", "refused", "busy", "post"} \subseteq Outcomes
      /\ Ending(a) \in Outcomes
  BY ActorFrame DEF TypeOK, Steps, Outcomes, Ending
<1>2. FileOf(a) /\ FlagsOf(a) /\ DriftIsExplained
  BY <1>1 DEF FileInv, FlagInv
<1>3. (\A b \in Actors : ~Insider(b)) => Runs(compose)
  BY <1>1, <1>2, HolderAssumption DEF DriftIsExplained, Inside, LockInv, Runs
<1>4. /\ \A config \in Configs : Made(a, config).config = config
      /\ Source(a) \in Configs /\ tx[a].base \in Configs
  BY MadeType, SourceType
<1>5. \A b \in Actors \ {a} : Insider(b)' <=> Insider(b)
  BY ActorFrame DEF Insider
<1>6. ASSUME NEW t \in Transactions, NEW outcome \in Outcomes, Finish(a, t, outcome)
      PROVE  FileOf(a)'
  BY <1>6, FinishType DEF FileOf
<1>7. CASE Begin(a)
  <2>1. pc'[a] = "begun"
    BY <1>1, <1>7, GoType DEF Begin
  <2> QED
    BY <2>1 DEF FileOf, Ends
<1>8. CASE Acquire(a)
  <2>1. ~Insider(a) /\ compose' = compose /\ container' = container
    BY <1>8 DEF Acquire, Insider, disk
  <2>2. CASE Finish(a, tx[a], "busy") \/ Finish(a, tx[a], "refused")
    BY <1>1, <1>3, <1>5, <1>6, <2>1, <2>2 DEF Runs
  <2>3. CASE Enters(a)
    <3>1. Insider(a)' /\ pc'[a] = "locked"
      BY <2>3 DEF Enters, Insider
    <3>2. \A b \in Actors : ~Insider(b)
      <4>1. SUFFICES ASSUME NEW b \in Actors, Insider(b) PROVE FALSE
        OBVIOUS
      <4>2. LockOf(b, env.mode) = LockOf(a, env.mode) /\ tx[b].env.mode = env.mode
        BY <1>1, <4>1 DEF ModeInv, SeesMode, LockOf, Insider
      <4> QED
        BY <2>1, <2>3, <4>1, <4>2, HolderAssumption DEF Enters, Free, LockInv
    <3> QED
      BY <1>3, <2>1, <3>1, <3>2 DEF FileOf, Runs, Ends
  <2>4. CASE Go(a, "locked")
    <3>1. pc'[a] = "locked" /\ pc[a] = "begun"
      BY <1>1, <1>8, <2>4, GoType DEF Acquire
    <3>2. Enters(a)
      BY <3>1, ActorMove DEF Ends, GoesOn, Begins, Insider
    <3> QED
      BY <2>3, <3>2
  <2> QED
    BY <1>8, <2>2, <2>4 DEF Acquire
<1>9. CASE Control(a) \/ ControlMissing(a)
  <2>1. /\ pc[a] = "locked" /\ compose' = compose
        /\ Finish(a, tx[a], "ok") \/ Finish(a, tx[a], "failed")
        /\ container' # Nobody => container # Nobody /\ container'.config = container.config
    BY <1>9 DEF Control, ControlMissing, disk, TypeOK, Containers
  <2>2. Runs(compose)'
    BY <1>2, <2>1 DEF FileOf, Runs
  <2> QED
    BY <1>1, <1>6, <2>1, <2>2
<1>10. CASE ReadConfig(a)
  <2>1. pc[a] = "locked" /\ pc' = pc /\ compose' = compose /\ container' = container
    BY <1>10 DEF ReadConfig, disk
  <2> QED
    BY <1>2, <2>1 DEF FileOf, Runs, Ends
<1>11. CASE Baseline(a)
  <2>1. pc[a] = "locked" /\ compose' = compose /\ container' = container
    BY <1>11 DEF Baseline, Snapshot, disk
  <2>2. CASE Snapshot(a)
    <3> DEFINE t == [tx[a] EXCEPT !.base = compose, !.ext = ext]
    <3>1. t \in Transactions /\ t.base = compose
      BY <1>1 DEF Transactions, TypeOK
    <3>2. Set(a, t) /\ Go(a, "based")
      BY <2>2 DEF Snapshot
    <3> HIDE DEF t
    <3>3. pc'[a] = "based" /\ tx'[a].base = compose
      BY <1>1, <3>1, <3>2, GoType, SetType
    <3> QED
      BY <1>2, <2>1, <3>3 DEF FileOf, Runs, Ends
  <2>3. CASE Finish(a, tx[a], "refused")
    BY <1>1, <1>2, <1>6, <2>1, <2>3 DEF FileOf, Runs
  <2> QED
    BY <1>11, <2>2, <2>3 DEF Baseline
<1>12. CASE Candidate(a)
  <2>1. PICK step \in {"ready", "contract"} : Go(a, step)
    BY <1>12 DEF Candidate
  <2>2. /\ pc[a] = "based" /\ pc'[a] = step /\ tx' = tx
        /\ compose' = compose /\ container' = container
    BY <1>1, <1>12, <2>1, GoType DEF Candidate, disk
  <2> QED
    BY <1>2, <2>2 DEF FileOf, Runs, Ends
<1>13. CASE Write(a)
  <2> DEFINE t == [tx[a] EXCEPT !.wrote = TRUE]
  <2>1. t \in Transactions /\ t.base = tx[a].base /\ t.want = tx[a].want
    BY <1>1 DEF Transactions
  <2>2. PICK step \in {"written", "undo"} : Go(a, step) /\ (step = "written" => compose' = tx[a].want)
    BY <1>13 DEF Write
  <2>3. Set(a, t) /\ pc[a] = "ready" /\ container' = container
    BY <1>13 DEF Write
  <2> HIDE DEF t
  <2>4. pc'[a] = step /\ tx'[a] = t
    BY <1>1, <2>1, <2>2, <2>3, GoType, SetType
  <2> QED
    BY <1>2, <2>1, <2>2, <2>3, <2>4 DEF FileOf, Runs, Ends
<1>14. CASE BoundaryBusy(a)
  <2>1. Insider(a) /\ RelockBusy(a)
    BY <1>14 DEF BoundaryBusy, AtBoundary, Insider
  <2> QED
    BY <1>1, <2>1, RelockFree
<1>15. CASE BoundaryRefused(a)
  <2>1. AtBoundary(a) /\ compose' = compose /\ container' = container
    BY <1>15 DEF BoundaryRefused, disk
  <2>2. CASE Rewrites(a) /\ Go(a, "contract") /\ UNCHANGED <<tx, holder>>
    <3>1. pc'[a] = "contract" /\ tx'[a] = tx[a]
      BY <1>1, <2>2, GoType
    <3> QED
      BY <1>2, <2>1, <2>2, <3>1 DEF FileOf, FlagsOf, Rewrites, AtBoundary, Runs, Ends
  <2>3. CASE ~Rewrites(a) /\ ~tx[a].mutated /\ Finish(a, tx[a], "refused")
    <3>1. pc[a] = "based"
      BY <1>2, <2>1, <2>3 DEF FlagsOf, AtBoundary
    <3> QED
      BY <1>1, <1>2, <1>6, <2>1, <2>3, <3>1 DEF FileOf, Runs
  <2>4. CASE Go(a, "undo") /\ Set(a, [tx[a] EXCEPT !.post = TRUE])
    <3>1. pc'[a] = "undo"
      BY <1>1, <2>4, GoType
    <3> QED
      BY <3>1 DEF FileOf, Ends
  <2> QED
    BY <1>15, <2>2, <2>3, <2>4 DEF BoundaryRefused
<1>16. CASE Recreated(a)
  <2> DEFINE t == [tx[a] EXCEPT !.mutated = TRUE, !.touched = TRUE]
  <2>1. /\ t \in Transactions /\ t.op = tx[a].op /\ t.want = tx[a].want /\ t.base = tx[a].base
    BY <1>1 DEF Transactions
  <2>2. Go(a, "init") /\ Set(a, t)
    BY <1>16 DEF Recreated
  <2> HIDE DEF t
  <2>3. pc'[a] = "init" /\ tx'[a] = t
    BY <1>1, <2>1, <2>2, GoType, SetType
  <2>4. compose' = Source(a) /\ container' = Made(a, Source(a))
    BY <1>16 DEF Recreated, Moved, disk
  <2>5. Source(a)' = Source(a)
    BY <2>1, <2>3 DEF Source, Rewrites
  <2> QED
    BY <1>4, <2>3, <2>4, <2>5 DEF FileOf, Runs, Ends
<1>17. CASE RecreateFailed(a)
  <2> DEFINE t == [tx[a] EXCEPT !.touched = TRUE]
  <2>1. t \in Transactions
    BY <1>1 DEF Transactions
  <2>2. \/ Go(a, "undo") /\ Set(a, t)
        \/ ~Rewrites(a) /\ Finish(a, t, "failed")
    BY <1>17 DEF RecreateFailed
  <2> HIDE DEF t
  <2>3. CASE Go(a, "undo")
    <3>1. pc'[a] = "undo"
      BY <1>1, <2>3, GoType
    <3> QED
      BY <3>1 DEF FileOf, Ends
  <2>4. CASE ~Rewrites(a) /\ Finish(a, t, "failed")
    <3>1. compose' = compose /\ compose = tx[a].base /\ Runs(tx[a].base)
      BY <1>2, <1>17, <2>4 DEF RecreateFailed, FlagsOf, FileOf, AtBoundary, disk
    <3>2. container' \in {container, Nobody, Made(a, tx[a].base)}
      BY <1>17, <2>4 DEF RecreateFailed, Source
    <3>3. Runs(compose)'
      BY <1>4, <3>1, <3>2 DEF Runs
    <3> QED
      BY <1>1, <1>6, <2>1, <2>4, <3>3
  <2> QED
    BY <2>2, <2>3, <2>4
<1>18. CASE InitStep(a)
  <2>1. pc[a] = "init" /\ compose' = compose /\ container' = container
    BY <1>18 DEF InitStep, disk
  <2>2. CASE Finish(a, tx[a], "ok") \/ Finish(a, tx[a], "failed")
    BY <1>1, <1>2, <1>6, <2>1, <2>2 DEF FileOf, Runs
  <2>3. CASE Go(a, "undo")
    <3>1. pc'[a] = "undo"
      BY <1>1, <2>3, GoType
    <3> QED
      BY <3>1 DEF FileOf, Ends
  <2> QED
    BY <1>18, <2>2, <2>3 DEF InitStep
<1>19. CASE ContractHandler(a)
  <2>1. pc[a] = "contract" /\ container' = container
    BY <1>19 DEF ContractHandler
  <2> DEFINE clean == [tx[a] EXCEPT !.wrote = FALSE]
  <2>2. clean \in Transactions
    BY <1>1 DEF Transactions
  <2>3. \/ /\ ~tx[a].wrote /\ compose = tx[a].base /\ compose' = compose
           /\ Finish(a, tx[a], "refused")
        \/ Go(a, "undo")
        \/ ~tx[a].mutated /\ compose' = tx[a].base /\ Finish(a, clean, "refused")
    BY <1>19 DEF ContractHandler
  <2> HIDE DEF clean
  <2>4. CASE Go(a, "undo")
    <3>1. pc'[a] = "undo"
      BY <1>1, <2>4, GoType
    <3> QED
      BY <3>1 DEF FileOf, Ends
  <2>5. CASE /\ ~tx[a].wrote /\ compose = tx[a].base /\ compose' = compose
             /\ Finish(a, tx[a], "refused")
    <3>1. ~tx[a].mutated
      BY <1>2, <2>1, <2>5 DEF FlagsOf
    <3> QED
      BY <1>1, <1>2, <1>6, <2>1, <2>5, <3>1 DEF FileOf, Runs
  <2>6. CASE ~tx[a].mutated /\ compose' = tx[a].base /\ Finish(a, clean, "refused")
    BY <1>1, <1>2, <1>6, <2>1, <2>2, <2>6 DEF FileOf, Runs
  <2> QED
    BY <2>3, <2>4, <2>5, <2>6
<1>20. CASE RestoreFile(a)
  <2> DEFINE t == [tx[a] EXCEPT !.wrote = FALSE]
  <2>1. t \in Transactions /\ t.base = tx[a].base
    BY <1>1 DEF Transactions
  <2>2. Go(a, "undone") /\ Set(a, t) /\ compose' = tx[a].base
    BY <1>20 DEF RestoreFile
  <2> HIDE DEF t
  <2>3. pc'[a] = "undone" /\ tx'[a] = t
    BY <1>1, <2>1, <2>2, GoType, SetType
  <2> QED
    BY <2>1, <2>2, <2>3 DEF FileOf, Ends
<1>21. CASE RestoreRuntime(a)
  <2> DEFINE t == [tx[a] EXCEPT !.touched = TRUE]
  <2>1. t \in Transactions
    BY <1>1 DEF Transactions
  <2>2. /\ pc[a] = "undone" /\ compose' = compose
        /\ container' = Made(a, tx[a].base) /\ Finish(a, t, Ending(a))
    BY <1>21 DEF RestoreRuntime, Frozen, disk
  <2> HIDE DEF t
  <2>3. Runs(compose)'
    BY <1>2, <1>4, <2>2 DEF FileOf, Runs
  <2> QED
    BY <1>1, <1>6, <2>1, <2>2, <2>3
<1>22. CASE Die(a)
  <2>1. /\ ~Inside(a) /\ compose' = compose /\ container' = container
        /\ Finish(a, tx[a], "none")
    BY <1>22 DEF Die, disk
  <2>2. ~Insider(a)
    BY <2>1 DEF LockInv, Inside, LockOf, Locks
  <2>3. "none" \in Outcomes
    BY DEF Outcomes
  <2> QED
    BY <1>1, <1>3, <1>5, <1>6, <2>1, <2>2, <2>3 DEF Runs
<1> QED
  BY <1>7, <1>8, <1>9, <1>10, <1>11, <1>12, <1>13, <1>14, <1>15, <1>16, <1>17, <1>18, <1>19,
     <1>20, <1>21, <1>22 DEF Step

LEMMA FileStep == TypeOK /\ LockInv /\ ModeInv /\ FlagInv /\ FileInv /\ [Next]_vars => FileInv'
<1> SUFFICES ASSUME TypeOK, LockInv, ModeInv, FlagInv, FileInv, [Next]_vars, ~explained'
             PROVE  DriftIsExplained' /\ \A c \in Actors : FileOf(c)'
  BY DEF FileInv
<1>1. CASE \E a \in Actors : Step(a)
  <2>1. PICK a \in Actors : Step(a)
    BY <1>1
  <2>2. FileOf(a)' /\ (Ends(a) /\ (\A b \in Actors : ~Insider(b)') => Runs(compose)')
    BY <2>1, FileActor
  <2>3. ~explained /\ \A b \in Actors \ {a} : pc'[b] = pc[b] /\ tx'[b] = tx[b]
    BY <2>1, ActorFrame
  <2>4. LockInv'
    BY LockStep
  <2>5. \A b \in Actors \ {a} : Insider(b)' <=> Insider(b)
    BY <2>3 DEF Insider
  <2>6. ASSUME NEW b \in Actors \ {a} PROVE FileOf(b)'
    <3>1. CASE Insider(b)
      <4>1. ~Insider(a)
        BY <2>3, <3>1, OneInside
      <4>2. compose' = compose /\ container' = container
        <5>1. pc[a] \in {"idle", "begun"}
          BY <4>1 DEF Insider
        <5> QED
          BY <2>1, <5>1 DEF Step, Begin, Acquire, Control, ControlMissing, ReadConfig, Baseline,
             Candidate, Write, BoundaryBusy, BoundaryRefused, Recreated, RecreateFailed, AtBoundary,
             InitStep, ContractHandler, RestoreFile, RestoreRuntime, Die, disk
      <4>3. FileOf(b) /\ Source(b)' = Source(b)
        BY <2>3 DEF FileInv, Source, Rewrites
      <4> QED
        BY <2>3, <4>2, <4>3 DEF FileOf, Runs
    <3>2. CASE ~Insider(b)
      <4>1. pc'[b] \in {"idle", "begun"}
        BY <2>3, <3>2 DEF Insider
      <4> QED
        BY <4>1 DEF FileOf
    <3> QED
      BY <3>1, <3>2
  <2>7. DriftIsExplained'
    <3>1. SUFFICES ASSUME \A b \in Actors : ~Inside(b)' PROVE Runs(compose)'
      BY DEF DriftIsExplained, Runs
    <3>2. \A b \in Actors : ~Insider(b)'
      BY <2>4, <3>1 DEF LockInv, Inside, LockOf, Locks
    <3>3. CASE Ends(a)
      BY <2>2, <3>2, <3>3
    <3>4. CASE Begins(a)
      <4>1. \A b \in Actors : ~Insider(b)
        BY <2>5, <3>2, <3>4 DEF Begins, Insider
      <4>2. Runs(compose)
        BY <2>3, <4>1 DEF FileInv, DriftIsExplained, Inside, LockInv, Runs
      <4>3. compose' = compose /\ container' = container
        BY <2>1, <3>4 DEF Begins, Step, Begin, Acquire, Control, ControlMissing, ReadConfig, Baseline,
           Candidate, Write, BoundaryBusy, BoundaryRefused, Recreated, RecreateFailed, AtBoundary,
           InitStep, ContractHandler, RestoreFile, RestoreRuntime, Die, disk
      <4> QED
        BY <4>2, <4>3 DEF Runs
    <3>5. ~GoesOn(a) /\ ~Enters(a)
      BY <3>2 DEF GoesOn, Enters, Insider
    <3> QED
      BY <2>1, <3>3, <3>4, <3>5, ActorMove
  <2> QED
    BY <2>2, <2>6, <2>7
<1>2. CASE TakeG \/ GiveG \/ OperatorCompose \/ OperatorMode \/ OperatorValue
  <2>1. /\ ~explained /\ pc' = pc /\ tx' = tx /\ container' = container
        /\ \A c \in Actors : Inside(c)' <=> Inside(c)
    BY <1>2, HostFrame DEF Inside
  <2>2. compose' = compose
    BY <1>2 DEF TakeG, GiveG, OperatorCompose, OperatorMode, OperatorValue, disk
  <2> QED
    BY <2>1, <2>2 DEF FileInv, FileOf, Runs, DriftIsExplained, Source, Rewrites
<1>3. CASE UNCHANGED vars
  BY <1>3 DEF vars, FileInv, FileOf, Runs, DriftIsExplained, Source, Rewrites, Inside
<1> QED
  BY <1>1, <1>2, <1>3 DEF Next

\* Between operations the container runs what the compose file says, unless
\* something happened that explains why not.
THEOREM UnexplainedNeverDrifts == Spec => []DriftIsExplained
<1>1. TypeOK /\ LockInv /\ FileInv => DriftIsExplained
  BY DEF FileInv, DriftIsExplained
<1> QED
  BY <1>1, FlagsHold, FileInit, FileStep, PTL DEF Spec

-----------------------------------------------------------------------------
(* The boundary: the shape of its state, and its two verdicts.               *)

LEMMA BoundaryTypeInit == BoundaryInit => BoundaryTypeOK
BY ReferenceAssumption, EnvironmentAssumption, EditAssumption
   DEF BoundaryInit, BoundaryTypeOK, Documents, Unjudged

LEMMA BoundaryTypeStep == BoundaryTypeOK /\ [BoundaryNext]_boundaryVars => BoundaryTypeOK'
<1> SUFFICES ASSUME BoundaryTypeOK, [BoundaryNext]_boundaryVars PROVE BoundaryTypeOK'
  OBVIOUS
<1>1. CASE EditService
  <2>1. PICK s \in Services : \E d \in Variants[s] : draft' = [draft EXCEPT ![s] = d]
    BY <1>1 DEF EditService
  <2>2. PICK d \in Variants[s] : draft' = [draft EXCEPT ![s] = d]
    BY <2>1
  <2>3. d \in ServiceDocs \cup {Absent}
    BY VariantAssumption
  <2>4. draft' \in Documents
    BY <2>2, <2>3 DEF BoundaryTypeOK, Documents
  <2> QED
    BY <1>1, <2>4, EditAssumption DEF EditService, Edit, BoundaryTypeOK
<1>2. CASE EditEnv
  BY <1>2, EnvironmentAssumption, EditAssumption DEF EditEnv, Edit, BoundaryTypeOK
<1>3. CASE EditFile
  BY <1>3, EnvironmentAssumption, EditAssumption DEF EditFile, Edit, BoundaryTypeOK
<1>4. CASE Capture
  BY <1>4 DEF Capture, Captured, BoundaryTypeOK
<1>5. CASE Resolve
  <2>1. judging # Unjudged
    BY <1>5 DEF Resolve, Unjudged
  <2> QED
    BY <1>5, <2>1 DEF Resolve, BoundaryTypeOK
<1>6. CASE Up
  <2>1. judging # Unjudged
    BY <1>6 DEF Up, Unjudged
  <2>2. stack' \in Snapshots
    BY <1>6, <2>1 DEF Up, BoundaryTypeOK, Snapshots
  <2> QED
    BY <1>6, <2>2 DEF Up, BoundaryTypeOK
<1>7. CASE Refuse
  BY <1>7 DEF Refuse, BoundaryTypeOK
<1>8. CASE UNCHANGED boundaryVars
  BY <1>8 DEF boundaryVars, BoundaryTypeOK
<1> QED
  BY <1>1, <1>2, <1>3, <1>4, <1>5, <1>6, <1>7, <1>8 DEF BoundaryNext

\* Every variable keeps its type.
THEOREM BoundaryTypeCorrect == BoundarySpec => []BoundaryTypeOK
BY BoundaryTypeInit, BoundaryTypeStep, PTL DEF BoundarySpec

\* What is being started passed the rules as it was written, what runs passed
\* both, with the values and files it was given.
VerdictInv ==
    /\ judging.step # "idle" => RawAllowed(judging.doc, judging.env, judging.files)
    /\ stack # Absent =>
           /\ RawAllowed(stack.doc, stack.env, stack.files)
           /\ ValuesAllowed(stack.doc, stack.env, stack.files)

LEMMA VerdictInit == BoundaryInit => VerdictInv
BY DEF BoundaryInit, VerdictInv, Unjudged

LEMMA VerdictStep == BoundaryTypeOK /\ VerdictInv /\ [BoundaryNext]_boundaryVars => VerdictInv'
<1> SUFFICES ASSUME BoundaryTypeOK, VerdictInv, [BoundaryNext]_boundaryVars PROVE VerdictInv'
  OBVIOUS
<1>1. CASE EditService \/ EditEnv \/ EditFile
  BY <1>1 DEF EditService, EditEnv, EditFile, Edit, VerdictInv
<1>2. CASE Capture
  BY <1>2 DEF Capture, Captured, VerdictInv
<1>3. CASE Resolve
  <2>1. judging # Unjudged
    BY <1>3 DEF Resolve, Unjudged
  <2>2. judging'.doc = judging.doc /\ judging'.env = judging.env /\ judging'.files = judging.files
    BY <1>3, <2>1 DEF Resolve, BoundaryTypeOK
  <2> QED
    BY <1>3, <2>2 DEF Resolve, VerdictInv
<1>4. CASE Up
  <2>1. RawAllowed(judging.doc, judging.env, judging.files) /\ ValuesAllowed(judging.doc, judging.env, judging.files)
    BY <1>4 DEF Up, VerdictInv
  <2> QED
    BY <1>4, <2>1 DEF Up, VerdictInv, Unjudged
<1>5. CASE Refuse
  BY <1>5 DEF Refuse, VerdictInv, Unjudged
<1>6. CASE UNCHANGED boundaryVars
  BY <1>6 DEF boundaryVars, VerdictInv
<1> QED
  BY <1>1, <1>2, <1>3, <1>4, <1>5, <1>6 DEF BoundaryNext

LEMMA VerdictsHold == BoundarySpec => [](BoundaryTypeOK /\ VerdictInv)
BY BoundaryTypeInit, BoundaryTypeStep, VerdictInit, VerdictStep, PTL DEF BoundarySpec

-----------------------------------------------------------------------------
(* Secrets.                                                                  *)

\* A variable that is not the release's at its site has no secret to reveal there.
LEMMA OnlyWhereTheReleaseRefers ==
    ASSUME NEW e, NEW mine, NEW theirs, NEW secret \in SecretSet(e),
           \A v \in mine \ theirs : ~Protected(v, e), secret \in Revealed(mine, e)
    PROVE  secret \in Revealed(theirs, e)
<1>1. PICK v \in mine : secret \in Decoded(e.value[v])
  BY DEF Revealed
<1>2. Protected(v, e)
  BY <1>1 DEF Protected
<1> QED
  BY <1>1, <1>2 DEF Revealed

LEMMA AdmittedSecrets == VerdictInv => SecretsStayPut
<1> SUFFICES ASSUME VerdictInv, stack # Absent,
                    NEW s \in Present(stack.doc), NEW secret \in SecretSet(stack.env)
             PROVE  LET e == stack.env
                        d == stack.doc[s]
                        r == Reference[s] IN
                    /\ \A k \in Keys : secret \in Revealed(d.environment[k], e)
                                          => secret \in Revealed(r.environment[k], e)
                    /\ secret \in Revealed(d.command, e) => secret \in Revealed(r.command, e)
                    /\ secret \in Revealed(MountVars(d), e) => secret \in Revealed(MountVars(r), e)
                    /\ secret \notin d.literals
                    /\ \A f \in d.envFiles : secret \in Decoded(stack.files[f]) =>
                           \/ Published(secret, e) \/ secret \in Received(s, e)
                           \/ \A x \in Services \ Family(f) : secret \notin Mentioned(x, e)
  BY DEF SecretsStayPut
<1> DEFINE e == stack.env
           d == stack.doc[s]
           r == Reference[s]
<1>1. Derived(stack.doc, e) /\ FileContentsAllowed(stack.doc, e, stack.files)
  BY DEF VerdictInv, RawAllowed
<1>2. /\ \A k \in Keys : \A v \in d.environment[k] \ r.environment[k] : ~Protected(v, e)
      /\ \A v \in d.command \ r.command : ~Protected(v, e)
      /\ \A v \in MountVars(d) \ MountVars(r) : ~Protected(v, e)
      /\ d.envFiles \subseteq r.envFiles
      /\ d.literals \cap SecretSet(e) = {}
  BY <1>1 DEF Derived
<1>3. ASSUME NEW k \in Keys, secret \in Revealed(d.environment[k], e)
      PROVE  secret \in Revealed(r.environment[k], e)
  BY <1>2, <1>3, OnlyWhereTheReleaseRefers
<1>4. secret \in Revealed(d.command, e) => secret \in Revealed(r.command, e)
  BY <1>2, OnlyWhereTheReleaseRefers
<1>5. secret \in Revealed(MountVars(d), e) => secret \in Revealed(MountVars(r), e)
  BY <1>2, OnlyWhereTheReleaseRefers
<1>6. ASSUME NEW f \in d.envFiles, secret \in Decoded(stack.files[f])
      PROVE  \/ Published(secret, e) \/ secret \in Received(s, e)
             \/ \A x \in Services \ Family(f) : secret \notin Mentioned(x, e)
  <2>1. FileMayHold(f, secret, e)
    BY <1>1, <1>6 DEF FileContentsAllowed
  <2>2. s \in Loaders(f)
    BY <1>2 DEF Loaders, Present
  <2> QED
    BY <2>1, <2>2 DEF FileMayHold
<1> QED
  BY <1>2, <1>3, <1>4, <1>5, <1>6

\* A secret reaches a container only as the release hands it over, whatever
\* the operator makes of the document, the .env and the env_files.
THEOREM SecretsAreContained == BoundarySpec => []SecretsStayPut
BY VerdictsHold, AdmittedSecrets, PTL

-----------------------------------------------------------------------------
(* Servers.                                                                  *)

\* What runs a server is one the rules look at, unless no rule sees it.
LEMMA RunningIsKnown ==
    ASSUME NEW doc \in Documents, NEW s \in Running(doc), ~Unseen(s, doc[s])
    PROVE  s \in Servers(doc) /\ s \in Present(doc)
<1>1. s \in Present(doc) /\ doc[s].server.program # "other"
  BY DEF Running, RunsServer
<1>2. doc[s] \in ServiceDocs
  BY <1>1 DEF Documents, Present
<1>3. doc[s].server.program \in {"postgres", "shell", "image", "hidden", "other"}
  BY <1>2 DEF ServiceDocs, ServerDocs
<1> QED
  BY <1>1, <1>3 DEF Servers, Witnessed, Unseen

LEMMA AdmittedServers == BoundaryTypeOK /\ VerdictInv => ServersAreClosed
<1> SUFFICES ASSUME BoundaryTypeOK, VerdictInv, stack # Absent,
                    NEW s \in Running(stack.doc), ~Unseen(s, stack.doc[s])
             PROVE  /\ s \in Declared /\ ListensOn(stack.doc[s].server) = "loopback"
                    /\ AsksPasswords(stack.doc[s]) /\ ~stack.doc[s].server.moved
                    /\ AdminStaysHome(s, stack)
  BY DEF ServersAreClosed
<1> DEFINE doc == stack.doc
           v == doc[s].server
<1>1. s \in Servers(doc) /\ s \in Present(doc)
  <2>1. doc \in Documents
    BY DEF BoundaryTypeOK, Snapshots
  <2> QED
    BY <2>1, RunningIsKnown
<1>2. s \in Services /\ doc[s] \in ServiceDocs /\ v \in ServerDocs
  BY <1>1 DEF BoundaryTypeOK, Snapshots, Documents, Present, ServiceDocs
<1>3. /\ AuthKept(doc) /\ InitdbCanonical(doc) /\ RuntimeCanonical(doc)
      /\ ResolvedAdminsConfined(doc, stack.env, stack.files)
  BY DEF VerdictInv, ValuesAllowed, BothAllowed
<1>4. s \in Declared /\ v.listen # <<>> /\ \A i \in DOMAIN v.listen : v.listen[i] = "loopback"
  BY <1>1, <1>3 DEF RuntimeCanonical
<1>5. ListensOn(v) = "loopback"
  <2>1. v.listen \in Seq({"loopback", "any"})
    BY <1>2 DEF ServerDocs
  <2>2. Len(v.listen) \in DOMAIN v.listen
    BY <1>4, <2>1
  <2> QED
    BY <1>4, <2>2 DEF ListensOn
<1>6. AsksPasswords(doc[s]) /\ ~v.moved
  <2>1. v.initdb \notin {"file", "absent", "other"} /\ ~v.moved /\ doc[s].envFiles = {}
    BY <1>1, <1>3 DEF InitdbCanonical
  <2>2. v.initdb = "canonical"
    BY <1>2, <2>1 DEF ServerDocs
  <2>3. ~v.trusts
    BY <1>1, <1>3 DEF AuthKept
  <2> QED
    BY <2>1, <2>2, <2>3 DEF AsksPasswords
<1>7. AdminStaysHome(s, stack)
  <2>1. AdminSecretKnown(doc[s])
    BY <1>1, <1>3 DEF ResolvedAdminsConfined, AdminsConfined
  <2>2. Top[v.password] \in Vars
    BY <1>2, <2>1, ReleaseAssumption DEF AdminSecretKnown, ServiceDocs
  <2> QED
    BY <1>1, <1>3, <2>2 DEF AdminStaysHome, ResolvedAdminsConfined, AdminsConfined
<1> QED
  BY <1>4, <1>5, <1>6, <1>7

\* Every server that runs, and that the rules of _assert_postgres_cluster_runtime_is_canonical
\* can see, is declared, on the loopback, asks for passwords and keeps its administrator's
\* password to itself and to one-shots.
THEOREM ServersStayClosed == BoundarySpec => []ServersAreClosed
BY VerdictsHold, AdmittedServers, PTL
=============================================================================
