-------------------------- MODULE MCBackupRecovery --------------------------
(* TLC instance of BackupRecovery, and of StandaloneBackup in it.  A sync only *)
(* reads the role's files and a rehearsal changes none of them, so that neither *)
(* can tell whether the other ran, or whether a job of the backend or another   *)
(* ktdctl process created the backups: a behaviour has creates and collections  *)
(* of any process, or syncs or rehearsals beside one ktdctl process, two        *)
(* backups and one kill or one move.  The instances a role moves between are    *)
(* interchangeable.                                                             *)
EXTENDS BackupRecovery, TLC

NoJobs == ~closed /\ \A j \in Jobs : jobs[j] = "none" /\ proc[j] = Idle
KeepsOne == \A p \in Clis : proc[p].keep <= 1

Scope ==
    syncs + runs > 0 => /\ syncs = 0 \/ runs = 0
                        /\ NoJobs /\ KeepsOne /\ clock <= 2 /\ kills + moves <= 1

Symmetry == Permutations(Sources)
=============================================================================
