------------------------ MODULE MCIsolatedExecution ------------------------
(***************************************************************************)
(* The instance that TLC checks of IsolatedExecution: Manager revisions    *)
(* are interchangeable.                                                    *)
(***************************************************************************)
EXTENDS IsolatedExecution, TLC

CONSTANTS m1, m2
MCManagers == {m1, m2}
MCSymmetry == Permutations(MCManagers)
=============================================================================
