----------------------- MODULE MCComposeTransaction -----------------------
(***************************************************************************)
(* The instance that TLC checks of ComposeTransaction: a configuration     *)
(* with the installed one's volumes, and one with others that the rules    *)
(* refuse as well.                                                         *)
(***************************************************************************)
EXTENDS ComposeTransaction

MCLeaks == {<<2, 1>>}
MCVolumeGraph == <<1, 1, 2>>
=============================================================================
