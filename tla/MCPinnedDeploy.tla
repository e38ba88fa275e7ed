--------------------------- MODULE MCPinnedDeploy ---------------------------
(* TLC instances of PinnedDeploy: two pairs whose Map schema differs and     *)
(* whose PinVi schema is the same.                                           *)
EXTENDS PinnedDeploy

MCHead == [map_application |-> <<1, 2>>, pinvi |-> <<1, 1>>]
OnePairHead == [map_application |-> <<1>>, pinvi |-> <<1>>]
=============================================================================
