--------------------------- MODULE MCPairRotation ---------------------------
(* TLC instances of PairRotation: two revisions of each source; the code's   *)
(* own block and the packaged seed are pairs that rotations can name.        *)
EXTENDS PairRotation

MCFloor == {[map |-> 2, pinvi |-> 2]}
MCSeed == [map |-> 1, pinvi |-> 1]
=============================================================================
