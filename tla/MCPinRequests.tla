--------------------------- MODULE MCPinRequests ---------------------------
(* TLC instances of PinRequests: two revisions of each source and one        *)
(* Manager.                                                                  *)
EXTENDS PinRequests

MCSeed == [map |-> 1, pinvi |-> 1]

\* Two rotations beside one request, of both registries or of the first; or one
\* rotation of the source registry beside two requests.
Scope ==
    /\ ~reseeded
    /\ IF filed < 2 THEN Cardinality(preserved) <= 2
       ELSE execs = Absent /\ Cardinality(preserved) <= 1
=============================================================================
