------------------------- MODULE MCCandidateImages -------------------------
(***************************************************************************)
(* Two pinsets that differ in their Map revision and share PinVi's.        *)
(***************************************************************************)
EXTENDS CandidateImages, TLC

CONSTANTS first, second, map1, map2, pinvi, api, web

MCNeeds == (first :> <<map1, pinvi>>) @@ (second :> <<map2, pinvi>>)
MCMaxRuns == ("rebuild" :> 3) @@ ("rehearsal" :> 1)
MCRoleOf == (api :> 1) @@ (web :> 2)
=============================================================================
