----------------------------- MODULE MCPDRDeep -----------------------------
(***************************************************************************)
(* PDR on systems with three latches and one input bit: traces of several  *)
(* frames, predecessors generalized under an input, cubes generalized over *)
(* many steps, and counterexamples of up to eight inputs.                  *)
(***************************************************************************)
EXTENDS PDR, DeepSystems

MCSystems == DeepSystemsOf({{-1, -2, -3}, {1, -2, -3}, {-1, -2}, {2}})
=============================================================================
