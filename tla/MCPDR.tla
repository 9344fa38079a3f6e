------------------------------- MODULE MCPDR -------------------------------
(***************************************************************************)
(* PDR on every system with two latches and no input (one valuation of     *)
(* zero inputs) and one of three initial cubes.                            *)
(***************************************************************************)
EXTENDS PDR

MCSystems ==
    [ init : {{-1, -2}, {1, -2}, {-1}},
      next : [States \X Inputs -> States],
      bad  : SUBSET (States \X Inputs) ]
=============================================================================
