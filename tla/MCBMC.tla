------------------------------- MODULE MCBMC -------------------------------
(***************************************************************************)
(* BMC on every system with two latches, one of two initial cubes and one  *)
(* bad state, whose next state depends on the input in one state only.     *)
(* The bounds are below and above the length of the longest shortest       *)
(* counterexample, four inputs, and let the solver be emptied three times. *)
(***************************************************************************)
EXTENDS BMC

NextFunctions ==
    {[e \in States \X Inputs |-> IF e = <<{1, 2}, 1>> THEN t ELSE f[e[1]]] :
        f \in [States -> States], t \in States}

MCSystems ==
    [ init : {{-1, -2}, {1}},
      next : NextFunctions,
      bad  : {{<<s, 1>>} : s \in States} ]
=============================================================================
