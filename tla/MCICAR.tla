------------------------------- MODULE MCICAR -------------------------------
(***************************************************************************)
(* ICAR with and without its cotrace, on systems with two latches and an   *)
(* input bit whose next state depends on the input in one state.           *)
(***************************************************************************)
EXTENDS ICAR

NextFunctions ==
    {[e \in States \X Inputs |-> IF e = <<{1, 2}, 1>> THEN t ELSE f[e[1]]] :
        f \in [States -> States], t \in {{-1, -2}, {1, 2}}}

MCSystems ==
    [ init : {{-1, -2}, {1}},
      next : NextFunctions,
      bad  : {{<<{1, -2}, 1>>}, {<<{-1, 2}, 0>>, <<{1, 2}, 1>>}} ]

\* They would matter in backward mode only.
NoSharedGates == [sys \in MCSystems |-> [e \in States \X Inputs |-> {}]]

MCOptions ==
    {o \in Options : o.forward /\ o.propagateCores /\ ~ o.repush
                     /\ o.mucBlocked /\ ~ o.mucPredecessor}
=============================================================================
