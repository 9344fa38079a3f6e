------------------------------- MODULE MCCAR -------------------------------
(***************************************************************************)
(* CAR on systems with two latches and an input bit, whose next state      *)
(* depends on the input in one state, and whose error may depend on it and *)
(* may have a gate in common with trans: forward with its default options  *)
(* and with any one or two of them changed, and backward with eight        *)
(* combinations.                                                           *)
(***************************************************************************)
EXTENDS CAR, FiniteSets

NextFunctions ==
    {[e \in States \X Inputs |-> IF e = <<{1, 2}, 1>> THEN {-1, -2} ELSE f[e[1]]] :
        f \in {g \in [States -> States] : g[{-1, -2}] = {-1, 2} /\ g[{1, 2}] \in {{1, -2}, {1, 2}}}}

MCSystems ==
    [ init : {{-1, -2}, {1}},
      next : NextFunctions,
      bad  : {{<<{1, -2}, 1>>}, {{1, 2}} \X Inputs} ]

\* In half of the systems, trans uses the gate by which the error depends on the latches.
MCSharedGates ==
    [sys \in MCSystems |-> [e \in States \X Inputs |->
        /\ 1 \in sys.next[<<{-1, 2}, 0>>]
        /\ \E x \in Inputs : <<e[1], x>> \in sys.bad]]

Default == [ forward |-> TRUE, propagateCores |-> TRUE, repush |-> FALSE,
             mucBlocked |-> TRUE, mucPredecessor |-> TRUE, cotrace |-> TRUE ]

ForwardOptions ==
    {o \in Options :
        o.forward /\ Cardinality({f \in DOMAIN Default : o[f] # Default[f]}) <= 2}

\* The option of get_predecessor has no effect in backward mode; the one of
\* generalize_blocked is covered forward.
BackwardOptions == {o \in Options : ~ o.forward /\ ~ o.mucPredecessor /\ o.mucBlocked}

MCOptions == ForwardOptions \cup BackwardOptions
=============================================================================
