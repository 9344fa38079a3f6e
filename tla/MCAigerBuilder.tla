--------------------------- MODULE MCAigerBuilder ---------------------------
(***************************************************************************)
(* Circuits with an input, two latches and two gates.  The second gate may *)
(* take the first one; the latches may take gates, each other, the input   *)
(* or a constant, so that the cone of influence takes up to three passes.  *)
(***************************************************************************)
EXTENDS AigerBuilder

\* Literals: the constants 0 and 1, the input 2, the latches 4 and 6, the
\* gates 8 and 10; odd ones are negated.
MCCircuits ==
    [ rhs0  : {<<a, b>> : a \in {0, 1, 2, 7}, b \in {1, 4, 8, 9}},
      rhs1  : {<<a, b>> : a \in {1, 3, 6}, b \in {0, 1, 2, 6}},
      next  : {<<a, b>> : a \in {1, 6, 9, 10}, b \in {0, 4, 8, 11}},
      reset : {<<0, 1>>, <<1, 6>>},
      error : {0, 4, 8, 10, 11} ]
=============================================================================
