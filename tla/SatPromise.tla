----------------------------- MODULE SatPromise -----------------------------
(***************************************************************************)
(* What an incremental SAT solver promises to those who call it.  A call   *)
(* comes with assumptions and ends with an answer: sat with a model of the *)
(* formula that satisfies the assumptions, or unsat if there is none.  A   *)
(* solver that did not get to all assumptions may only answer partial:     *)
(* with a model of the formula that need not satisfy them.                 *)
(***************************************************************************)
EXTENDS Sequences

VARIABLES
    models, \* the satisfying assignments of the formula
    asked,  \* the assumptions of the call
    answer, \* "unsolved", "sat", "partial" or "unsat"
    model   \* the assignment returned

Init == asked = <<>> /\ answer = "unsolved" /\ model = {}

Ask ==
    /\ answer' = "unsolved" /\ model' = {}
    /\ UNCHANGED models

Sat ==
    /\ answer = "unsolved" /\ answer' = "sat"
    /\ model' \in models
    /\ \A i \in DOMAIN asked : asked[i] \in model'
    /\ UNCHANGED <<models, asked>>

Partial ==
    /\ answer = "unsolved" /\ answer' = "partial"
    /\ model' \in models
    /\ UNCHANGED <<models, asked>>

Unsat ==
    /\ answer = "unsolved" /\ answer' = "unsat"
    /\ \A m \in models : \E i \in DOMAIN asked : asked[i] \notin m
    /\ UNCHANGED <<models, asked, model>>

Next == Ask \/ Sat \/ Partial \/ Unsat

Spec == Init /\ [][Next]_<<models, asked, answer, model>>
=============================================================================
