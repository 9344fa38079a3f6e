------------------------------- MODULE Engine -------------------------------
(***************************************************************************)
(* What every engine of Geyser promises (geyser/src/engine/base.hpp): run  *)
(* is called once on a transition system and returns one result, ok only   *)
(* if the system is safe and a counterexample only if it is not.  unknown  *)
(* promises nothing about the system.                                      *)
(***************************************************************************)
EXTENDS TransitionSystem

VARIABLES
    system,     \* the argument of engine::run
    verdict     \* the alternative its result holds, "none" before it returns

vars == <<system, verdict>>

Verdicts == {"none", "ok", "unknown", "counterexample"}

Init ==
    /\ system \in Systems
    /\ verdict = "none"

Return ==
    /\ verdict = "none"
    /\ \/ verdict' = "ok" /\ Safe(system)
       \/ verdict' = "unknown"
       \/ verdict' = "counterexample" /\ ~ Safe(system)
    /\ UNCHANGED system

Spec == Init /\ [][Return]_vars
=============================================================================
