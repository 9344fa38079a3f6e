-------------------------- MODULE TransitionSystem --------------------------
(***************************************************************************)
(* The propositional vocabulary of Geyser (geyser/src/logic.hpp and        *)
(* transition_system.hpp): variables, literals, cubes and the transition   *)
(* systems its engines are run on, and what it means for such a system to  *)
(* be safe.                                                                *)
(*                                                                         *)
(* A literal is the nonzero integer the code stores in literal::_value, a  *)
(* cube is the set of its literals (the code keeps them sorted, so a cube  *)
(* has one representation), and a state is the set of the literals that    *)
(* are true in it: a cube that decides every state variable.  Then "cube c *)
(* holds in state s" and "c subsumes d" are both inclusions.               *)
(*                                                                         *)
(* The CNF formulas init, trans and error are represented by what they     *)
(* say.  Systems come from AIGER circuits, whose latches are functions of  *)
(* the latches and inputs: trans is a function from a state and an input   *)
(* to the next state, and the auxiliary variables, which the state and the *)
(* input determine, are left out.                                          *)
(***************************************************************************)
EXTENDS Integers, Sequences

CONSTANTS
    NumVars,    \* how many state variables (latches) the systems have
    Inputs,     \* the valuations of the input variables
    Systems     \* the systems an engine may be asked to check

Vars == 1 .. NumVars

Literals == Vars \cup {-v : v \in Vars}

\* A cube never holds both a literal and its negation.
Cubes == {c \in SUBSET Literals : \A l \in c : -l \notin c}

States == {s \in Cubes : \A v \in Vars : v \in s \/ -v \in s}

\* cube::subsumes
Subsumes(c, d) == c \subseteq d

(***************************************************************************)
(* init is a cube because make_context rejects AIGER invariant             *)
(* constraints and build_init emits one unit clause for each latch with a  *)
(* constant reset.  bad depends on the input as well as the state.         *)
(***************************************************************************)
TransitionSystems ==
    [ init : Cubes,
      next : [States \X Inputs -> States],
      bad  : SUBSET (States \X Inputs) ]

ASSUME NumVarsAssumption == NumVars \in Nat
ASSUME SystemsAssumption == Systems \subseteq TransitionSystems

\* The state to which trans leads from s under input x.
Step(sys, s, x) == sys.next[<<s, x>>]

\* The error formula holds in state s under input x.
Bad(sys, s, x) == <<s, x>> \in sys.bad

InitialStates(sys) == {s \in States : Subsumes(sys.init, s)}

(***************************************************************************)
(* A set of states that shows sys to be safe: it holds the initial states, *)
(* no step leaves it and no input is bad in any of its states.             *)
(***************************************************************************)
ProvesSafe(sys, inv) ==
    /\ InitialStates(sys) \subseteq inv
    /\ \A s \in inv, x \in Inputs :
           /\ Step(sys, s, x) \in inv
           /\ ~ Bad(sys, s, x)

\* No run of sys from an initial state reaches a bad state and input.
Safe(sys) == \E inv \in SUBSET States : ProvesSafe(sys, inv)

\* The states through which sys goes from s, one for each of the inputs.
RunOf(sys, s, inputs) ==
    LET run[i \in 1 .. Len(inputs)] ==
            IF i = 1 THEN s ELSE Step(sys, run[i - 1], inputs[i - 1])
    IN run

\* The last of those states is bad under the last input.
ReachesBad(sys, s, inputs) ==
    LET n == Len(inputs) IN
    /\ n > 0
    /\ Bad(sys, RunOf(sys, s, inputs)[n], inputs[n])
=============================================================================
