-------------------------------- MODULE BMC --------------------------------
(***************************************************************************)
(* Geyser's bounded model checker (geyser/src/engine/bmc.cpp and bmc.hpp). *)
(*                                                                         *)
(* For step = 0, 1, ..., bound it asks one incremental solver for a run    *)
(* from an initial state whose state number step is bad.  Between queries  *)
(* the solver keeps the steps unrolled so far; each query's error formula  *)
(* gets an activator of its own, so that it can be disabled afterwards.    *)
(* Every SolverRefreshRate steps the solver is emptied and loaded again,   *)
(* to get rid of the disabled formulas.                                    *)
(***************************************************************************)
EXTENDS TransitionSystem

CONSTANTS
    SolverRefreshRate,  \* solver_refresh_rate, 100 in the code
    Bounds              \* the values the option -k may have

ASSUME SolverRefreshRateAssumption == SolverRefreshRate \in Nat \ {0}
ASSUME BoundsAssumption == Bounds \subseteq Int

VARIABLES
    system,     \* _system, the argument of run
    bound,      \* the value of -k
    step,       \* the loop counter of run
    versions,   \* how many transition formulas _versioned_trans caches
    unrolled,   \* the steps whose transition formula the solver holds
    activators, \* _activators: the step whose error formula each one guards
    pc,         \* where the single thread of the engine is
    result      \* what run returned

vars == <<system, bound, step, versions, unrolled, activators, pc, result>>

Verdicts == {"none", "unknown", "counterexample"}

(***************************************************************************)
(* The models of Init(X_0) and the transition formulas in the solver, as   *)
(* sequences of states and inputs: where the formula of a step is missing  *)
(* the next state is arbitrary.  Earlier error formulas are disabled and   *)
(* constrain nothing.                                                      *)
(***************************************************************************)
SolverRuns(n) ==
    LET Successors(e, i) == IF i \in unrolled THEN {Step(system, e.state, e.input)} ELSE States
        runs[i \in 0 .. n] ==
            IF i = 0
            THEN {<<[state |-> s, input |-> x]>> : s \in InitialStates(system), x \in Inputs}
            ELSE UNION {{Append(r, [state |-> t, input |-> x]) :
                            t \in Successors(r[i], i - 1), x \in Inputs} : r \in runs[i - 1]}
    IN runs[n]

\* As if the first activator were assumed.
BugErrorHolds(r) ==
    LET e == r[activators[1] + 1] IN Bad(system, e.state, e.input)

\* The error formula of the last activator holds in a run.
ErrorHolds(r) ==
    LET e == r[activators[Len(activators)] + 1] IN Bad(system, e.state, e.input)

Counterexamples == {r \in SolverRuns(step) : ErrorHolds(r)}

\* As if the cache were not extended.
BugMakeTrans(i) == /\ unrolled' = unrolled \cup {i}
                   /\ versions' = versions

\* make_trans(i), asserted: the formula comes from the cache or extends it.
MakeTrans(i) == /\ unrolled' = unrolled \cup {i}
                /\ versions' = IF i < versions THEN versions ELSE i + 1

-----------------------------------------------------------------------------
Init ==
    /\ system \in Systems
    /\ bound \in Bounds
    /\ step = 0
    /\ versions = 0
    /\ unrolled = {}
    /\ activators = <<>>
    /\ pc = "loop"
    /\ result = [verdict |-> "none", run |-> <<>>]

\* As if the unrolled steps were not loaded again.
BugRefreshSolver ==
    /\ pc = "loop"
    /\ step <= bound
    /\ step % SolverRefreshRate = 0
    /\ unrolled' = {}
    /\ activators' = <<>>
    /\ versions' = IF step > versions THEN step ELSE versions
    /\ pc' = "check"
    /\ UNCHANGED <<system, bound, step, result>>

\* refresh_solver loads a new solver with the steps before this one.
RefreshSolver ==
    /\ pc = "loop"
    /\ step <= bound
    /\ step % SolverRefreshRate = 0
    /\ unrolled' = 0 .. step - 1
    /\ activators' = <<>>
    /\ versions' = IF step > versions THEN step ELSE versions
    /\ pc' = "check"
    /\ UNCHANGED <<system, bound, step, result>>

KeepSolver ==
    /\ pc = "loop"
    /\ step <= bound
    /\ step % SolverRefreshRate # 0
    /\ pc' = "check"
    /\ UNCHANGED <<system, bound, step, versions, unrolled, activators, result>>

\* check_for adds the last step and the error formula with a new activator.
Extend ==
    /\ pc = "check"
    /\ IF step > 0 THEN MakeTrans(step - 1) ELSE UNCHANGED <<unrolled, versions>>
    /\ activators' = Append(activators, step)
    /\ pc' = "query"
    /\ UNCHANGED <<system, bound, step, result>>

\* The query is satisfiable: run returns what build_counterexample reads off the model.
FindCounterexample ==
    /\ pc = "query"
    /\ \E r \in Counterexamples : result' = [verdict |-> "counterexample", run |-> r]
    /\ pc' = "done"
    /\ UNCHANGED <<system, bound, step, versions, unrolled, activators>>

NextStep ==
    /\ pc = "query"
    /\ Counterexamples = {}
    /\ step' = step + 1
    /\ pc' = "loop"
    /\ UNCHANGED <<system, bound, versions, unrolled, activators, result>>

\* As if the bound itself were not checked.
BugExceedBound ==
    /\ pc = "loop"
    /\ step >= bound
    /\ result' = [verdict |-> "unknown", run |-> <<>>]
    /\ pc' = "done"
    /\ UNCHANGED <<system, bound, step, versions, unrolled, activators>>

\* The loop ends without a counterexample.
ExceedBound ==
    /\ pc = "loop"
    /\ step > bound
    /\ result' = [verdict |-> "unknown", run |-> <<>>]
    /\ pc' = "done"
    /\ UNCHANGED <<system, bound, step, versions, unrolled, activators>>

Terminating == pc = "done" /\ UNCHANGED vars

Next ==
    \/ RefreshSolver \/ KeepSolver
    \/ Extend
    \/ FindCounterexample \/ NextStep
    \/ ExceedBound
    \/ Terminating

Spec == Init /\ [][Next]_vars

\* The engine is a single thread that nothing blocks: it goes on to run.
FairSpec == Spec /\ WF_vars(Next)

-----------------------------------------------------------------------------
\* The variables of the engine keep their types.
TypeOK ==
    /\ system \in TransitionSystems
    /\ bound \in Bounds
    /\ step \in Nat
    /\ versions \in Nat
    /\ unrolled \in SUBSET Nat
    /\ activators \in Seq(Nat)
    /\ pc \in {"loop", "check", "query", "done"}
    /\ result.verdict \in Verdicts

(***************************************************************************)
(* However often the solver was emptied, a query for step k sees exactly   *)
(* the transitions 0 .. k-1, formulated over versions of the variables     *)
(* that exist, and the error formula it enables is that of step k.         *)
(***************************************************************************)
QueryIsExact ==
    pc = "query" =>
        /\ unrolled = 0 .. step - 1
        /\ versions = step
        /\ Len(activators) > 0
        /\ activators[Len(activators)] = step

(***************************************************************************)
(* What makes QueryIsExact inductive: between two queries the solver lacks *)
(* the last step, unless it was just loaded again.                         *)
(***************************************************************************)
SolverLoaded ==
    /\ pc = "loop" =>
           /\ unrolled = 0 .. step - 2
           /\ IF step = 0 THEN versions = 0 ELSE versions = step - 1
    /\ pc = "check" =>
           /\ unrolled \in {0 .. step - 2, 0 .. step - 1}
           /\ versions \in {step - 1, step}

\* The states reachable in exactly k steps.
ReachableIn(k) ==
    LET image[i \in 0 .. k] ==
            IF i = 0 THEN InitialStates(system)
                     ELSE {Step(system, s, x) : s \in image[i - 1], x \in Inputs}
    IN image[k]

NoCounterexampleAt(k) == \A s \in ReachableIn(k), x \in Inputs : ~ Bad(system, s, x)

\* Every step the engine has left behind has no counterexample, so that the one
\* it returns is a shortest one.
ShortestCounterexample == \A k \in 0 .. step - 1 : NoCounterexampleAt(k)

\* unknown means that there is no counterexample up to the bound, inclusive.
UnknownUpToBound ==
    result.verdict = "unknown" => \A k \in 0 .. bound : NoCounterexampleAt(k)

\* The inputs that build_counterexample reports.
ReportedInputs == [i \in 1 .. Len(result.run) |-> result.run[i].input]

\* The reported run starts in an initial state and leads to a bad one.
WitnessReplays ==
    result.verdict = "counterexample" =>
        /\ result.run[1].state \in InitialStates(system)
        /\ Len(result.run) = step + 1
        /\ ReachesBad(system, result.run[1].state, ReportedInputs)

\* The engine returns only verdicts that are true of the system it was given.
verdict == result.verdict

Answer == INSTANCE Engine
AnswersSoundly == Answer!Spec

\* The engine gives an answer: a bound that is not exceeded by a counterexample is reached.
Termination == <>(result.verdict # "none")

(***************************************************************************)
(* The assertion of make_error: one activator for each step before this    *)
(* one, as the comment on _activators says.  refresh_solver clears them.   *)
(***************************************************************************)
ActivatorPerStep == pc = "check" => Len(activators) = step
=============================================================================
