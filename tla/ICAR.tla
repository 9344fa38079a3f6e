-------------------------------- MODULE ICAR --------------------------------
(***************************************************************************)
(* Geyser's incremental variant of CAR (geyser/src/engine/icar.cpp).  The  *)
(* cotrace is flat: every cube found to lead to the error has an activator *)
(* in the basic solver that is equivalent to it, and one query under a     *)
(* clause constraint asks for a state at the frontier that is in error or  *)
(* in one of those cubes.                                                  *)
(***************************************************************************)
EXTENDS CARTrace, FiniteSetsExt

ASSUME SolversOfICAR == Solvers = {"basic", "trans"}

\* The engine has one option, --no-cotrace; the rest is fixed in the code.
ASSUME OptionsOfICAR ==
    \A o \in Configurations :
        o.forward /\ o.propagateCores /\ ~ o.repush /\ o.mucBlocked /\ ~ o.mucPredecessor

VARIABLES
    found,      \* _cotrace_found_cubes: handles in the order of their activators
    queue       \* min_queue of solve_obligation

vars == <<traceVars, found, queue>>

CubeOf(po) == pool[po.handle].state

\* The state in which initialize leaves the engine.
Init ==
    /\ system \in Systems
    /\ options \in Configurations
    /\ depth = 0
    /\ frames = [d \in 0 .. 0 |-> {}]
    /\ clauses = [sv \in Solvers |-> {}]
    /\ pool = <<>>
    /\ pushing = NoPushing
    /\ pc = "check"
    /\ result = [verdict |-> "none", handle |-> 0]
    /\ found = <<>>
    /\ queue = {}

\* The activators that are true in a model with state s.
TrueActivators(s) == {i \in DOMAIN found : Subsumes(pool[found[i]].state, s)}

\* The query of get_error_state: E, or one of the cubes found before.
ErrorModel(s, x) ==
    /\ InLevel("basic", depth, s, x)
    /\ ErrorHolds(s, x) \/ TrueActivators(s) # {}

\* As if the index into the constraint were used without the error activator.
BugObligate(s, x) ==
    IF TrueActivators(s) # {}
    THEN /\ queue' = {[level |-> depth, handle |-> Len(found) + 1 - Min(TrueActivators(s))]}
         /\ UNCHANGED pool
    ELSE /\ pool' = Append(pool, [state |-> s, input |-> x, succ |-> 0])
         /\ queue' = {[level |-> depth, handle |-> Len(pool')]}

\* The first true activator names a known cube; without one the state is new.
Obligate(s, x) ==
    IF TrueActivators(s) # {}
    THEN /\ queue' = {[level |-> depth, handle |-> found[Min(TrueActivators(s))]]}
         /\ UNCHANGED pool
    ELSE /\ pool' = Append(pool, [state |-> s, input |-> x, succ |-> 0])
         /\ queue' = {[level |-> depth, handle |-> Len(pool')]}

FindErrorState ==
    /\ pc = "check"
    /\ \E s \in States, x \in Inputs : ErrorModel(s, x) /\ Obligate(s, x)
    /\ pc' = "solve"
    /\ UNCHANGED <<system, options, depth, trace, pushing, result, found>>

NoErrorState ==
    /\ pc = "check"
    /\ \A s \in States, x \in Inputs : ~ ErrorModel(s, x)
    /\ PushFrame
    /\ UNCHANGED <<found, queue>>

-----------------------------------------------------------------------------
\* priority_queue::top: lowest level, then oldest entry.
IsTop(po) ==
    /\ po \in queue
    /\ \A q \in queue : \/ po.level < q.level
                        \/ po.level = q.level /\ po.handle <= q.handle

ReachedInit ==
    /\ pc = "solve"
    /\ \E po \in queue :
           /\ IsTop(po) /\ po.level = 0
           /\ Return([verdict |-> "counterexample", handle |-> po.handle])
    /\ UNCHANGED <<system, options, depth, trace, pool, pushing, found, queue>>

\* The obligation is blocked already, which ObligationsOpen says never happens.
DropBlocked ==
    /\ pc = "solve"
    /\ \E po \in queue :
           /\ IsTop(po) /\ po.level > 0
           /\ IsAlreadyBlocked(CubeOf(po), po.level)
           /\ queue' = queue \ {po}
    /\ UNCHANGED <<traceVars, found>>

\* The obligation has a predecessor: get_predecessor and add_reaching.
AddPredecessor ==
    /\ pc = "solve"
    /\ \E po \in queue :
           /\ IsTop(po) /\ po.level > 0
           /\ ~ IsAlreadyBlocked(CubeOf(po), po.level)
           /\ \E s, t \in States, x \in Inputs :
                  /\ InLevel("trans", po.level - 1, s, x)
                  /\ TransHolds(s, x, t) /\ Subsumes(CubeOf(po), t)
                  /\ \E p \in PredecessorCubes(s, x, CubeOf(po)) :
                         pool' = Append(pool, [state |-> p, input |-> x, succ |-> po.handle])
           /\ found' = IF options.cotrace THEN Append(found, Len(pool')) ELSE found
           /\ queue' = queue \cup {[level |-> po.level - 1, handle |-> Len(pool')]}
    /\ UNCHANGED <<system, options, depth, trace, pushing, pc, result>>

\* It has none: generalize_blocked and add_blocked_at.  Nothing is repushed.
BlockCube ==
    /\ pc = "solve"
    /\ \E po \in queue :
           /\ IsTop(po) /\ po.level > 0
           /\ ~ IsAlreadyBlocked(CubeOf(po), po.level)
           /\ ~ HasPredecessor(CubeOf(po), po.level)
           /\ \E core \in BlockedCores(CubeOf(po), po.level, options.mucBlocked) :
                  AddBlocked(core, po.level)
           /\ queue' = queue \ {po}
    /\ UNCHANGED <<system, options, depth, pool, pushing, pc, result, found>>

\* Either way the obligation is done with.
EndObligation ==
    IF \E po \in queue : IsTop(po) /\ po.level > 0 /\ IsAlreadyBlocked(CubeOf(po), po.level)
    THEN DropBlocked ELSE BlockCube

ObligationsSolved ==
    /\ pc = "solve" /\ queue = {}
    /\ pc' = "check"
    /\ UNCHANGED <<system, options, depth, trace, pool, pushing, result, found, queue>>

PropagateTrace == Propagate /\ UNCHANGED <<found, queue>>

\* The next iteration of check begins.
NextIteration ==
    /\ pc = "inductive" /\ ~ IsInductive
    /\ pc' = "check"
    /\ UNCHANGED <<system, options, depth, trace, pool, pushing, result, found, queue>>

Terminating == pc = "done" /\ UNCHANGED vars

Next ==
    \/ FindErrorState \/ NoErrorState
    \/ ReachedInit \/ AddPredecessor \/ EndObligation \/ ObligationsSolved
    \/ PropagateTrace \/ NextIteration
    \/ Terminating

Spec == Init /\ [][Next]_vars

\* The engine is a single thread that nothing blocks: it goes on to run.
FairSpec == Spec /\ WF_vars(Next)

-----------------------------------------------------------------------------
TypeOK ==
    /\ TraceTypeOK
    /\ options \in Configurations
    /\ pc \in {"check", "solve", "propagate", "inductive", "done"}
    /\ found \in Seq(1 .. Len(pool))
    /\ queue \subseteq [level : 0 .. depth, handle : 1 .. Len(pool)]

(***************************************************************************)
(* Every obligation has a state at its level, and there is one of a level: *)
(* the cube taken for a model is the right one although indices count the  *)
(* error's activator too, and neither predecessors nor blocked cubes make  *)
(* an obligation void.  A void one would be dropped at once, and the same  *)
(* model come back for ever.                                               *)
(***************************************************************************)
ObligationsOpen ==
    /\ \A po \in queue : po.level > 0 => \E s \in R("basic", po.level) : Subsumes(CubeOf(po), s)
    /\ \A po, q \in queue : po.level = q.level => po = q

\* build_counterexample
Witness == [ initial |-> Completed(pool[result.handle].state),
             inputs  |-> InputsFrom[result.handle] ]

\* A reported run ends in a bad state, and starts in an initial one if every
\* latch with a reset value is reset to 0; its length is not tied to the depth.
WitnessReplays ==
    result.verdict = "counterexample" =>
        /\ ReachesBad(system, Witness.initial, Witness.inputs)
        /\ (\A l \in system.init : l < 0) => Witness.initial \in InitialStates(system)

Answer == INSTANCE Engine WITH verdict <- result.verdict

\* The engine implements engine::run.
AnswersSoundly == Answer!Spec

\* The engine returns a result for every system, with and without a cotrace.
Termination == <>(result.verdict # "none")

-----------------------------------------------------------------------------
\* What the proofs need besides TraceInvariant, as in module CAR.
Starts(po) == \E s \in InitialStates(system) : Subsumes(CubeOf(po), s)

QueueOK ==
    /\ \A po \in queue : po.level = 0 => Starts(po)
    /\ pc \in {"check", "propagate", "inductive"} => queue = {}

PhasesOK ==
    /\ depth = 0 => \/ pc = "check" /\ pool = <<>> /\ found = <<>>
                    \/ pc = "solve" /\ queue # {}
                    \/ pc = "done"
    /\ pc = "inductive" => depth > 0
    /\ IF pc = "done" THEN result.verdict # "none"
                      ELSE result = [verdict |-> "none", handle |-> 0]

InductiveInvariant == TypeOK /\ TraceInvariant /\ QueueOK /\ PhasesOK
=============================================================================
