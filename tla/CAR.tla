-------------------------------- MODULE CAR --------------------------------
(***************************************************************************)
(* Geyser's engine for complementary approximate reachability, forward and *)
(* backward (geyser/src/engine/car.cpp and car.hpp), one action per query. *)
(*                                                                         *)
(* Besides the trace the engine keeps a cotrace: coframe j holds cubes     *)
(* from which the error is known to be j steps away.  An iteration first   *)
(* takes every cube of the cotrace, from the last coframe to the first, as *)
(* an obligation at the frontier, then looks for new error states.  The    *)
(* obligations add cubes to the very cotrace that is being read.           *)
(***************************************************************************)
EXTENDS CARTrace

ASSUME SolversOfCAR == Solvers = {"basic", "trans", "error"}

VARIABLES
    codepth,    \* codepth(), the index of the last coframe
    cotrace,    \* _cotrace_found_cubes: the handles of each coframe
    queue,      \* min_queue of solve_obligation
    scan        \* the loops of check_existing_cotrace; level -1 after them

vars == <<traceVars, codepth, cotrace, queue, scan>>

CubeOf(po) == pool[po.handle].state

\* The state in which initialize leaves the engine.
Init ==
    /\ system \in Systems
    /\ options \in Configurations
    /\ depth = 0
    /\ frames = [d \in 0 .. 0 |-> {}]
    /\ clauses = [sv \in Solvers |-> {}]
    /\ pool = <<>>
    /\ pushing = NoPushing
    /\ pc = "check"
    /\ result = [verdict |-> "none", handle |-> 0]
    /\ codepth = 0
    /\ cotrace = [j \in 0 .. 0 |-> {}]
    /\ queue = {}
    /\ scan = [level |-> 0, done |-> {}]

\* As if the cube were added before those it subsumes are removed.
BugAddReaching(h, level) ==
    IF options.cotrace
    THEN /\ codepth' = IF codepth < level THEN level ELSE codepth
         /\ cotrace' = [j \in 0 .. codepth' |->
                LET coframe == IF j <= codepth THEN cotrace[j] ELSE {} IN
                IF j = level
                THEN {g \in coframe \cup {h} : ~ Subsumes(pool'[h].state, pool'[g].state)}
                ELSE coframe]
    ELSE UNCHANGED <<codepth, cotrace>>

\* add_reaching_at: push coframes up to level, drop what the cube subsumes.
AddReaching(h, level) ==
    IF options.cotrace
    THEN /\ codepth' = IF codepth < level THEN level ELSE codepth
         /\ cotrace' = [j \in 0 .. codepth' |->
                LET coframe == IF j <= codepth THEN cotrace[j] ELSE {} IN
                IF j = level
                THEN {g \in coframe : ~ Subsumes(pool'[h].state, pool[g].state)} \cup {h}
                ELSE coframe]
    ELSE UNCHANGED <<codepth, cotrace>>

-----------------------------------------------------------------------------
(***************************************************************************)
(* check_existing_cotrace.  The order within a coframe depends on what was *)
(* swapped when cubes were removed, and is left open.                      *)
(***************************************************************************)
ScanCube ==
    /\ pc = "check" /\ scan.level >= 0
    /\ \E h \in cotrace[scan.level] \ scan.done :
           /\ queue' = {[level |-> depth, colevel |-> scan.level, handle |-> h]}
           /\ scan' = [scan EXCEPT !.done = @ \cup {h}]
    /\ pc' = "solve"
    /\ UNCHANGED <<system, options, depth, trace, pool, pushing, result, codepth, cotrace>>

ScanNextCoframe ==
    /\ pc = "check" /\ scan.level >= 0
    /\ cotrace[scan.level] \subseteq scan.done
    /\ scan' = [level |-> scan.level - 1, done |-> {}]
    /\ UNCHANGED <<traceVars, codepth, cotrace, queue>>

\* check_new_error_states: get_error_state finds one.
FindErrorState ==
    /\ pc = "check" /\ scan.level < 0
    /\ \E s \in States, x \in Inputs :
           /\ InLevel("error", depth, s, x) /\ ErrorHolds(s, x)
           /\ pool' = Append(pool, [state |-> s, input |-> x, succ |-> 0])
           /\ AddReaching(Len(pool'), 0)
           /\ queue' = {[level |-> depth, colevel |-> 0, handle |-> Len(pool')]}
    /\ pc' = "solve"
    /\ UNCHANGED <<system, options, depth, trace, pushing, result, scan>>

\* As if it were enough to go through the cotrace.
BugNoErrorState ==
    /\ pc = "check" /\ scan.level < 0
    /\ PushFrame
    /\ UNCHANGED <<codepth, cotrace, queue, scan>>

NoErrorState ==
    /\ pc = "check" /\ scan.level < 0
    /\ \A s \in States, x \in Inputs : InLevel("error", depth, s, x) => ~ ErrorHolds(s, x)
    /\ PushFrame
    /\ UNCHANGED <<codepth, cotrace, queue, scan>>

-----------------------------------------------------------------------------
\* priority_queue::top: lowest level, then lowest colevel, then oldest entry.
Before(p, q) ==
    \/ p.level < q.level
    \/ p.level = q.level /\ p.colevel < q.colevel
    \/ p.level = q.level /\ p.colevel = q.colevel /\ p.handle <= q.handle

IsTop(po) == po \in queue /\ \A q \in queue : Before(po, q)

ReachedInit ==
    /\ pc = "solve"
    /\ \E po \in queue :
           /\ IsTop(po) /\ po.level = 0
           /\ Return([verdict |-> "counterexample", handle |-> po.handle])
    /\ UNCHANGED <<system, options, depth, trace, pool, pushing, codepth, cotrace, queue, scan>>

\* As if the obligation were not popped.
BugDropBlocked ==
    /\ pc = "solve"
    /\ \E po \in queue : IsTop(po) /\ po.level > 0 /\ IsAlreadyBlocked(CubeOf(po), po.level)
    /\ UNCHANGED vars

DropBlocked ==
    /\ pc = "solve"
    /\ \E po \in queue :
           /\ IsTop(po) /\ po.level > 0
           /\ IsAlreadyBlocked(CubeOf(po), po.level)
           /\ queue' = queue \ {po}
    /\ UNCHANGED <<traceVars, codepth, cotrace, scan>>

\* As if the predecessor were as far from the error as the obligation.
BugAddPredecessor ==
    /\ pc = "solve"
    /\ \E po \in queue :
           /\ IsTop(po) /\ po.level > 0
           /\ ~ IsAlreadyBlocked(CubeOf(po), po.level)
           /\ \E s, t \in States, x \in Inputs :
                  /\ InLevel("trans", po.level - 1, s, x)
                  /\ TransHoldsAt(po.level - 1, s, x, t) /\ Subsumes(CubeOf(po), t)
                  /\ \E p \in PredecessorCubes(s, x, CubeOf(po)) :
                         pool' = Append(pool, [state |-> p, input |-> x, succ |-> po.handle])
           /\ AddReaching(Len(pool'), po.colevel)
           /\ queue' = queue \cup {[level |-> po.level - 1, colevel |-> po.colevel,
                                    handle |-> Len(pool')]}
    /\ UNCHANGED <<system, options, depth, trace, pushing, pc, result, scan>>

\* The obligation has a predecessor, which goes into the next coframe.
AddPredecessor ==
    /\ pc = "solve"
    /\ \E po \in queue :
           /\ IsTop(po) /\ po.level > 0
           /\ ~ IsAlreadyBlocked(CubeOf(po), po.level)
           /\ \E s, t \in States, x \in Inputs :
                  /\ InLevel("trans", po.level - 1, s, x)
                  /\ TransHoldsAt(po.level - 1, s, x, t) /\ Subsumes(CubeOf(po), t)
                  /\ \E p \in PredecessorCubes(s, x, CubeOf(po)) :
                         pool' = Append(pool, [state |-> p, input |-> x, succ |-> po.handle])
           /\ AddReaching(Len(pool'), po.colevel + 1)
           /\ queue' = queue \cup {[level |-> po.level - 1, colevel |-> po.colevel + 1,
                                    handle |-> Len(pool')]}
    /\ UNCHANGED <<system, options, depth, trace, pushing, pc, result, scan>>

Repushed(po) ==
    IF options.repush /\ po.level < depth
    THEN {[po EXCEPT !.level = @ + 1]}
    ELSE {}

\* It has none: generalize_blocked, add_blocked_at, and the repush.
BlockCube ==
    /\ pc = "solve"
    /\ \E po \in queue :
           /\ IsTop(po) /\ po.level > 0
           /\ ~ IsAlreadyBlocked(CubeOf(po), po.level)
           /\ ~ HasPredecessor(CubeOf(po), po.level)
           /\ \E core \in BlockedCores(CubeOf(po), po.level, options.mucBlocked) :
                  AddBlocked(core, po.level)
           /\ queue' = (queue \ {po}) \cup Repushed(po)
    /\ UNCHANGED <<system, options, depth, pool, pushing, pc, result, codepth, cotrace, scan>>

ObligationsSolved ==
    /\ pc = "solve" /\ queue = {}
    /\ pc' = "check"
    /\ UNCHANGED <<system, options, depth, trace, pool, pushing, result,
                   codepth, cotrace, queue, scan>>

-----------------------------------------------------------------------------
PropagateTrace == Propagate /\ UNCHANGED <<codepth, cotrace, queue, scan>>

\* The next iteration of check begins.
NextIteration ==
    /\ pc = "inductive" /\ ~ IsInductive
    /\ scan' = [level |-> codepth, done |-> {}]
    /\ pc' = "check"
    /\ UNCHANGED <<system, options, depth, trace, pool, pushing, result,
                   codepth, cotrace, queue>>

Terminating == pc = "done" /\ UNCHANGED vars

Next ==
    \/ ScanCube \/ ScanNextCoframe \/ FindErrorState \/ NoErrorState
    \/ ReachedInit \/ DropBlocked \/ AddPredecessor \/ BlockCube \/ ObligationsSolved
    \/ PropagateTrace \/ NextIteration
    \/ Terminating

Spec == Init /\ [][Next]_vars

\* The engine is a single thread that nothing blocks: it goes on to run.
FairSpec == Spec /\ WF_vars(Next)

-----------------------------------------------------------------------------
TypeOK ==
    /\ TraceTypeOK
    /\ pc \in {"check", "solve", "propagate", "inductive", "done"}
    /\ codepth \in Nat
    /\ cotrace \in [0 .. codepth -> SUBSET (1 .. Len(pool))]
    /\ queue \subseteq [level : 0 .. depth, colevel : Nat, handle : 1 .. Len(pool)]
    /\ scan \in [level : -1 .. codepth, done : SUBSET (1 .. Len(pool))]

(***************************************************************************)
(* check_existing_cotrace holds iterators into a coframe while obligations *)
(* add and remove handles, which would invalidate them: it is only right   *)
(* because they do so in later coframes, never in the one being read.      *)
(***************************************************************************)
ScannedCoframeStable ==
    [][scan.level >= 0 /\ scan'.level = scan.level =>
           cotrace'[scan.level] = cotrace[scan.level]]_vars

\* The error is exactly j steps away from what coframe j holds, by the chain
\* of successors a counterexample is built from.
DistanceFrom ==
    [h \in 0 .. Len(pool) |->
        LET dist[i \in 0 .. Len(pool)] == IF i = 0 THEN -1 ELSE dist[pool[i].succ] + 1
        IN dist[h]]

ColevelsAreDistances ==
    /\ \A j \in 0 .. codepth : \A h \in cotrace[j] : DistanceFrom[h] = j
    /\ \A po \in queue : DistanceFrom[po.handle] = po.colevel

(***************************************************************************)
(* A cube dropped from a coframe is covered by one that stays: with the    *)
(* cotrace on, every state known to lead to the error is still in it.      *)
(***************************************************************************)
NothingForgotten ==
    options.cotrace =>
        \A h \in 1 .. Len(pool) : \E j \in 0 .. codepth : \E g \in cotrace[j] :
            Subsumes(pool[g].state, pool[h].state)

\* As if the inputs were not reversed.
BugWitness ==
    [ initial |-> Completed(pool[IF options.forward THEN result.handle
                                 ELSE LastFrom[result.handle]].state),
      inputs  |-> InputsFrom[result.handle] ]

\* build_counterexample.  Backward, the entries are met from the last state to
\* the first; the input of the first is dropped, that of the last kept twice.
Witness ==
    LET chain == InputsFrom[result.handle]
        n     == Len(chain)
    IN IF options.forward
       THEN [ initial |-> Completed(pool[result.handle].state), inputs |-> chain ]
       ELSE [ initial |-> Completed(pool[LastFrom[result.handle]].state),
              inputs  |-> Append([i \in 1 .. n - 1 |-> chain[n - i]], chain[1]) ]

(***************************************************************************)
(* A reported run ends in a bad state, in both modes.  It starts in an     *)
(* initial state in backward mode, where no cube is generalized, and in    *)
(* forward mode if every latch with a reset value is reset to 0.           *)
(***************************************************************************)
WitnessReplays ==
    result.verdict = "counterexample" =>
        /\ ReachesBad(system, Witness.initial, Witness.inputs)
        /\ ~ options.forward \/ (\A l \in system.init : l < 0)
               => Witness.initial \in InitialStates(system)

(***************************************************************************)
(* The verdict the engine can be trusted with: all of them, except for ok  *)
(* in backward mode if level 0 hides a step into a bad state.              *)
(***************************************************************************)
TrustedVerdict ==
    IF result.verdict = "ok" /\ ~ options.forward /\ ~ ErrorStepsSeen
    THEN "unknown" ELSE result.verdict

Answer == INSTANCE Engine WITH verdict <- TrustedVerdict

\* The engine implements engine::run as far as its verdicts can be trusted.
AnswersSoundly == Answer!Spec

\* The engine returns a result for every system and in every configuration.
Termination == <>(result.verdict # "none")

(***************************************************************************)
(* transition_system says that the initial formula ranges over the state   *)
(* variables; backward mode puts the error formula there, which shares     *)
(* inputs and gates with the reversed trans.  Whether ok means safe all    *)
(* the same.                                                               *)
(***************************************************************************)
OkMeansSafe == result.verdict = "ok" => Safe(system)

-----------------------------------------------------------------------------
(***************************************************************************)
(* What the proofs need besides TraceInvariant: an obligation of level 0   *)
(* starts a counterexample, obligations lie in no earlier coframe than the *)
(* one being read, and nothing is in the pool before the first error state.*)
(***************************************************************************)
Starts(po) ==
    IF options.forward
    THEN \E s \in InitialStates(system) : Subsumes(CubeOf(po), s)
    ELSE CubeOf(po) \in States /\ Bad(system, CubeOf(po), pool[po.handle].input)

QueueOK ==
    /\ \A po \in queue : po.level = 0 => Starts(po)
    /\ pc = "solve" => \A po \in queue : po.colevel >= scan.level
    /\ pc \in {"check", "propagate", "inductive"} => queue = {}

PhasesOK ==
    /\ depth = 0 => \/ pc = "check" /\ pool = <<>>
                    \/ pc = "solve" /\ queue # {}
                    \/ pc = "done"
    /\ pc = "inductive" => depth > 0
    /\ IF pc = "done" THEN result.verdict # "none"
                      ELSE result = [verdict |-> "none", handle |-> 0]

InductiveInvariant == TypeOK /\ TraceInvariant /\ QueueOK /\ PhasesOK
=============================================================================
