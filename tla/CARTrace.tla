------------------------------ MODULE CARTrace ------------------------------
(***************************************************************************)
(* What Geyser's two engines for complementary approximate reachability,   *)
(* CAR (geyser/src/engine/car.cpp) and ICAR (icar.cpp), have in common:    *)
(* the trace, its copies in the SAT solvers, the pool of bad cubes, and    *)
(* the propagation and the inductiveness check that end an iteration.      *)
(*                                                                         *)
(* R_i over-approximates the states reachable in exactly i steps: unlike   *)
(* in PDR the trace is not cumulative, a cube blocked at level i is        *)
(* blocked there only, and R_0 is the initial formula.                     *)
(*                                                                         *)
(* CAR can also run on the reversed system, with the initial and the error *)
(* formula exchanged.  There trans is a relation, and the formula at level *)
(* 0 shares variables with it, because reverse_system primes and unprimes  *)
(* state variables only: the inputs, and the auxiliary variables of the    *)
(* gates that the error and trans both use.  The error formula defines     *)
(* such a gate over the states of level 0, the reversed trans over those   *)
(* it leads to, so at level 0 the solver sees only the steps between       *)
(* states in which all these gates have the same value.                    *)
(***************************************************************************)
EXTENDS TransitionSystem

CONSTANTS
    SharedGates,    \* for each system, the value in a state under an input of
                    \* the gates that its error formula and its trans both use
    Solvers,        \* the solvers that hold a copy of the trace
    Configurations  \* the modes and options an engine may be started with

\* car_options and car::_forward
Options ==
    [ forward : BOOLEAN,            \* backward CAR runs on the reversed system
      propagateCores : BOOLEAN,     \* not --no-propagate-cores
      repush : BOOLEAN,             \* --repush
      mucBlocked : BOOLEAN,         \* not --no-blocked-muc
      mucPredecessor : BOOLEAN,     \* not --no-predecessor-muc
      cotrace : BOOLEAN ]           \* not --no-cotrace

ASSUME SolversAssumption == {"basic", "trans"} \subseteq Solvers
ASSUME ConfigurationsAssumption == Configurations \subseteq Options

VARIABLES
    system,     \* _system; in backward mode, the system before its reversal
    options,    \* _opts and _forward
    depth,      \* depth(), the level of the last frame
    frames,     \* _trace_blocked_cubes: the cubes of each frame
    clauses,    \* for each solver, the activated clauses of blocked cubes
    pool,       \* _cotrace, the pool of bad cubes
    pushing,    \* the locals of propagate
    pc,         \* where the single thread of the engine is
    result      \* what run returned

trace     == <<frames, clauses>>
traceVars == <<system, options, depth, frames, clauses, pool, pushing, pc, result>>

-----------------------------------------------------------------------------
\* The three formulas of the system the engine runs on, after reverse_system.
TransHolds(s, x, t) ==
    IF options.forward THEN t = Step(system, s, x) ELSE s = Step(system, t, x)

InitHolds(s, x) ==
    IF options.forward THEN Subsumes(system.init, s) ELSE Bad(system, s, x)

ErrorHolds(s, x) ==
    IF options.forward THEN Bad(system, s, x) ELSE Subsumes(system.init, s)

\* The gates of both formulas have the same values in two states.
GatesAgree(s, x, t) == SharedGates[system][<<s, x>>] = SharedGates[system][<<t, x>>]

\* What a solver with trans sees as a step from a state of level i.
TransHoldsAt(i, s, x, t) ==
    /\ TransHolds(s, x, t)
    /\ i = 0 /\ ~ options.forward => GatesAgree(s, x, t)

Clauses(d) == [level : 1 .. d, cube : Cubes]

\* cotrace_entry: a cube, the input that leads on, and the entry it leads to.
Entries == [state : Cubes, input : Inputs, succ : Nat]

\* The states a solver sees at level i: one activator, so one frame's clauses.
R(sv, i) ==
    {s \in States : \A b \in clauses[sv] : b.level = i => ~ Subsumes(b.cube, s)}

InLevel(sv, i, s, x) == s \in R(sv, i) /\ (i = 0 => InitHolds(s, x))

\* R_{i-1} /\ T /\ c' is satisfiable.
HasPredecessor(c, i) ==
    \E s, t \in States, x \in Inputs :
        /\ InLevel("trans", i - 1, s, x)
        /\ TransHoldsAt(i - 1, s, x, t) /\ Subsumes(c, t)

\* As if the last literal were dropped without a query.
BugBlockedCores(c, i, minimal) ==
    {lits \in SUBSET c : \E l \in c : ~ HasPredecessor(lits \cup {l}, i)}

(***************************************************************************)
(* The parts of c that are unsatisfiable cores of the query above; those   *)
(* get_minimal_core returns lose this with any of their literals.          *)
(***************************************************************************)
BlockedCores(c, i, minimal) ==
    {lits \in SUBSET c :
        /\ ~ HasPredecessor(lits, i)
        /\ minimal => \A l \in lits : HasPredecessor(lits \ {l}, i)}

\* T /\ x /\ p /\ -c' is unsatisfiable.
StepsInto(p, x, c) == \A t \in States : Subsumes(p, t) => Subsumes(c, Step(system, t, x))

(***************************************************************************)
(* get_predecessor: the cubes a state s may be generalized to if trans     *)
(* leads from it under x into c.  Backward mode does not generalize.       *)
(***************************************************************************)
PredecessorCubes(s, x, c) ==
    IF options.forward
    THEN {p \in SUBSET s :
             /\ StepsInto(p, x, c)
             /\ options.mucPredecessor => \A l \in p : ~ StepsInto(p \ {l}, x, c)}
    ELSE {s}

\* As if only the trans solver were told.
BugAddBlocked(c, level) ==
    /\ frames' = [frames EXCEPT ![level] = {b \in @ : ~ Subsumes(c, b)} \cup {c}]
    /\ clauses' = [clauses EXCEPT !["trans"] = @ \cup {[level |-> level, cube |-> c]}]

\* add_blocked_at
AddBlocked(c, level) ==
    /\ frames' = [frames EXCEPT ![level] = {b \in @ : ~ Subsumes(c, b)} \cup {c}]
    /\ clauses' = [sv \in Solvers |-> clauses[sv] \cup {[level |-> level, cube |-> c]}]

\* is_already_blocked: by a cube of that frame, or by the basic solver.
IsAlreadyBlocked(c, level) ==
    \/ \E b \in frames[level] : Subsumes(b, c)
    \/ \A s \in R("basic", level) : ~ Subsumes(c, s)

-----------------------------------------------------------------------------
NoPushing == [level |-> 1, todo |-> {}, all |-> TRUE]

Frontier == [level |-> 1, todo |-> frames'[1], all |-> TRUE]

\* push_frame, and propagate begins.
PushFrame ==
    /\ depth' = depth + 1
    /\ frames' = [d \in 0 .. depth + 1 |-> IF d <= depth THEN frames[d] ELSE {}]
    /\ pushing' = Frontier
    /\ pc' = "propagate"
    /\ UNCHANGED <<system, options, clauses, pool, result>>

Propagating == pc = "propagate" /\ pushing.level < depth

KeepCube(c) ==
    /\ HasPredecessor(c, pushing.level + 1)
    /\ pushing' = [pushing EXCEPT !.todo = @ \ {c}, !.all = FALSE]
    /\ UNCHANGED trace

PushCube(c) ==
    /\ ~ HasPredecessor(c, pushing.level + 1)
    /\ pushing' = [pushing EXCEPT !.todo = @ \ {c}]
    /\ IF options.propagateCores
       THEN \E core \in BlockedCores(c, pushing.level + 1, FALSE) :
                AddBlocked(core, pushing.level + 1)
       ELSE AddBlocked(c, pushing.level + 1)

\* One cube of the frame that propagate is at.
PropagateCube ==
    /\ Propagating
    /\ \E c \in pushing.todo : KeepCube(c) \/ PushCube(c)
    /\ UNCHANGED <<system, options, depth, pool, pc, result>>

FrameDone == Propagating /\ pushing.todo = {}

Return(res) == result' = res /\ pc' = "done"

\* As if one pushed cube were enough.
BugFramePushed ==
    /\ FrameDone /\ frames[pushing.level + 1] # {}
    /\ Return([verdict |-> "ok", handle |-> 0])
    /\ UNCHANGED <<system, options, depth, trace, pool, pushing>>

\* All cubes of the frame were pushed.
FramePushed ==
    /\ FrameDone /\ pushing.all
    /\ Return([verdict |-> "ok", handle |-> 0])
    /\ UNCHANGED <<system, options, depth, trace, pool, pushing>>

NextFrame ==
    /\ FrameDone /\ ~ pushing.all
    /\ pushing' = [level |-> pushing.level + 1, todo |-> frames[pushing.level + 1], all |-> TRUE]
    /\ UNCHANGED <<system, options, depth, trace, pool, pc, result>>

EndPropagate ==
    /\ pc = "propagate" /\ pushing.level = depth
    /\ pushing' = NoPushing
    /\ pc' = "inductive"
    /\ UNCHANGED <<system, options, depth, trace, pool, result>>

-----------------------------------------------------------------------------
\* What is_inductive reads of a level: its frame, and no solver of the engine.
FrameStates(i) == {s \in States : \A c \in frames[i] : ~ Subsumes(c, s)}

(***************************************************************************)
(* The states that contradict _init_negated.  In backward mode there are   *)
(* none: negate_cnf splits the literals at the separators, sees an empty   *)
(* clause after the last one, and so negates a contradiction.              *)
(***************************************************************************)
KnownInitial(s) == options.forward /\ Subsumes(system.init, s)

\* Some level lies in the union of the levels before it.
IsInductive ==
    \E i \in 1 .. depth : \A s \in FrameStates(i) :
        KnownInitial(s) \/ \E j \in 1 .. i - 1 : s \in FrameStates(j)

FindInvariant ==
    /\ pc = "inductive" /\ IsInductive
    /\ Return([verdict |-> "ok", handle |-> 0])
    /\ UNCHANGED <<system, options, depth, trace, pool, pushing>>

\* The end of an iteration of check and of run.
Propagate == PropagateCube \/ FramePushed \/ NextFrame \/ EndPropagate \/ FindInvariant

-----------------------------------------------------------------------------
TraceTypeOK ==
    /\ system \in TransitionSystems
    /\ options \in Options
    /\ depth \in Nat
    /\ frames \in [0 .. depth -> SUBSET Cubes]
    /\ clauses \in [Solvers -> SUBSET Clauses(depth)]
    /\ pool \in Seq(Entries)
    /\ pushing \in [level : Nat \ {0}, todo : SUBSET Cubes, all : BOOLEAN]
    /\ result \in [verdict : {"none", "ok", "counterexample"}, handle : 0 .. Len(pool)]

(***************************************************************************)
(* The sequence over-approximates exact reachability: what one level holds *)
(* steps into the next, in every solver's copy, as far as the query at the *)
(* level sees the step.  Cubes reach a level from obligations, from        *)
(* propagation and as cores of either.                                     *)
(***************************************************************************)
StepsStayInTrace ==
    \A sv \in Solvers, i \in 0 .. depth - 1 :
        \A s, t \in States, x \in Inputs :
            InLevel(sv, i, s, x) /\ TransHoldsAt(i, s, x, t) => t \in R(sv, i + 1)

\* No level before the last one has an error state: the union is_inductive
\* finds closed is safe only because of that.
TraceSafe ==
    \A sv \in Solvers, i \in 0 .. depth - 1 :
        \A s \in States, x \in Inputs : InLevel(sv, i, s, x) => ~ ErrorHolds(s, x)

(***************************************************************************)
(* is_inductive and propagate read the frames, every other query a solver: *)
(* the solvers also hold the cubes the frames dropped as subsumed, and     *)
(* both describe the same states at every level.                           *)
(***************************************************************************)
SolversAgreeWithFrames ==
    \A sv \in Solvers, i \in 1 .. depth : R(sv, i) = FrameStates(i)

(***************************************************************************)
(* Every bad cube leads to its successor's and in the end to the error.    *)
(* Forward: every state of the cube steps, under its input, into the       *)
(* successor's cube.  Backward: the successor's state steps into it.       *)
(***************************************************************************)
ChainsReachError ==
    \A h \in 1 .. Len(pool) : LET e == pool[h] IN
        /\ e.succ < h
        /\ \A s \in States : Subsumes(e.state, s) =>
               IF e.succ = 0 THEN ErrorHolds(s, e.input)
               ELSE \E t \in States : /\ Subsumes(pool[e.succ].state, t)
                                      /\ TransHolds(s, e.input, t)

-----------------------------------------------------------------------------
(***************************************************************************)
(* The remaining parts of the inductive invariant of both engines.         *)
(***************************************************************************)
SolversInSync == \A sv \in Solvers : clauses[sv] = clauses["trans"]

FramesCovered ==
    /\ \A i \in 1 .. depth : \A c \in frames[i] :
           [level |-> i, cube |-> c] \in clauses["trans"]
    /\ \A b \in clauses["trans"] : \E c \in frames[b.level] : Subsumes(c, b.cube)

\* While every cube so far was pushed, the next level excludes all of them.
PushedCovered ==
    pc = "propagate" =>
        /\ pushing.level \in 1 .. depth
        /\ pushing.todo \subseteq frames[pushing.level]
        /\ pushing.all =>
               \A c \in frames[pushing.level] \ pushing.todo : \E b \in clauses["trans"] :
                   b.level = pushing.level + 1 /\ Subsumes(b.cube, c)

(***************************************************************************)
(* A set of states that shows the system to be safe holds no state of a    *)
(* bad cube; backward, where the pool holds reachable states, it holds     *)
(* every one.                                                              *)
(***************************************************************************)
EntriesSound ==
    \A h \in 1 .. Len(pool), inv \in SUBSET States :
        ProvesSafe(system, inv) =>
            \A s \in States : Subsumes(pool[h].state, s) => (s \in inv <=> ~ options.forward)

TraceInvariant ==
    /\ TraceTypeOK
    /\ SolversInSync
    /\ FramesCovered
    /\ StepsStayInTrace
    /\ TraceSafe
    /\ PushedCovered
    /\ EntriesSound

-----------------------------------------------------------------------------
(***************************************************************************)
(* The query at level 0 of the reversed system sees every step into a bad  *)
(* state: the state is bad under the input of the step too, and the gates  *)
(* of the error that trans uses do not change in the step.  It is so if    *)
(* the error depends on no input and has no gate in common with trans.     *)
(***************************************************************************)
ErrorStepsSeen ==
    \A t \in States, x, y \in Inputs :
        LET s == Step(system, t, x) IN
        Bad(system, s, y) => Bad(system, s, x) /\ GatesAgree(s, x, t)

\* build_counterexample's get_vars: a variable missing from the cube is false.
Completed(c) == {IF v \in c THEN v ELSE -v : v \in Vars}

\* The inputs along the successors of a pool entry.
InputsFrom ==
    [h \in 0 .. Len(pool) |->
        LET chain[i \in 0 .. Len(pool)] ==
                IF i = 0 THEN <<>> ELSE <<pool[i].input>> \o chain[pool[i].succ]
        IN chain[h]]

\* The last entry along them.
LastFrom ==
    [h \in 1 .. Len(pool) |->
        LET last[i \in 1 .. Len(pool)] ==
                IF pool[i].succ = 0 THEN i ELSE last[pool[i].succ]
        IN last[h]]
=============================================================================
