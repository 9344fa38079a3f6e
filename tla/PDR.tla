-------------------------------- MODULE PDR --------------------------------
(***************************************************************************)
(* Geyser's property directed reachability engine (geyser/src/engine/      *)
(* pdr.cpp and pdr.hpp), one action per query the engine makes.            *)
(*                                                                         *)
(* The trace R_0, ..., R_depth over-approximates the states reachable in   *)
(* 0, ..., depth steps.  frames[i] (_trace_blocked_cubes) holds the cubes  *)
(* blocked at level i but not at i + 1, and R_i excludes the cubes of      *)
(* every frame from i up.  The engine never reads R_i off the frames: it   *)
(* asks one of three SAT solvers, which hold their own copies of the       *)
(* blocked cubes as clauses guarded by one activator per frame, and        *)
(* assumes the activators from i up.                                       *)
(*                                                                         *)
(* A satisfiable query may return any model and an unsatisfiable one any   *)
(* unsatisfiable core: both are nondeterministic here.  So is the order of *)
(* the literals of a cube, which in the code is the order of the latches   *)
(* in the AIGER file.                                                      *)
(***************************************************************************)
EXTENDS TransitionSystem

CONSTANT
    RefreshRate \* SOLVER_REFRESH_RATE, 100 in the code

ASSUME RefreshRateAssumption == RefreshRate \in Nat \ {0}

VARIABLES
    system,         \* _system, the argument of run
    depth,          \* depth(), the level of the last frame
    frames,         \* _trace_blocked_cubes: the cubes of each frame
    clauses,        \* for each solver, the activated clauses it was given
    ctis,           \* _ctis: the pool of counterexamples to induction
    queue,          \* min_queue of solve_obligation
    gen,            \* the locals of generalize_inductive
    pushing,        \* the locals of propagate
    refreshCounter, \* _solver_refresh_counter
    pc,             \* where the single thread of the engine is
    result          \* what run returned

trace == <<depth, frames, clauses>>
vars  == <<system, depth, frames, clauses, ctis, queue, gen, pushing,
           refreshCounter, pc, result>>

Solvers == {"basic", "trans", "error"}

\* The clause that excludes cube, with the negated activator of frame level.
Clauses(d) == [level : 0 .. d, cube : Cubes]

Obligations(d, n) == [level : 0 .. d, handle : 1 .. n]

\* The cube of a proof obligation.
CubeOf(po) == ctis[po.handle].state

NoGen     == [po |-> [level |-> 0, handle |-> 1], lits |-> {}, level |-> 1, todo |-> {}]
NoPushing == [level |-> 1, todo |-> {}]

(***************************************************************************)
(* The states of R_i as a solver sees them: activators_from(i) makes it    *)
(* obey the clauses of the levels from i up.  The initial formula is the   *)
(* set of unit clauses activated at level 0.                               *)
(***************************************************************************)
Unblocked(cs, i) ==
    {s \in States : \A b \in cs : b.level >= i => ~ Subsumes(b.cube, s)}

R(sv, i) == Unblocked(clauses[sv], i)

ActivatedInit == {[level |-> 0, cube |-> {-l}] : l \in system.init}

\* As if the last frame were forgotten.
BugTraceClauses ==
    UNION {{[level |-> i, cube |-> c] : c \in frames[i]} : i \in 1 .. depth - 1}

\* The blocked cubes of the frames, as refresh_solvers asserts them again.
TraceClauses ==
    UNION {{[level |-> i, cube |-> c] : c \in frames[i]} : i \in 1 .. depth}

\* As if the initial formula were not loaded again.
BugRefreshedClauses == TraceClauses

\* What refresh_solvers loads into each new solver.
RefreshedClauses == ActivatedInit \cup TraceClauses

IntersectsInit(c) == \A l \in c : -l \notin system.init

(***************************************************************************)
(* No state of R_j outside s steps into lits: R_j /\ -s /\ T /\ lits' is   *)
(* unsatisfiable.  With lits = s this is the query of                      *)
(* is_relative_inductive, with lits a part of s it says that lits and the  *)
(* activators from j up are a core of that query.                          *)
(***************************************************************************)
Unreached(s, lits, j) ==
    \A t \in R("trans", j), x \in Inputs :
        Subsumes(s, t) \/ ~ Subsumes(lits, Step(system, t, x))

IsRelativeInductive(s, i) == Unreached(s, s, i - 1)

\* As if no literal were restored.
BugOutsideInit(core, s) == {core}

\* A core that intersects the initial states gets back one literal of s which
\* the initial cube contradicts.
OutsideInit(core, s) ==
    IF IntersectsInit(core)
    THEN {core \cup {l} : l \in {m \in s : -m \in system.init}}
    ELSE {core}

\* As if the last activator in the core were taken, not the first.
BugGeneralizeFromCore(s, level) ==
    { g \in [lits : SUBSET s, level : level .. depth + 1] :
        \E core \in SUBSET g.lits :
            /\ Unreached(s, core, level - 1)
            /\ g.lits \in OutsideInit(core, s) }

(***************************************************************************)
(* generalize_from_core, called after IsRelativeInductive(s, level): the   *)
(* literals of s in the core, blocked one level above the lowest activator *)
(* in the core.                                                            *)
(***************************************************************************)
GeneralizeFromCore(s, level) ==
    { g \in [lits : SUBSET s, level : level .. depth + 1] :
        \E core \in SUBSET g.lits :
            /\ Unreached(s, core, g.level - 1)
            /\ g.lits \in OutsideInit(core, s) }

\* The maximum, as in the pseudocode of doc/pdr.txt.
BugTopFrame(level) == IF level < depth THEN depth ELSE level

\* The last frame a cube blocked at level can be stored in.
TopFrame(level) == IF level < depth THEN level ELSE depth

\* As if the error solver were not told.
BugAddBlocked(c, level, from) ==
    LET k == TopFrame(level) IN
    /\ frames' = [d \in 0 .. depth |->
                     IF d \in from .. k
                     THEN {b \in frames[d] : ~ Subsumes(c, b)}
                            \cup (IF d = k THEN {c} ELSE {})
                     ELSE frames[d]]
    /\ clauses' = [clauses EXCEPT !["basic"] = @ \cup {[level |-> k, cube |-> c]},
                                  !["trans"] = @ \cup {[level |-> k, cube |-> c]}]

\* add_blocked_at: drop what c subsumes, store c, tell the three solvers.
AddBlocked(c, level, from) ==
    LET k == TopFrame(level) IN
    /\ frames' = [d \in 0 .. depth |->
                     IF d \in from .. k
                     THEN {b \in frames[d] : ~ Subsumes(c, b)}
                            \cup (IF d = k THEN {c} ELSE {})
                     ELSE frames[d]]
    /\ clauses' = [sv \in Solvers |-> clauses[sv] \cup {[level |-> k, cube |-> c]}]

-----------------------------------------------------------------------------
\* The state in which initialize leaves the engine.
Init ==
    /\ system \in Systems
    /\ depth = 0
    /\ frames = [d \in 0 .. 0 |-> {}]
    /\ clauses = [sv \in Solvers |-> ActivatedInit]
    /\ ctis = <<>>
    /\ queue = {}
    /\ gen = NoGen
    /\ pushing = NoPushing
    /\ refreshCounter = 0
    /\ pc = "check"
    /\ result = [verdict |-> "none", handle |-> 0]

\* get_error_cti finds a bad state at the frontier, the first obligation.
FindErrorState ==
    /\ pc = "check"
    /\ \E s \in R("error", depth), x \in Inputs :
           /\ Bad(system, s, x)
           /\ ctis' = Append(ctis, [state |-> s, input |-> x, succ |-> 0])
           /\ queue' = {[level |-> depth, handle |-> Len(ctis) + 1]}
    /\ pc' = "solve"
    /\ UNCHANGED <<system, trace, gen, pushing, refreshCounter, result>>

\* get_error_cti finds nothing: push_frame, and propagate begins.
PushFrame ==
    /\ pc = "check"
    /\ \A s \in R("error", depth), x \in Inputs : ~ Bad(system, s, x)
    /\ depth' = depth + 1
    /\ frames' = [d \in 0 .. depth + 1 |-> IF d <= depth THEN frames[d] ELSE {}]
    /\ pushing' = [level |-> 1, todo |-> frames'[1]]
    /\ pc' = "propagate"
    /\ UNCHANGED <<system, clauses, ctis, queue, gen, refreshCounter, result>>

-----------------------------------------------------------------------------
\* priority_queue::top: lowest level first, then the oldest entry of the pool.
IsTop(po) ==
    /\ po \in queue
    /\ \A q \in queue : \/ po.level < q.level
                        \/ po.level = q.level /\ po.handle <= q.handle

\* is_already_blocked: by a cube of the trace, or by the basic solver.
IsAlreadyBlocked(po) ==
    \/ \E i \in po.level .. depth : \E b \in frames[i] : Subsumes(b, CubeOf(po))
    \/ \A s \in R("basic", po.level) : ~ Subsumes(CubeOf(po), s)

ReachedInit ==
    /\ pc = "solve"
    /\ \E po \in queue :
           /\ IsTop(po) /\ po.level = 0
           /\ result' = [verdict |-> "counterexample", handle |-> po.handle]
    /\ pc' = "done"
    /\ UNCHANGED <<system, trace, ctis, queue, gen, pushing, refreshCounter>>

\* As if the obligation were not popped.
BugDropBlocked ==
    /\ pc = "solve"
    /\ \E po \in queue : IsTop(po) /\ po.level > 0 /\ IsAlreadyBlocked(po)
    /\ UNCHANGED vars

DropBlocked ==
    /\ pc = "solve"
    /\ \E po \in queue :
           /\ IsTop(po) /\ po.level > 0
           /\ IsAlreadyBlocked(po)
           /\ queue' = queue \ {po}
    /\ UNCHANGED <<system, trace, ctis, gen, pushing, refreshCounter, pc, result>>

\* get_predecessor: the parts of state s all of whose states step under input x
\* into the cube of po.
GeneralizedPredecessors(s, x, po) ==
    {p \in SUBSET s : \A t \in States :
        Subsumes(p, t) => Subsumes(CubeOf(po), Step(system, t, x))}

\* As if the predecessor were sought at the obligation's own level.
BugPredecessorLevel(po) == po.level

PredecessorLevel(po) == po.level - 1

(***************************************************************************)
(* The obligation has a predecessor at the level below, so it stays in the *)
(* queue under a new one for that predecessor.                             *)
(***************************************************************************)
AddPredecessor ==
    /\ pc = "solve"
    /\ \E po \in queue :
           /\ IsTop(po) /\ po.level > 0
           /\ ~ IsAlreadyBlocked(po)
           /\ \E s \in R("trans", po.level - 1), x \in Inputs :
                  /\ ~ Subsumes(CubeOf(po), s)
                  /\ Subsumes(CubeOf(po), Step(system, s, x))
                  /\ \E p \in GeneralizedPredecessors(s, x, po) :
                         ctis' = Append(ctis, [state |-> p, input |-> x,
                                               succ |-> po.handle])
           /\ queue' = queue \cup {[level |-> PredecessorLevel(po),
                                    handle |-> Len(ctis) + 1]}
    /\ pc' = pc
    /\ UNCHANGED <<system, trace, gen, pushing, refreshCounter, result>>

\* The obligation has no predecessor: generalize_inductive begins.
StartBlocking ==
    /\ pc = "solve"
    /\ \E po \in queue :
           /\ IsTop(po) /\ po.level > 0
           /\ ~ IsAlreadyBlocked(po)
           /\ IsRelativeInductive(CubeOf(po), po.level)
           /\ \E g \in GeneralizeFromCore(CubeOf(po), po.level) :
                  gen' = [po |-> po, lits |-> g.lits, level |-> g.level, todo |-> g.lits]
           /\ queue' = queue \ {po}
    /\ pc' = "generalize"
    /\ UNCHANGED <<system, trace, ctis, pushing, refreshCounter, result>>

\* One iteration of the loop that drops literals.
ShrinkCube ==
    /\ pc = "generalize"
    /\ \E l \in gen.todo :
         LET rest == gen.lits \ {l} IN
         \/ /\ l \notin gen.lits \/ IntersectsInit(rest) \/ ~ IsRelativeInductive(rest, gen.level)
            /\ gen' = [gen EXCEPT !.todo = @ \ {l}]
         \/ /\ l \in gen.lits /\ ~ IntersectsInit(rest) /\ IsRelativeInductive(rest, gen.level)
            /\ \E g \in GeneralizeFromCore(rest, gen.level) :
                   gen' = [gen EXCEPT !.lits = g.lits, !.level = g.level, !.todo = @ \ {l}]
    /\ UNCHANGED <<system, trace, ctis, queue, pushing, refreshCounter, pc, result>>

CanRise == gen.level <= depth /\ IsRelativeInductive(gen.lits, gen.level + 1)

\* One iteration of the loop that moves the cube up the trace.
RaiseCube ==
    /\ pc = "generalize"
    /\ gen.todo = {}
    /\ CanRise
    /\ \E g \in GeneralizeFromCore(gen.lits, gen.level + 1) :
           gen' = [gen EXCEPT !.lits = g.lits, !.level = g.level]
    /\ UNCHANGED <<system, trace, ctis, queue, pushing, refreshCounter, pc, result>>

\* Below the frontier the obligation is tried again one level up.
Repushed(po) ==
    IF po.level < depth THEN {[level |-> po.level + 1, handle |-> po.handle]} ELSE {}

BlockCube ==
    /\ pc = "generalize"
    /\ gen.todo = {}
    /\ ~ CanRise
    /\ AddBlocked(gen.lits, gen.level, 1)
    /\ queue' = queue \cup Repushed(gen.po)
    /\ gen' = NoGen
    /\ pc' = "solve"
    /\ UNCHANGED <<system, depth, ctis, pushing, refreshCounter, result>>

\* The queue is empty: no state at the frontier reaches the error any more.
ObligationsSolved ==
    /\ pc = "solve"
    /\ queue = {}
    /\ pc' = "iterated"
    /\ UNCHANGED <<system, trace, ctis, queue, gen, pushing, refreshCounter, result>>

-----------------------------------------------------------------------------
(***************************************************************************)
(* propagate: each cube of a copy of the frame is pushed up if it has no   *)
(* predecessor there.  A frame left empty ends the run.                    *)
(***************************************************************************)
PropagateCube ==
    /\ pc = "propagate"
    /\ pushing.level < depth
    /\ \E c \in pushing.todo :
           /\ \/ /\ IsRelativeInductive(c, pushing.level + 1)
                 /\ \E g \in GeneralizeFromCore(c, pushing.level + 1) :
                        AddBlocked(g.lits, g.level, pushing.level)
              \/ /\ ~ IsRelativeInductive(c, pushing.level + 1)
                 /\ UNCHANGED <<frames, clauses>>
           /\ pushing' = [pushing EXCEPT !.todo = @ \ {c}]
    /\ UNCHANGED <<system, depth, ctis, queue, gen, refreshCounter, pc, result>>

FramePushed ==
    /\ pc = "propagate"
    /\ pushing.level < depth
    /\ pushing.todo = {}

NextFrame ==
    /\ FramePushed
    /\ frames[pushing.level] # {}
    /\ pushing' = [level |-> pushing.level + 1, todo |-> frames[pushing.level + 1]]
    /\ UNCHANGED <<system, trace, ctis, queue, gen, refreshCounter, pc, result>>

\* As if the frame pushed into were looked at.
BugFindInvariant ==
    /\ FramePushed
    /\ frames[pushing.level + 1] = {}
    /\ result' = [verdict |-> "ok", handle |-> 0]
    /\ pc' = "done"
    /\ UNCHANGED <<system, trace, ctis, queue, gen, pushing, refreshCounter>>

FindInvariant ==
    /\ FramePushed
    /\ frames[pushing.level] = {}
    /\ result' = [verdict |-> "ok", handle |-> 0]
    /\ pc' = "done"
    /\ UNCHANGED <<system, trace, ctis, queue, gen, pushing, refreshCounter>>

\* The last frame is not propagated.
EndPropagate ==
    /\ pc = "propagate"
    /\ pushing.level = depth
    /\ pushing' = NoPushing
    /\ pc' = "iterated"
    /\ UNCHANGED <<system, trace, ctis, queue, gen, refreshCounter, result>>

-----------------------------------------------------------------------------
\* The end of an iteration of check: flush, and refresh_solvers when it is due.
EndIteration ==
    /\ pc = "iterated"
    /\ ctis' = <<>>
    /\ IF refreshCounter + 1 >= RefreshRate
       THEN /\ clauses' = [sv \in Solvers |-> RefreshedClauses]
            /\ refreshCounter' = 0
       ELSE /\ refreshCounter' = refreshCounter + 1
            /\ UNCHANGED clauses
    /\ pc' = "check"
    /\ UNCHANGED <<system, depth, frames, queue, gen, pushing, result>>

Terminating == pc = "done" /\ UNCHANGED vars

Next ==
    \/ FindErrorState \/ PushFrame
    \/ ReachedInit \/ DropBlocked \/ AddPredecessor \/ StartBlocking
    \/ ShrinkCube \/ RaiseCube \/ BlockCube \/ ObligationsSolved
    \/ PropagateCube \/ NextFrame \/ FindInvariant \/ EndPropagate
    \/ EndIteration
    \/ Terminating

Spec == Init /\ [][Next]_vars

\* The engine is a single thread that nothing blocks: it goes on to run.
FairSpec == Spec /\ WF_vars(Next)

-----------------------------------------------------------------------------
TypeOK ==
    /\ system \in TransitionSystems
    /\ depth \in Nat
    /\ frames \in [0 .. depth -> SUBSET Cubes]
    /\ clauses \in [Solvers -> SUBSET Clauses(depth)]
    /\ ctis \in Seq([state : Cubes, input : Inputs, succ : Nat])
    /\ queue \subseteq Obligations(depth, Len(ctis))
    /\ gen \in [po : [level : Nat, handle : Nat], lits : SUBSET Literals,
                level : 1 .. depth + 1, todo : SUBSET Literals]
    /\ pushing \in [level : Nat \ {0}, todo : SUBSET Cubes]
    /\ refreshCounter \in 0 .. RefreshRate - 1
    /\ pc \in {"check", "solve", "generalize", "propagate", "iterated", "done"}
    /\ result \in [verdict : {"none", "ok", "counterexample"}, handle : 0 .. Len(ctis)]

(***************************************************************************)
(* Everything propagate and generalize_inductive conclude from one level   *)
(* rests on the trace being an inductive sequence: no query may ever have  *)
(* blocked a cube at a level it was not proved for, in any of the solvers. *)
(* R_0 is the initial states; a step from R_i ends in R_{i+1}.             *)
(***************************************************************************)
InitInTrace ==
    \A sv \in Solvers :
        /\ R(sv, 0) = InitialStates(system)
        /\ \A i \in 0 .. depth : InitialStates(system) \subseteq R(sv, i)

StepsStayInTrace ==
    \A sv \in Solvers, i \in 0 .. depth - 1 :
        \A s \in R(sv, i), x \in Inputs : Step(system, s, x) \in R(sv, i + 1)

\* Below the frontier the trace excludes every bad state: push_frame is only
\* called once the frontier is safe.
TraceSafe ==
    \A i \in 0 .. depth - 1 :
        \A s \in R("error", i), x \in Inputs : ~ Bad(system, s, x)

\* What a solver must hold of a cube of the trace, and the other way round.
CoveredBy(b, c) == b.level <= c.level /\ Subsumes(c.cube, b.cube)

(***************************************************************************)
(* The frames and the three solvers are four copies of one trace.  A       *)
(* solver keeps clauses whose cubes were dropped as subsumed, and          *)
(* refresh_solvers forgets exactly those: this is why it loses nothing.    *)
(***************************************************************************)
SolversAgreeWithFrames ==
    \A sv \in Solvers :
        /\ ActivatedInit \cup TraceClauses \subseteq clauses[sv]
        /\ \A b \in clauses[sv] \ ActivatedInit : \E c \in TraceClauses : CoveredBy(b, c)

(***************************************************************************)
(* A pending obligation above level 0 has no state in the level below it.  *)
(* The assertion in solve_obligation that its cube avoids the initial      *)
(* states, although predecessors are generalized with no regard to them,   *)
(* follows.                                                                *)
(***************************************************************************)
ObligationsOutsideLowerLevel ==
    \A po \in queue :
        IF po.level = 0
        THEN \E s \in InitialStates(system) : Subsumes(CubeOf(po), s)
        ELSE \A s \in R("trans", po.level - 1) : ~ Subsumes(CubeOf(po), s)

(***************************************************************************)
(* Every state of a pool entry steps, under the entry's input, into the    *)
(* cube of its successor, and a state of an entry without successor is bad *)
(* under it.  Handles are never reused while an obligation holds one, so   *)
(* the chain build_counterexample follows stays the one it was made as.    *)
(***************************************************************************)
ChainsReachError ==
    \A h \in 1 .. Len(ctis) : LET e == ctis[h] IN
        \A s \in States : Subsumes(e.state, s) =>
            IF e.succ = 0
            THEN Bad(system, s, e.input)
            ELSE e.succ < h /\ Subsumes(ctis[e.succ].state, Step(system, s, e.input))

(***************************************************************************)
(* While generalize_inductive drops literals and moves the cube up, what   *)
(* it holds stays a part of the obligation's cube, outside the initial     *)
(* states and inductive relative to the level below the one it has         *)
(* reached: it may be blocked there at any moment.                         *)
(***************************************************************************)
GeneralizationSound ==
    pc = "generalize" =>
        /\ gen.lits \subseteq CubeOf(gen.po)
        /\ gen.po.level <= gen.level
        /\ ~ IntersectsInit(gen.lits)
        /\ IsRelativeInductive(gen.lits, gen.level)

\* Every blocked cube, pushed or not, contradicts the initial cube in a literal,
\* which generalize_from_core restores when the core lost it.
FramesAvoidInit == \A i \in 1 .. depth : \A c \in frames[i] : ~ IntersectsInit(c)

\* No level ever gains a state: neither pushing cubes up, nor dropping subsumed
\* ones, nor a refresh of the solvers forgets something that was excluded.
LevelsOnlyShrink ==
    [][\A sv \in Solvers, i \in 0 .. depth : R(sv, i)' \subseteq R(sv, i)]_vars

\* The engine returns only verdicts that are true of the system it was given.
verdict == result.verdict

Answer == INSTANCE Engine
AnswersSoundly == Answer!Spec

\* The engine returns a result for every system.
Termination == <>(result.verdict # "none")

-----------------------------------------------------------------------------
(***************************************************************************)
(* The remaining parts of the inductive invariant from which PDRProofs     *)
(* derives the properties above.                                           *)
(***************************************************************************)
SolversInSync == \A sv \in Solvers : clauses[sv] = clauses["trans"]

ClausesAvoidInit ==
    /\ ActivatedInit \subseteq clauses["trans"]
    /\ \A b \in clauses["trans"] \ ActivatedInit : b.level > 0 /\ ~ IntersectsInit(b.cube)

\* No set of states that proves a system safe holds a state of a pool entry.
EntriesUnsafe ==
    \A h \in 1 .. Len(ctis), inv \in SUBSET States :
        ProvesSafe(system, inv) => \A s \in inv : ~ Subsumes(ctis[h].state, s)

PhasesOK ==
    /\ pc \in {"check", "propagate", "iterated"} => queue = {}
    /\ pc = "generalize" => gen.po \in Obligations(depth, Len(ctis)) /\ gen.po.level > 0
    /\ pc = "propagate" => /\ pushing.level <= depth
                           /\ \A c \in pushing.todo : ~ IntersectsInit(c)
    /\ IF pc = "done" THEN result.verdict # "none"
                      ELSE result = [verdict |-> "none", handle |-> 0]

InductiveInvariant ==
    /\ TypeOK
    /\ SolversInSync
    /\ ClausesAvoidInit
    /\ StepsStayInTrace
    /\ TraceSafe
    /\ SolversAgreeWithFrames
    /\ ObligationsOutsideLowerLevel
    /\ GeneralizationSound
    /\ EntriesUnsafe
    /\ PhasesOK

-----------------------------------------------------------------------------
\* build_counterexample's get_vars: a variable missing from the cube is false.
Completed(c) == {IF v \in c THEN v ELSE -v : v \in Vars}

\* As if the inputs were collected from the error back.
BugInputsFrom ==
    [h \in 0 .. Len(ctis) |->
        LET chain[i \in 0 .. Len(ctis)] ==
                IF i = 0 THEN <<>> ELSE chain[ctis[i].succ] \o <<ctis[i].input>>
        IN chain[h]]

\* The inputs along the successors of a pool entry.
InputsFrom ==
    [h \in 0 .. Len(ctis) |->
        LET chain[i \in 0 .. Len(ctis)] ==
                IF i = 0 THEN <<>> ELSE <<ctis[i].input>> \o chain[ctis[i].succ]
        IN chain[h]]

\* build_counterexample
Witness == [initial |-> Completed(ctis[result.handle].state),
            inputs  |-> InputsFrom[result.handle]]

(***************************************************************************)
(* The reported run ends in a bad state, whatever the literals missing     *)
(* from the generalized first cube are taken to be, and it starts in an    *)
(* initial state if every latch with a reset value is reset to 0.          *)
(***************************************************************************)
WitnessReplays ==
    result.verdict = "counterexample" =>
        /\ ReachesBad(system, Witness.initial, Witness.inputs)
        /\ (\A l \in system.init : l < 0) => Witness.initial \in InitialStates(system)

(***************************************************************************)
(* What build_counterexample's comment claims: the value of a variable     *)
(* missing from the cube is not important, so it may as well be false.     *)
(***************************************************************************)
WitnessStartsInInit ==
    result.verdict = "counterexample" => Witness.initial \in InitialStates(system)
=============================================================================
