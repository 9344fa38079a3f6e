----------------------------- MODULE PDRProofs -----------------------------
(***************************************************************************)
(* Proofs, for every family of systems and every refresh rate, that the    *)
(* invariant of module PDR is inductive and that the engine's verdicts are *)
(* sound.                                                                  *)
(***************************************************************************)
EXTENDS PDR, TransitionSystemProofs

-----------------------------------------------------------------------------
(***************************************************************************)
(* The initial cube.                                                       *)
(***************************************************************************)

\* A state of the initial cube is one that contradicts no literal of it.
LEMMA InitialStateTest ==
    ASSUME NEW sys \in TransitionSystems, NEW s \in States
    PROVE  s \in InitialStates(sys) <=> \A l \in sys.init : -l \notin s
<1>1. ASSUME NEW l \in sys.init
      PROVE  l \in Literals /\ (l \in s \/ -l \in s)
  <2>1. l \in Literals
    BY DEF TransitionSystems, Cubes
  <2>2. CASE l \in Vars
    BY <2>1, <2>2 DEF States
  <2>3. CASE \E v \in Vars : l = -v
    <3>1. PICK v \in Vars : l = -v
      BY <2>3
    <3>2. -l = v
      BY <3>1, NumVarsAssumption DEF Vars
    <3> QED
      BY <2>1, <3>1, <3>2 DEF States
  <2> QED
    BY <2>1, <2>2, <2>3 DEF Literals
<1>2. ASSUME NEW l \in s PROVE -l \notin s
  BY DEF States, Cubes
<1> QED
  BY <1>1, <1>2 DEF InitialStates, Subsumes

\* A cube that syntactically avoids the initial cube holds in no initial state.
LEMMA AvoidsInitialStates ==
    ASSUME system \in TransitionSystems,
           NEW c \in SUBSET Literals, ~ IntersectsInit(c),
           NEW s \in InitialStates(system)
    PROVE  ~ Subsumes(c, s)
<1>1. PICK l \in c : -l \in system.init
  BY DEF IntersectsInit
<1>2. -l \in s /\ l \in s => FALSE
  BY DEF InitialStates, States, Cubes
<1> QED
  BY <1>1, <1>2 DEF InitialStates, Subsumes

-----------------------------------------------------------------------------
(***************************************************************************)
(* The levels of the trace.                                                *)
(***************************************************************************)

\* The part of the invariant that is about the trace and the solvers alone.
TraceOK ==
    /\ SolversInSync
    /\ ClausesAvoidInit
    /\ StepsStayInTrace
    /\ TraceSafe
    /\ SolversAgreeWithFrames

\* Fewer activators are assumed at a higher level.
LEMMA LevelsGrow ==
    ASSUME TypeOK, NEW sv \in Solvers, NEW i \in Nat, NEW j \in Nat, i <= j
    PROVE  R(sv, i) \subseteq R(sv, j)
<1>1. \A b \in clauses[sv] : b.level \in Int
  BY DEF TypeOK, Clauses
<1> QED
  BY <1>1 DEF R, Unblocked

LEMMA AnySolver ==
    ASSUME SolversInSync, NEW sv \in Solvers, NEW i
    PROVE  R(sv, i) = R("trans", i)
BY DEF SolversInSync, R

\* R_0 is the set of initial states, and no level excludes one of them.
LEMMA TraceStart ==
    ASSUME TypeOK, ClausesAvoidInit
    PROVE  /\ R("trans", 0) = InitialStates(system)
           /\ \A i \in Nat : InitialStates(system) \subseteq R("trans", i)
<1> DEFINE C == clauses["trans"]
<1>1. system \in TransitionSystems /\ C \subseteq Clauses(depth)
  BY DEF TypeOK, Solvers
<1>2. \A b \in C : b.level \in Nat /\ b.cube \in SUBSET Literals
  BY <1>1 DEF TypeOK, Clauses, Cubes
<1>3. ASSUME NEW s \in R("trans", 0) PROVE s \in InitialStates(system)
  <2>1. SUFFICES ASSUME NEW l \in system.init PROVE -l \notin s
    BY <1>1, <1>3, InitialStateTest DEF R, Unblocked
  <2>2. [level |-> 0, cube |-> {-l}] \in C
    BY DEF ClausesAvoidInit, ActivatedInit
  <2>3. ~ Subsumes({-l}, s)
    BY <1>3, <2>2 DEF R, Unblocked
  <2> QED
    BY <2>3 DEF Subsumes
<1>4. ASSUME NEW s \in InitialStates(system), NEW i \in Nat PROVE s \in R("trans", i)
  <2>1. s \in States
    BY DEF InitialStates
  <2>2. SUFFICES ASSUME NEW b \in C PROVE ~ Subsumes(b.cube, s)
    BY <2>1 DEF R, Unblocked
  <2>3. CASE b \in ActivatedInit
    <3>1. PICK l \in system.init : b.cube = {-l}
      BY <2>3 DEF ActivatedInit
    <3>2. -l \notin s
      BY <1>1, <2>1, InitialStateTest
    <3> QED
      BY <3>1, <3>2 DEF Subsumes
  <2>4. CASE b \notin ActivatedInit
    <3>1. ~ IntersectsInit(b.cube)
      BY <2>4 DEF ClausesAvoidInit
    <3> QED
      BY <1>1, <1>2, <3>1, AvoidsInitialStates
  <2> QED
    BY <2>3, <2>4
<1> QED
  BY <1>3, <1>4

(***************************************************************************)
(* What generalize_from_core returns may be blocked at the level it        *)
(* returns: a core of the query for s is one for each cube between it and  *)
(* s, and a cube that contradicts the initial one avoids every initial     *)
(* state.                                                                  *)
(***************************************************************************)
LEMMA GeneralizedCore ==
    ASSUME TypeOK, NEW s, NEW level \in Nat, NEW g \in GeneralizeFromCore(s, level)
    PROVE  /\ g.lits \subseteq s
           /\ g.level \in level .. depth + 1
           /\ ~ IntersectsInit(g.lits)
           /\ IsRelativeInductive(g.lits, g.level)
<1>1. g.lits \subseteq s /\ g.level \in level .. depth + 1
  BY DEF GeneralizeFromCore
<1>2. PICK core \in SUBSET g.lits :
          Unreached(s, core, g.level - 1) /\ g.lits \in OutsideInit(core, s)
  BY DEF GeneralizeFromCore
<1>3. ~ IntersectsInit(g.lits)
  <2>1. CASE IntersectsInit(core)
    BY <1>2, <2>1 DEF OutsideInit, IntersectsInit
  <2>2. CASE ~ IntersectsInit(core)
    BY <1>2, <2>2 DEF OutsideInit
  <2> QED
    BY <2>1, <2>2
<1>4. IsRelativeInductive(g.lits, g.level)
  BY <1>1, <1>2 DEF IsRelativeInductive, Unreached, Subsumes
<1> QED
  BY <1>1, <1>3, <1>4

(***************************************************************************)
(* add_blocked_at keeps the trace sound if the cube is inductive relative  *)
(* to the level below the one it is blocked at.                            *)
(***************************************************************************)
LEMMA BlockedTrace ==
    ASSUME TypeOK, TraceOK, depth > 0,
           NEW c \in Cubes, ~ IntersectsInit(c),
           NEW level \in 1 .. depth + 1, IsRelativeInductive(c, level),
           NEW from \in 1 .. TopFrame(level),
           AddBlocked(c, level, from), UNCHANGED <<system, depth>>
    PROVE  /\ frames' \in [0 .. depth' -> SUBSET Cubes]
           /\ clauses' \in [Solvers -> SUBSET Clauses(depth')]
           /\ TraceOK'
           /\ \A sv \in Solvers, i \in Nat :
                  Unblocked(clauses'[sv], i) \subseteq
                    {s \in Unblocked(clauses[sv], i) : i <= TopFrame(level) => ~ Subsumes(c, s)}
<1> DEFINE k   == TopFrame(level)
           new == [level |-> k, cube |-> c]
<1>1. /\ depth \in Nat /\ level \in Nat /\ k \in 1 .. depth /\ k <= level /\ from \in 1 .. k
      /\ system \in TransitionSystems
  BY DEF TypeOK, TopFrame
<1>2. /\ frames' = [d \in 0 .. depth |->
                      IF d \in from .. k
                      THEN {b \in frames[d] : ~ Subsumes(c, b)} \cup (IF d = k THEN {c} ELSE {})
                      ELSE frames[d]]
      /\ clauses' = [sv \in Solvers |-> clauses[sv] \cup {new}]
  BY DEF AddBlocked
<1> HIDE DEF k
<1>3. frames' \in [0 .. depth' -> SUBSET Cubes]
  BY <1>1, <1>2 DEF TypeOK
<1>4. new \in Clauses(depth)
  BY <1>1 DEF Clauses
<1>5. clauses' \in [Solvers -> SUBSET Clauses(depth')]
  BY <1>2, <1>4 DEF TypeOK
<1> DEFINE Old(sv, i) == Unblocked(clauses[sv], i)
           New(sv, i) == Unblocked(clauses'[sv], i)
<1>6. \A sv \in Solvers, i \in Nat :
          New(sv, i) = {s \in Old(sv, i) : i <= k => ~ Subsumes(c, s)}
  <2>1. TAKE sv \in Solvers, i \in Nat
  <2>2. clauses'[sv] = clauses[sv] \cup {new} /\ new.level = k /\ new.cube = c
    BY <1>2
  <2>3. k >= i <=> i <= k
    BY <1>1
  <2> HIDE DEF new
  <2>4. ASSUME NEW s \in States
        PROVE  s \in New(sv, i) <=> s \in Old(sv, i) /\ (i <= k => ~ Subsumes(c, s))
    BY <2>2, <2>3 DEF Unblocked
  <2> QED
    BY <2>4 DEF Unblocked
<1> HIDE DEF Old, New
<1>7. \A sv \in Solvers, i \in Nat : New(sv, i) \subseteq Old(sv, i)
  BY <1>6
<1>8. SolversInSync'
  BY <1>2 DEF TraceOK, SolversInSync, Solvers
<1>9. ClausesAvoidInit'
  <2>1. clauses'["trans"] = clauses["trans"] \cup {new}
    BY <1>2 DEF Solvers
  <2>2. ActivatedInit' = ActivatedInit
    BY DEF ActivatedInit
  <2>3. new.level > 0 /\ ~ IntersectsInit(new.cube)
    BY <1>1
  <2> QED
    BY <2>1, <2>2, <2>3 DEF TraceOK, ClausesAvoidInit, IntersectsInit
<1>10. StepsStayInTrace'
  <2>1. SUFFICES ASSUME NEW sv \in Solvers, NEW i \in 0 .. depth - 1,
                        NEW s \in New(sv, i), NEW x \in Inputs
                 PROVE  Step(system, s, x) \in New(sv, i + 1)
    BY DEF StepsStayInTrace, R, New
  <2>2. i \in Nat /\ i + 1 \in Nat
    BY <1>1
  <2>3. s \in Old(sv, i) /\ Step(system, s, x) \in Old(sv, i + 1)
    BY <1>7, <2>1, <2>2 DEF TraceOK, StepsStayInTrace, R, Old
  <2>4. CASE i + 1 <= k
    <3>1. ~ Subsumes(c, s)
      BY <1>1, <1>6, <2>1, <2>2, <2>4
    <3>2. s \in R("trans", i) /\ R("trans", i) \subseteq R("trans", level - 1)
      BY <1>1, <2>2, <2>3, <2>4, AnySolver, LevelsGrow DEF TraceOK, Solvers, R, Old
    <3>3. ~ Subsumes(c, Step(system, s, x))
      BY <3>1, <3>2 DEF IsRelativeInductive, Unreached
    <3> QED
      BY <1>6, <2>2, <2>3, <3>3
  <2>5. CASE i + 1 > k
    BY <1>1, <1>6, <2>2, <2>3, <2>5
  <2> QED
    BY <1>1, <2>2, <2>4, <2>5
<1>11. TraceSafe'
  <2>1. SUFFICES ASSUME NEW i \in 0 .. depth - 1, NEW s \in New("error", i), NEW x \in Inputs
                 PROVE  ~ Bad(system, s, x)
    BY DEF TraceSafe, R, New
  <2>2. i \in Nat /\ "error" \in Solvers
    BY <1>1 DEF Solvers
  <2> QED
    BY <1>7, <2>1, <2>2 DEF TraceOK, TraceSafe, R, Old
<1>12. SolversAgreeWithFrames'
  <2>1. TraceClauses' = UNION {{[level |-> i, cube |-> d] : d \in frames'[i]} : i \in 1 .. depth}
    BY DEF TraceClauses
  <2>2. ActivatedInit' = ActivatedInit
    BY DEF ActivatedInit
  <2>3. c \in frames'[k] /\ new \in TraceClauses'
    <3>1. k \in 0 .. depth /\ k \in from .. k
      BY <1>1
    <3>2. c \in frames'[k]
      BY <1>2, <3>1
    <3> QED
      BY <1>1, <2>1, <3>2
  <2>4. ASSUME NEW i \in 1 .. depth, NEW d \in frames'[i]
        PROVE  d \in frames[i] \/ (i = k /\ d = c)
    BY <1>1, <1>2
  <2>5. ASSUME NEW sv \in Solvers, NEW b \in ActivatedInit \cup TraceClauses'
        PROVE  b \in clauses'[sv]
    <3>1. CASE b \in ActivatedInit
      BY <1>2, <3>1 DEF TraceOK, SolversAgreeWithFrames
    <3>2. CASE b \in TraceClauses'
      <4>1. PICK i \in 1 .. depth : \E d \in frames'[i] : b = [level |-> i, cube |-> d]
        BY <2>1, <3>2
      <4>2. b \in TraceClauses \/ b = new
        BY <2>4, <4>1 DEF TraceClauses
      <4> QED
        BY <1>2, <4>2 DEF TraceOK, SolversAgreeWithFrames
    <3> QED
      BY <2>5, <3>1, <3>2
  <2>6. ASSUME NEW sv \in Solvers, NEW b \in clauses'[sv] \ ActivatedInit
        PROVE  \E d \in TraceClauses' : CoveredBy(b, d)
    <3>1. CASE b = new
      BY <1>1, <2>3, <3>1 DEF CoveredBy, Subsumes
    <3>2. CASE b \in clauses[sv]
      <4>1. PICK d \in TraceClauses : CoveredBy(b, d)
        BY <2>6, <3>2 DEF TraceOK, SolversAgreeWithFrames
      <4>2. PICK i \in 1 .. depth : d.level = i /\ d.cube \in frames[i]
                                   /\ d = [level |-> i, cube |-> d.cube]
        BY <4>1 DEF TraceClauses
      <4>3. CASE d.cube \in frames'[i]
        BY <2>1, <4>1, <4>2, <4>3
      <4>4. CASE d.cube \notin frames'[i]
        <5>1. i <= k /\ Subsumes(c, d.cube)
          BY <1>1, <1>2, <4>2, <4>4
        <5>2. b.level \in Int
          BY <3>2 DEF TypeOK, Clauses
        <5>3. CoveredBy(b, new)
          BY <1>1, <4>1, <4>2, <5>1, <5>2 DEF CoveredBy, Subsumes
        <5> QED
          BY <2>3, <5>3
      <4> QED
        BY <4>3, <4>4
    <3> QED
      BY <1>2, <2>6, <3>1, <3>2
  <2> QED
    BY <2>2, <2>5, <2>6 DEF SolversAgreeWithFrames, CoveredBy, Subsumes
<1> QED
  BY <1>1, <1>3, <1>5, <1>6, <1>8, <1>9, <1>10, <1>11, <1>12 DEF TraceOK, Old, New, k

-----------------------------------------------------------------------------
(***************************************************************************)
(* What a step keeps by not touching it.                                   *)
(***************************************************************************)

LEMMA TraceKept ==
    ASSUME TraceOK, UNCHANGED <<system, trace>>
    PROVE  TraceOK'
<1>1. SolversInSync' /\ ClausesAvoidInit'
  BY DEF TraceOK, SolversInSync, ClausesAvoidInit, ActivatedInit, IntersectsInit, trace
<1>2. StepsStayInTrace' /\ TraceSafe'
  BY DEF TraceOK, StepsStayInTrace, TraceSafe, R, trace
<1>3. SolversAgreeWithFrames'
  BY DEF TraceOK, SolversAgreeWithFrames, ActivatedInit, TraceClauses, trace
<1> QED
  BY <1>1, <1>2, <1>3 DEF TraceOK

LEMMA ObligationsKept ==
    ASSUME ObligationsOutsideLowerLevel, queue' \subseteq queue,
           UNCHANGED <<system, trace, ctis>>
    PROVE  ObligationsOutsideLowerLevel'
BY DEF ObligationsOutsideLowerLevel, CubeOf, R, trace

LEMMA EntriesKept ==
    ASSUME EntriesUnsafe, UNCHANGED <<system, ctis>>
    PROVE  EntriesUnsafe'
BY DEF EntriesUnsafe

LEMMA GeneralizationKept ==
    ASSUME GeneralizationSound, pc' = pc, UNCHANGED <<system, trace, ctis, gen>>
    PROVE  GeneralizationSound'
BY DEF GeneralizationSound, CubeOf, IntersectsInit, IsRelativeInductive, Unreached, R, trace

LEMMA PoolEntry ==
    ASSUME TypeOK, NEW h \in 1 .. Len(ctis)
    PROVE  ctis[h].state \in Cubes
<1> DEFINE Entry == [state : Cubes, input : Inputs, succ : Nat]
<1>1. ctis \in Seq(Entry)
  BY DEF TypeOK
<1> HIDE DEF Entry
<1>2. ctis[h] \in Entry
  BY <1>1
<1> QED
  BY <1>2 DEF Entry

\* The cubes of the frames contradict the initial cube because their clauses do.
LEMMA FramesAvoid ==
    ASSUME TypeOK, TraceOK
    PROVE  FramesAvoidInit
<1>1. SUFFICES ASSUME NEW i \in 1 .. depth, NEW c \in frames[i]
               PROVE  ~ IntersectsInit(c)
  BY DEF FramesAvoidInit
<1> DEFINE b == [level |-> i, cube |-> c]
<1>2. b \in clauses["trans"]
  BY DEF TraceOK, SolversAgreeWithFrames, TraceClauses, Solvers
<1>3. b \notin ActivatedInit
  <2>1. b.level # 0
    BY DEF TypeOK
  <2>2. \A a \in ActivatedInit : a.level = 0
    BY DEF ActivatedInit
  <2> QED
    BY <2>1, <2>2
<1> QED
  BY <1>2, <1>3 DEF TraceOK, ClausesAvoidInit

LEMMA InvariantParts ==
    InductiveInvariant <=> /\ TypeOK
                           /\ TraceOK
                           /\ ObligationsOutsideLowerLevel
                           /\ GeneralizationSound
                           /\ EntriesUnsafe
                           /\ PhasesOK
BY DEF InductiveInvariant, TraceOK

-----------------------------------------------------------------------------
(***************************************************************************)
(* The invariant is inductive: one lemma for each action that changes more *)
(* than the program counter.                                               *)
(***************************************************************************)

LEMMA InitInvariant == Init => InductiveInvariant
<1> SUFFICES ASSUME Init PROVE InductiveInvariant
  OBVIOUS
<1>1. system \in TransitionSystems /\ \A l \in system.init : {-l} \in Cubes
  <2>1. system \in TransitionSystems
    BY SystemsAssumption DEF Init
  <2>2. ASSUME NEW l \in system.init PROVE {-l} \in Cubes
    <3>1. l \in Literals
      BY <2>1 DEF TransitionSystems, Cubes
    <3>2. -l \in Literals /\ -(-l) = l /\ -l # l
      BY <3>1, NumVarsAssumption DEF Literals, Vars
    <3> QED
      BY <3>2 DEF Cubes
  <2> QED
    BY <2>1, <2>2
<1>2. TypeOK
  <2>1. ActivatedInit \subseteq Clauses(depth)
    BY <1>1 DEF ActivatedInit, Clauses, Init
  <2>2. RefreshRate \in Nat \ {0}
    BY RefreshRateAssumption
  <2> QED
    BY <1>1, <2>1, <2>2 DEF Init, TypeOK, Obligations, NoGen, NoPushing
<1>3. TraceOK
  <2>1. SolversInSync /\ ClausesAvoidInit
    BY DEF Init, SolversInSync, ClausesAvoidInit, Solvers
  <2>2. StepsStayInTrace /\ TraceSafe
    BY DEF Init, StepsStayInTrace, TraceSafe
  <2>3. TraceClauses = {}
    BY DEF Init, TraceClauses
  <2>4. SolversAgreeWithFrames
    BY <2>3 DEF Init, SolversAgreeWithFrames
  <2> QED
    BY <2>1, <2>2, <2>4 DEF TraceOK
<1>4. ObligationsOutsideLowerLevel /\ GeneralizationSound /\ EntriesUnsafe /\ PhasesOK
  BY DEF Init, ObligationsOutsideLowerLevel, GeneralizationSound, EntriesUnsafe, PhasesOK
<1> QED
  BY <1>2, <1>3, <1>4, InvariantParts

LEMMA FindErrorStateInvariant ==
    ASSUME InductiveInvariant, FindErrorState
    PROVE  InductiveInvariant'
<1>1. /\ TypeOK /\ TraceOK /\ ObligationsOutsideLowerLevel
      /\ EntriesUnsafe /\ PhasesOK
  BY InvariantParts
<1>2. PICK s \in R("error", depth), x \in Inputs :
          /\ Bad(system, s, x)
          /\ ctis' = Append(ctis, [state |-> s, input |-> x, succ |-> 0])
          /\ queue' = {[level |-> depth, handle |-> Len(ctis) + 1]}
  BY DEF FindErrorState
<1>3. /\ pc = "check" /\ pc' = "solve"
      /\ UNCHANGED <<system, trace, gen, pushing, refreshCounter, result>>
  BY DEF FindErrorState
<1>4. s \in States /\ s \in Cubes /\ depth \in Nat /\ Len(ctis) \in Nat
  BY <1>1, <1>2 DEF R, Unblocked, States, TypeOK
<1>5. /\ ctis' \in Seq([state : Cubes, input : Inputs, succ : Nat])
      /\ Len(ctis') = Len(ctis) + 1
      /\ \A h \in 1 .. Len(ctis) : ctis'[h] = ctis[h]
      /\ ctis'[Len(ctis) + 1] = [state |-> s, input |-> x, succ |-> 0]
  BY <1>1, <1>2, <1>4 DEF TypeOK
<1>6. TypeOK'
  BY <1>1, <1>2, <1>3, <1>4, <1>5 DEF TypeOK, trace, Obligations
<1>7. TraceOK'
  BY <1>1, <1>3, TraceKept
<1>8. ObligationsOutsideLowerLevel'
  <2>1. SUFFICES ASSUME NEW po \in queue'
                 PROVE  IF po.level = 0
                        THEN \E t \in InitialStates(system) : Subsumes(s, t)
                        ELSE \A t \in R("trans", po.level - 1) : ~ Subsumes(s, t)
    BY <1>2, <1>3, <1>5 DEF ObligationsOutsideLowerLevel, CubeOf, R, trace
  <2>2. po.level = depth
    BY <1>2, <2>1
  <2>3. CASE depth = 0
    <3>1. s \in InitialStates(system)
      BY <1>1, <1>2, <2>3, AnySolver, TraceStart DEF TraceOK, Solvers
    <3> QED
      BY <2>2, <2>3, <3>1 DEF Subsumes
  <2>4. CASE depth > 0
    <3>1. SUFFICES ASSUME NEW t \in R("trans", depth - 1), Subsumes(s, t) PROVE FALSE
      BY <2>2, <2>4
    <3>2. t \in States
      BY DEF R, Unblocked
    <3>3. s \in R("error", depth - 1)
      BY <1>1, <1>4, <3>1, <3>2, StateMaximal, AnySolver DEF TraceOK, Solvers
    <3> QED
      BY <1>1, <1>2, <1>4, <2>4, <3>3 DEF TraceOK, TraceSafe
  <2> QED
    BY <1>4, <2>3, <2>4
<1>9. GeneralizationSound'
  BY <1>3 DEF GeneralizationSound
<1>10. EntriesUnsafe'
  <2>1. SUFFICES ASSUME NEW h \in 1 .. Len(ctis'), NEW inv \in SUBSET States,
                        ProvesSafe(system, inv), NEW t \in inv, Subsumes(ctis'[h].state, t)
                 PROVE  FALSE
    BY <1>3 DEF EntriesUnsafe
  <2>2. CASE h \in 1 .. Len(ctis)
    BY <1>1, <1>5, <2>1, <2>2 DEF EntriesUnsafe
  <2>3. CASE h = Len(ctis) + 1
    <3>1. s = t
      BY <1>4, <1>5, <2>1, <2>3, StateMaximal
    <3> QED
      BY <1>2, <2>1, <3>1 DEF ProvesSafe
  <2> QED
    BY <1>4, <1>5, <2>2, <2>3
<1>11. PhasesOK'
  BY <1>1, <1>3 DEF PhasesOK
<1> QED
  BY <1>6, <1>7, <1>8, <1>9, <1>10, <1>11, InvariantParts, PTL

LEMMA PushFrameInvariant ==
    ASSUME InductiveInvariant, PushFrame
    PROVE  InductiveInvariant'
<1>1. /\ TypeOK /\ TraceOK /\ ObligationsOutsideLowerLevel
      /\ EntriesUnsafe /\ PhasesOK
  BY InvariantParts
<1>2. /\ pc = "check" /\ pc' = "propagate" /\ queue = {} /\ depth \in Nat
      /\ \A s \in R("error", depth), x \in Inputs : ~ Bad(system, s, x)
      /\ depth' = depth + 1
      /\ frames' = [d \in 0 .. depth + 1 |-> IF d <= depth THEN frames[d] ELSE {}]
      /\ pushing' = [level |-> 1, todo |-> frames'[1]]
      /\ UNCHANGED <<system, clauses, ctis, queue, gen, refreshCounter, result>>
  BY <1>1 DEF PushFrame, PhasesOK, TypeOK
<1>3. TypeOK'
  <2>1. frames' \in [0 .. depth' -> SUBSET Cubes]
    BY <1>1, <1>2 DEF TypeOK
  <2>2. pushing' \in [level : Nat \ {0}, todo : SUBSET Cubes]
    BY <1>2, <2>1
  <2>3. clauses' \in [Solvers -> SUBSET Clauses(depth')]
    BY <1>1, <1>2 DEF TypeOK, Clauses
  <2> QED
    BY <1>1, <1>2, <2>1, <2>2, <2>3 DEF TypeOK
<1>4. TraceOK'
  <2>1. SolversInSync' /\ ClausesAvoidInit'
    BY <1>1, <1>2 DEF TraceOK, SolversInSync, ClausesAvoidInit, ActivatedInit, IntersectsInit
  <2>2. StepsStayInTrace'
    <3>1. SUFFICES ASSUME NEW sv \in Solvers, NEW i \in 0 .. depth,
                          NEW s \in R(sv, i), NEW x \in Inputs
                   PROVE  Step(system, s, x) \in R(sv, i + 1)
      BY <1>2 DEF StepsStayInTrace, R
    <3>2. CASE i < depth
      BY <1>1, <1>2, <3>1, <3>2 DEF TraceOK, StepsStayInTrace
    <3>3. CASE i = depth
      <4>1. \A b \in clauses[sv] : ~ (b.level >= i + 1)
        BY <1>1, <1>2, <3>3 DEF TypeOK, Clauses
      <4>2. s \in States /\ Step(system, s, x) \in States
        BY <1>1 DEF R, Unblocked, TypeOK, TransitionSystems, Step
      <4> QED
        BY <4>1, <4>2 DEF R, Unblocked
    <3> QED
      BY <1>2, <3>2, <3>3
  <2>3. TraceSafe'
    <3>1. SUFFICES ASSUME NEW i \in 0 .. depth, NEW s \in R("error", i), NEW x \in Inputs
                   PROVE  ~ Bad(system, s, x)
      BY <1>2 DEF TraceSafe, R
    <3>2. CASE i < depth
      BY <1>1, <1>2, <3>1, <3>2 DEF TraceOK, TraceSafe
    <3>3. CASE i = depth
      BY <1>2, <3>1, <3>3
    <3> QED
      BY <1>2, <3>2, <3>3
  <2>4. SolversAgreeWithFrames'
    <3>1. TraceClauses' = TraceClauses
      <4>1. TraceClauses' = UNION {{[level |-> i, cube |-> c] : c \in frames'[i]} : i \in 1 .. depth + 1}
        BY <1>2 DEF TraceClauses
      <4>2. frames'[depth + 1] = {} /\ \A i \in 1 .. depth : frames'[i] = frames[i]
        BY <1>2
      <4> QED
        BY <1>2, <4>1, <4>2 DEF TraceClauses
    <3> QED
      BY <1>1, <1>2, <3>1 DEF TraceOK, SolversAgreeWithFrames, ActivatedInit
  <2> QED
    BY <2>1, <2>2, <2>3, <2>4 DEF TraceOK
<1>5. ObligationsOutsideLowerLevel' /\ GeneralizationSound'
  BY <1>2 DEF ObligationsOutsideLowerLevel, GeneralizationSound
<1>6. EntriesUnsafe'
  BY <1>1, <1>2, EntriesKept
<1>7. PhasesOK'
  <2>1. ASSUME NEW c \in frames'[1] PROVE ~ IntersectsInit(c)
    <3>1. depth > 0 /\ c \in frames[1]
      BY <1>2, <2>1
    <3> QED
      BY <1>1, <1>2, <3>1, FramesAvoid DEF FramesAvoidInit
  <2>2. pushing'.level = 1 /\ \A c \in pushing'.todo : ~ IntersectsInit(c)'
    BY <1>2, <2>1 DEF IntersectsInit
  <2>3. result' = [verdict |-> "none", handle |-> 0]
    BY <1>1, <1>2 DEF PhasesOK
  <2> QED
    BY <1>2, <2>2, <2>3 DEF PhasesOK
<1> QED
  BY <1>3, <1>4, <1>5, <1>6, <1>7, InvariantParts, PTL

LEMMA ReachedInitInvariant ==
    ASSUME InductiveInvariant, ReachedInit
    PROVE  InductiveInvariant'
<1>1. /\ TypeOK /\ TraceOK /\ ObligationsOutsideLowerLevel
      /\ EntriesUnsafe /\ PhasesOK
  BY InvariantParts
<1>2. PICK po \in queue : po.level = 0 /\ result' = [verdict |-> "counterexample", handle |-> po.handle]
  BY DEF ReachedInit
<1>3. pc' = "done" /\ UNCHANGED <<system, trace, ctis, queue, gen, pushing, refreshCounter>>
  BY DEF ReachedInit
<1>4. TypeOK'
  BY <1>1, <1>2, <1>3 DEF TypeOK, trace, Obligations
<1>5. TraceOK' /\ ObligationsOutsideLowerLevel' /\ EntriesUnsafe'
  BY <1>1, <1>3, TraceKept, ObligationsKept, EntriesKept
<1>6. GeneralizationSound' /\ PhasesOK'
  BY <1>2, <1>3 DEF GeneralizationSound, PhasesOK
<1> QED
  BY <1>4, <1>5, <1>6, InvariantParts, PTL

LEMMA DropBlockedInvariant ==
    ASSUME InductiveInvariant, DropBlocked
    PROVE  InductiveInvariant'
<1>1. /\ TypeOK /\ TraceOK /\ ObligationsOutsideLowerLevel
      /\ EntriesUnsafe /\ PhasesOK
  BY InvariantParts
<1>2. /\ queue' \subseteq queue /\ pc = "solve"
      /\ UNCHANGED <<system, trace, ctis, gen, pushing, refreshCounter, pc, result>>
  BY DEF DropBlocked
<1>3. TypeOK'
  BY <1>1, <1>2 DEF TypeOK, trace
<1>4. TraceOK' /\ ObligationsOutsideLowerLevel' /\ EntriesUnsafe'
  BY <1>1, <1>2, TraceKept, ObligationsKept, EntriesKept
<1>5. GeneralizationSound' /\ PhasesOK'
  BY <1>1, <1>2 DEF GeneralizationSound, PhasesOK
<1> QED
  BY <1>3, <1>4, <1>5, InvariantParts, PTL

LEMMA AddPredecessorInvariant ==
    ASSUME InductiveInvariant, AddPredecessor
    PROVE  InductiveInvariant'
<1>1. /\ TypeOK /\ TraceOK /\ ObligationsOutsideLowerLevel
      /\ EntriesUnsafe /\ PhasesOK
  BY InvariantParts
<1>2. PICK po \in queue :
          /\ po.level > 0
          /\ \E s \in R("trans", po.level - 1), x \in Inputs :
                 \E p \in GeneralizedPredecessors(s, x, po) :
                     ctis' = Append(ctis, [state |-> p, input |-> x, succ |-> po.handle])
          /\ queue' = queue \cup {[level |-> po.level - 1, handle |-> Len(ctis) + 1]}
  BY DEF AddPredecessor, PredecessorLevel
<1>3. PICK s \in R("trans", po.level - 1), x \in Inputs :
          \E p \in GeneralizedPredecessors(s, x, po) :
              ctis' = Append(ctis, [state |-> p, input |-> x, succ |-> po.handle])
  BY <1>2
<1>4. PICK p \in GeneralizedPredecessors(s, x, po) :
          ctis' = Append(ctis, [state |-> p, input |-> x, succ |-> po.handle])
  BY <1>3
<1>5. /\ pc = "solve" /\ pc' = "solve"
      /\ UNCHANGED <<system, trace, gen, pushing, refreshCounter, result>>
  BY DEF AddPredecessor
<1>6. /\ p \in SUBSET s
      /\ \A t \in States : Subsumes(p, t) => Subsumes(CubeOf(po), Step(system, t, x))
  BY <1>4 DEF GeneralizedPredecessors
<1>7. /\ s \in States /\ p \in Cubes /\ depth \in Nat /\ Len(ctis) \in Nat
      /\ po.level \in 1 .. depth /\ po.handle \in 1 .. Len(ctis)
  BY <1>1, <1>2, <1>3, <1>6, SubCube DEF R, Unblocked, States, TypeOK, Obligations
<1>8. /\ ctis' \in Seq([state : Cubes, input : Inputs, succ : Nat])
      /\ Len(ctis') = Len(ctis) + 1
      /\ \A h \in 1 .. Len(ctis) : ctis'[h] = ctis[h]
      /\ ctis'[Len(ctis) + 1] = [state |-> p, input |-> x, succ |-> po.handle]
  BY <1>1, <1>4, <1>7 DEF TypeOK
<1>9. TypeOK'
  <2>1. queue' \subseteq Obligations(depth', Len(ctis'))
    <3>1. depth' = depth
      BY <1>5 DEF trace
    <3>2. [level |-> po.level - 1, handle |-> Len(ctis) + 1] \in Obligations(depth', Len(ctis'))
      BY <1>7, <1>8, <3>1 DEF Obligations
    <3>3. queue \subseteq Obligations(depth', Len(ctis'))
      BY <1>1, <1>7, <1>8, <3>1 DEF TypeOK, Obligations
    <3> QED
      BY <1>2, <3>2, <3>3
  <2>2. result' \in [verdict : {"none", "ok", "counterexample"}, handle : 0 .. Len(ctis')]
    BY <1>1, <1>5, <1>7, <1>8 DEF TypeOK
  <2> QED
    BY <1>1, <1>5, <1>8, <2>1, <2>2 DEF TypeOK, trace
<1>10. TraceOK'
  BY <1>1, <1>5, TraceKept
<1>11. ObligationsOutsideLowerLevel'
  <2>1. SUFFICES ASSUME NEW q \in queue'
                 PROVE  IF q.level = 0
                        THEN \E t \in InitialStates(system) : Subsumes(CubeOf(q)', t)
                        ELSE \A t \in R("trans", q.level - 1) : ~ Subsumes(CubeOf(q)', t)
    BY <1>5 DEF ObligationsOutsideLowerLevel, R, trace
  <2>2. CASE q \in queue
    <3>1. CubeOf(q)' = CubeOf(q)
      BY <1>1, <1>8, <2>2 DEF CubeOf, TypeOK, Obligations
    <3> QED
      BY <1>1, <2>2, <3>1 DEF ObligationsOutsideLowerLevel
  <2>3. CASE q = [level |-> po.level - 1, handle |-> Len(ctis) + 1]
    <3>1. CubeOf(q)' = p /\ q.level = po.level - 1
      BY <1>8, <2>3 DEF CubeOf
    <3>2. CASE po.level = 1
      <4>1. s \in InitialStates(system)
        BY <1>1, <1>3, <3>2, TraceStart DEF TraceOK
      <4> QED
        BY <1>6, <3>1, <3>2, <4>1 DEF Subsumes
    <3>3. CASE po.level > 1
      <4>1. SUFFICES ASSUME NEW t \in R("trans", q.level - 1), Subsumes(p, t) PROVE FALSE
        BY <1>7, <3>1, <3>3
      <4>2. t \in States /\ Subsumes(CubeOf(po), Step(system, t, x))
        BY <1>6, <4>1 DEF R, Unblocked
      <4>3. q.level - 1 \in 0 .. depth - 1 /\ q.level - 1 + 1 = po.level - 1
        BY <1>7, <3>1, <3>3
      <4>4. Step(system, t, x) \in R("trans", po.level - 1)
        BY <1>1, <4>1, <4>3 DEF TraceOK, StepsStayInTrace, Solvers
      <4> QED
        BY <1>1, <1>7, <4>2, <4>4 DEF ObligationsOutsideLowerLevel
    <3> QED
      BY <1>7, <3>2, <3>3
  <2> QED
    BY <1>2, <2>2, <2>3
<1>12. GeneralizationSound'
  BY <1>5 DEF GeneralizationSound
<1>13. EntriesUnsafe'
  <2>1. SUFFICES ASSUME NEW h \in 1 .. Len(ctis'), NEW inv \in SUBSET States,
                        ProvesSafe(system, inv), NEW t \in inv, Subsumes(ctis'[h].state, t)
                 PROVE  FALSE
    BY <1>5 DEF EntriesUnsafe
  <2>2. CASE h \in 1 .. Len(ctis)
    BY <1>1, <1>8, <2>1, <2>2 DEF EntriesUnsafe
  <2>3. CASE h = Len(ctis) + 1
    <3>1. Subsumes(CubeOf(po), Step(system, t, x)) /\ Step(system, t, x) \in inv
      BY <1>6, <1>8, <2>1, <2>3 DEF ProvesSafe
    <3> QED
      BY <1>1, <1>7, <2>1, <3>1 DEF EntriesUnsafe, CubeOf
  <2> QED
    BY <1>7, <1>8, <2>2, <2>3
<1>14. PhasesOK'
  BY <1>1, <1>5 DEF PhasesOK
<1> QED
  BY <1>9, <1>10, <1>11, <1>12, <1>13, <1>14, InvariantParts, PTL

LEMMA StartBlockingInvariant ==
    ASSUME InductiveInvariant, StartBlocking
    PROVE  InductiveInvariant'
<1>1. /\ TypeOK /\ TraceOK /\ ObligationsOutsideLowerLevel
      /\ EntriesUnsafe /\ PhasesOK
  BY InvariantParts
<1>2. PICK po \in queue :
          /\ po.level > 0
          /\ \E g \in GeneralizeFromCore(CubeOf(po), po.level) :
                 gen' = [po |-> po, lits |-> g.lits, level |-> g.level, todo |-> g.lits]
          /\ queue' = queue \ {po}
  BY DEF StartBlocking
<1>3. PICK g \in GeneralizeFromCore(CubeOf(po), po.level) :
          gen' = [po |-> po, lits |-> g.lits, level |-> g.level, todo |-> g.lits]
  BY <1>2
<1>4. pc' = "generalize" /\ pc = "solve"
      /\ UNCHANGED <<system, trace, ctis, pushing, refreshCounter, result>>
  BY DEF StartBlocking
<1>5. /\ po \in Obligations(depth, Len(ctis)) /\ po.level \in 1 .. depth
      /\ po.handle \in Nat /\ depth \in Nat
      /\ CubeOf(po) \in Cubes
  <2>1. po \in Obligations(depth, Len(ctis)) /\ depth \in Nat /\ Len(ctis) \in Nat
    BY <1>1 DEF TypeOK
  <2>2. po.level \in 1 .. depth /\ po.handle \in 1 .. Len(ctis)
    BY <1>2, <2>1 DEF Obligations
  <2>3. CubeOf(po) \in Cubes
    BY <1>1, <2>2, PoolEntry DEF CubeOf
  <2> QED
    BY <2>1, <2>2, <2>3
<1>6. /\ g.lits \subseteq CubeOf(po)
      /\ g.level \in po.level .. depth + 1
      /\ ~ IntersectsInit(g.lits)
      /\ IsRelativeInductive(g.lits, g.level)
  BY <1>1, <1>5, GeneralizedCore
<1>7. TypeOK'
  <2>1. gen' \in [po : [level : Nat, handle : Nat], lits : SUBSET Literals,
                  level : 1 .. depth' + 1, todo : SUBSET Literals]
    <3>1. depth' = depth /\ g.lits \subseteq Literals /\ g.level \in 1 .. depth + 1
      BY <1>4, <1>5, <1>6 DEF trace, Cubes
    <3>2. po \in [level : Nat, handle : Nat]
      BY <1>5 DEF Obligations
    <3> QED
      BY <1>3, <3>1, <3>2
  <2> QED
    BY <1>1, <1>2, <1>4, <2>1 DEF TypeOK, trace
<1>8. TraceOK' /\ ObligationsOutsideLowerLevel' /\ EntriesUnsafe'
  BY <1>1, <1>2, <1>4, TraceKept, ObligationsKept, EntriesKept
<1>9. GeneralizationSound'
  <2>1. gen'.po = po /\ gen'.lits = g.lits /\ gen'.level = g.level
    BY <1>3
  <2> QED
    BY <1>4, <1>5, <1>6, <2>1 DEF GeneralizationSound, CubeOf, IntersectsInit,
       IsRelativeInductive, Unreached, R, trace
<1>10. PhasesOK'
  BY <1>1, <1>2, <1>3, <1>4, <1>5 DEF PhasesOK, trace
<1> QED
  BY <1>7, <1>8, <1>9, <1>10, InvariantParts, PTL

\* ShrinkCube and RaiseCube both replace the cube and the level by what
\* generalize_from_core returns for a part of the cube at no lower a level.
LEMMA RegeneralizedInvariant ==
    ASSUME InductiveInvariant, pc = "generalize",
           NEW s \in SUBSET gen.lits, NEW level \in Nat, gen.level <= level,
           NEW g \in GeneralizeFromCore(s, level), NEW todo \in SUBSET gen.todo,
           gen' = [gen EXCEPT !.lits = g.lits, !.level = g.level, !.todo = todo],
           UNCHANGED <<system, trace, ctis, queue, pushing, refreshCounter, pc, result>>
    PROVE  InductiveInvariant'
<1>1. /\ TypeOK /\ TraceOK /\ ObligationsOutsideLowerLevel
      /\ GeneralizationSound /\ EntriesUnsafe /\ PhasesOK
  BY InvariantParts
<1>2. /\ g.lits \subseteq s
      /\ g.level \in level .. depth + 1
      /\ ~ IntersectsInit(g.lits)
      /\ IsRelativeInductive(g.lits, g.level)
  BY <1>1, GeneralizedCore
<1>3. /\ gen'.po = gen.po /\ gen'.lits = g.lits /\ gen'.level = g.level
      /\ gen' \in [po : [level : Nat, handle : Nat], lits : SUBSET Literals,
                   level : 1 .. depth + 1, todo : SUBSET Literals]
  <2>1. /\ gen \in [po : [level : Nat, handle : Nat], lits : SUBSET Literals,
                    level : 1 .. depth + 1, todo : SUBSET Literals]
        /\ depth \in Nat
    BY <1>1 DEF TypeOK
  <2>2. g.lits \in SUBSET Literals /\ g.level \in 1 .. depth + 1 /\ todo \in SUBSET Literals
    BY <1>2, <2>1
  <2> QED
    BY <2>1, <2>2
<1>4. TypeOK'
  BY <1>1, <1>3 DEF TypeOK, trace
<1>5. TraceOK' /\ ObligationsOutsideLowerLevel' /\ EntriesUnsafe'
  BY <1>1, TraceKept, ObligationsKept, EntriesKept
<1>6. GeneralizationSound'
  <2>1. gen.po.level <= g.level /\ g.lits \subseteq CubeOf(gen.po)
    BY <1>1, <1>2 DEF GeneralizationSound, TypeOK
  <2> QED
    BY <1>2, <1>3, <2>1 DEF GeneralizationSound, CubeOf, IntersectsInit,
       IsRelativeInductive, Unreached, R, trace
<1>7. PhasesOK'
  BY <1>1, <1>3 DEF PhasesOK, trace
<1> QED
  BY <1>4, <1>5, <1>6, <1>7, InvariantParts, PTL

LEMMA ShrinkCubeInvariant ==
    ASSUME InductiveInvariant, ShrinkCube
    PROVE  InductiveInvariant'
<1>1. /\ TypeOK /\ TraceOK /\ ObligationsOutsideLowerLevel
      /\ GeneralizationSound /\ EntriesUnsafe /\ PhasesOK
  BY InvariantParts
<1>2. /\ pc = "generalize"
      /\ UNCHANGED <<system, trace, ctis, queue, pushing, refreshCounter, pc, result>>
  BY DEF ShrinkCube
<1>3. PICK l \in gen.todo :
          \/ gen' = [gen EXCEPT !.todo = @ \ {l}]
          \/ \E g \in GeneralizeFromCore(gen.lits \ {l}, gen.level) :
                 gen' = [gen EXCEPT !.lits = g.lits, !.level = g.level, !.todo = @ \ {l}]
  BY DEF ShrinkCube
<1>4. CASE gen' = [gen EXCEPT !.todo = @ \ {l}]
  <2>1. /\ gen'.po = gen.po /\ gen'.lits = gen.lits /\ gen'.level = gen.level
        /\ gen' \in [po : [level : Nat, handle : Nat], lits : SUBSET Literals,
                     level : 1 .. depth + 1, todo : SUBSET Literals]
    BY <1>1, <1>4 DEF TypeOK
  <2>2. TypeOK'
    BY <1>1, <1>2, <2>1 DEF TypeOK, trace
  <2>3. TraceOK' /\ ObligationsOutsideLowerLevel' /\ EntriesUnsafe'
    BY <1>1, <1>2, TraceKept, ObligationsKept, EntriesKept
  <2>4. GeneralizationSound'
    BY <1>1, <1>2, <2>1 DEF GeneralizationSound, CubeOf, IntersectsInit,
       IsRelativeInductive, Unreached, R, trace
  <2>5. PhasesOK'
    BY <1>1, <1>2, <2>1 DEF PhasesOK, trace
  <2> QED
    BY <2>2, <2>3, <2>4, <2>5, InvariantParts, PTL
<1>5. CASE \E g \in GeneralizeFromCore(gen.lits \ {l}, gen.level) :
               gen' = [gen EXCEPT !.lits = g.lits, !.level = g.level, !.todo = @ \ {l}]
  <2>1. PICK g \in GeneralizeFromCore(gen.lits \ {l}, gen.level) :
            gen' = [gen EXCEPT !.lits = g.lits, !.level = g.level, !.todo = gen.todo \ {l}]
    BY <1>5
  <2>2. gen.level \in Nat /\ gen.level <= gen.level
    BY <1>1 DEF TypeOK
  <2> QED
    BY <1>2, <2>1, <2>2, RegeneralizedInvariant
<1> QED
  BY <1>3, <1>4, <1>5

LEMMA RaiseCubeInvariant ==
    ASSUME InductiveInvariant, RaiseCube
    PROVE  InductiveInvariant'
<1>1. TypeOK
  BY InvariantParts
<1>2. PICK g \in GeneralizeFromCore(gen.lits, gen.level + 1) :
          gen' = [gen EXCEPT !.lits = g.lits, !.level = g.level]
  BY DEF RaiseCube
<1>3. gen' = [gen EXCEPT !.lits = g.lits, !.level = g.level, !.todo = gen.todo]
  BY <1>1, <1>2 DEF TypeOK
<1>4. gen.level + 1 \in Nat /\ gen.level <= gen.level + 1
  BY <1>1 DEF TypeOK
<1> QED
  BY <1>3, <1>4, RegeneralizedInvariant DEF RaiseCube

LEMMA BlockCubeInvariant ==
    ASSUME InductiveInvariant, BlockCube
    PROVE  InductiveInvariant'
<1> DEFINE po == gen.po
           k  == TopFrame(gen.level)
<1>1. /\ TypeOK /\ TraceOK /\ ObligationsOutsideLowerLevel
      /\ GeneralizationSound /\ EntriesUnsafe /\ PhasesOK
  BY InvariantParts
<1>2. /\ pc = "generalize" /\ pc' = "solve"
      /\ AddBlocked(gen.lits, gen.level, 1)
      /\ queue' = queue \cup Repushed(po)
      /\ gen' = NoGen
      /\ UNCHANGED <<system, depth, ctis, pushing, refreshCounter, result>>
  BY DEF BlockCube
<1>3. /\ depth \in Nat /\ Len(ctis) \in Nat /\ gen.level \in 1 .. depth + 1
      /\ po \in Obligations(depth, Len(ctis)) /\ po.level > 0
      /\ queue \subseteq Obligations(depth, Len(ctis))
  BY <1>1, <1>2 DEF TypeOK, PhasesOK
<1>4. po.level \in 1 .. depth /\ po.handle \in 1 .. Len(ctis)
  BY <1>3 DEF Obligations
<1>5. /\ gen.lits \subseteq CubeOf(po) /\ po.level <= gen.level
      /\ ~ IntersectsInit(gen.lits) /\ IsRelativeInductive(gen.lits, gen.level)
  BY <1>1, <1>2 DEF GeneralizationSound
<1>6. gen.lits \in Cubes
  BY <1>1, <1>4, <1>5, PoolEntry, SubCube DEF CubeOf
<1>7. 1 \in 1 .. k /\ po.level <= k /\ depth > 0
  BY <1>3, <1>4, <1>5 DEF TopFrame
<1>8. /\ frames' \in [0 .. depth' -> SUBSET Cubes]
      /\ clauses' \in [Solvers -> SUBSET Clauses(depth')]
      /\ TraceOK'
      /\ \A sv \in Solvers, i \in Nat :
             Unblocked(clauses'[sv], i) \subseteq
               {s \in Unblocked(clauses[sv], i) : i <= k => ~ Subsumes(gen.lits, s)}
  BY <1>1, <1>2, <1>3, <1>5, <1>6, <1>7, BlockedTrace
<1> HIDE DEF k
<1>9. ASSUME NEW q \in Repushed(po)
      PROVE  /\ q = [level |-> po.level + 1, handle |-> po.handle]
             /\ po.level < depth
  BY DEF Repushed
<1>10. TypeOK'
  <2>1. queue' \subseteq Obligations(depth', Len(ctis'))
    BY <1>2, <1>3, <1>4, <1>9 DEF Obligations
  <2>2. gen' \in [po : [level : Nat, handle : Nat], lits : SUBSET Literals,
                  level : 1 .. depth' + 1, todo : SUBSET Literals]
    BY <1>2, <1>3 DEF NoGen
  <2> QED
    BY <1>1, <1>2, <1>8, <2>1, <2>2 DEF TypeOK
<1>11. ObligationsOutsideLowerLevel'
  <2>1. SUFFICES ASSUME NEW q \in queue'
                 PROVE  IF q.level = 0
                        THEN \E t \in InitialStates(system) : Subsumes(CubeOf(q), t)
                        ELSE \A t \in Unblocked(clauses'["trans"], q.level - 1) :
                                 ~ Subsumes(CubeOf(q), t)
    BY <1>2 DEF ObligationsOutsideLowerLevel, CubeOf, R
  <2>2. CASE q \in queue
    <3>1. q.level \in Nat /\ "trans" \in Solvers
      BY <1>3, <2>2 DEF Obligations, Solvers
    <3>2. q.level > 0 => Unblocked(clauses'["trans"], q.level - 1) \subseteq R("trans", q.level - 1)
      BY <1>8, <3>1 DEF R
    <3> QED
      BY <1>1, <2>2, <3>1, <3>2 DEF ObligationsOutsideLowerLevel
  <2>3. CASE q \in Repushed(po)
    <3>1. CubeOf(q) = CubeOf(po) /\ q.level - 1 = po.level /\ q.level # 0
      BY <1>4, <1>9, <2>3 DEF CubeOf
    <3>2. ASSUME NEW t \in Unblocked(clauses'["trans"], po.level) PROVE ~ Subsumes(gen.lits, t)
      BY <1>4, <1>7, <1>8, <3>2 DEF Solvers
    <3> QED
      BY <1>5, <3>1, <3>2 DEF Subsumes
  <2> QED
    BY <1>2, <2>1, <2>2, <2>3
<1>12. GeneralizationSound' /\ EntriesUnsafe' /\ PhasesOK'
  BY <1>1, <1>2, EntriesKept DEF GeneralizationSound, PhasesOK
<1> QED
  BY <1>8, <1>10, <1>11, <1>12, InvariantParts, PTL

LEMMA PropagateCubeInvariant ==
    ASSUME InductiveInvariant, PropagateCube
    PROVE  InductiveInvariant'
<1>1. /\ TypeOK /\ TraceOK /\ EntriesUnsafe /\ PhasesOK
  BY InvariantParts
<1>2. PICK c \in pushing.todo :
          /\ \/ \E g \in GeneralizeFromCore(c, pushing.level + 1) :
                    AddBlocked(g.lits, g.level, pushing.level)
             \/ UNCHANGED <<frames, clauses>>
          /\ pushing' = [pushing EXCEPT !.todo = @ \ {c}]
  BY DEF PropagateCube
<1>3. /\ pc = "propagate" /\ pc' = "propagate" /\ pushing.level < depth /\ queue = {}
      /\ UNCHANGED <<system, depth, ctis, queue, gen, refreshCounter, result>>
  BY <1>1 DEF PropagateCube, PhasesOK
<1>4. depth \in Nat /\ pushing.level \in Nat \ {0} /\ c \in Cubes /\ pushing.todo \subseteq Cubes
  BY <1>1, <1>2 DEF TypeOK
<1>5. pushing'.level = pushing.level /\ pushing'.todo = pushing.todo \ {c}
      /\ pushing' \in [level : Nat \ {0}, todo : SUBSET Cubes]
  BY <1>1, <1>2, <1>4 DEF TypeOK
<1>6. /\ frames' \in [0 .. depth' -> SUBSET Cubes]
      /\ clauses' \in [Solvers -> SUBSET Clauses(depth')]
      /\ TraceOK'
  <2>1. CASE UNCHANGED <<frames, clauses>>
    BY <1>1, <1>3, <2>1, TraceKept DEF TypeOK, trace
  <2>2. CASE \E g \in GeneralizeFromCore(c, pushing.level + 1) :
                 AddBlocked(g.lits, g.level, pushing.level)
    <3>1. PICK g \in GeneralizeFromCore(c, pushing.level + 1) :
              AddBlocked(g.lits, g.level, pushing.level)
      BY <2>2
    <3>2. /\ g.lits \subseteq c /\ g.level \in pushing.level + 1 .. depth + 1
          /\ ~ IntersectsInit(g.lits) /\ IsRelativeInductive(g.lits, g.level)
      BY <1>1, <1>4, GeneralizedCore
    <3>3. g.lits \in Cubes
      BY <1>4, <3>2, SubCube
    <3>4. pushing.level \in 1 .. TopFrame(g.level) /\ g.level \in 1 .. depth + 1 /\ depth > 0
      BY <1>3, <1>4, <3>2 DEF TopFrame
    <3> QED
      BY <1>1, <1>3, <3>1, <3>2, <3>3, <3>4, BlockedTrace
  <2> QED
    BY <1>2, <2>1, <2>2
<1>7. TypeOK'
  BY <1>1, <1>3, <1>5, <1>6 DEF TypeOK
<1>8. ObligationsOutsideLowerLevel' /\ GeneralizationSound'
  BY <1>3 DEF ObligationsOutsideLowerLevel, GeneralizationSound
<1>9. EntriesUnsafe' /\ PhasesOK'
  BY <1>1, <1>3, <1>5, EntriesKept DEF PhasesOK, IntersectsInit
<1> QED
  BY <1>6, <1>7, <1>8, <1>9, InvariantParts, PTL

LEMMA NextFrameInvariant ==
    ASSUME InductiveInvariant, NextFrame
    PROVE  InductiveInvariant'
<1>1. /\ TypeOK /\ TraceOK /\ ObligationsOutsideLowerLevel
      /\ EntriesUnsafe /\ PhasesOK
  BY InvariantParts
<1>2. /\ pc = "propagate" /\ pushing.level < depth
      /\ pushing' = [level |-> pushing.level + 1, todo |-> frames[pushing.level + 1]]
      /\ UNCHANGED <<system, trace, ctis, queue, gen, refreshCounter, pc, result>>
  BY DEF NextFrame, FramePushed
<1>3. depth \in Nat /\ pushing.level \in Nat \ {0} /\ pushing.level + 1 \in 1 .. depth
  BY <1>1, <1>2 DEF TypeOK
<1>4. TypeOK'
  <2>1. pushing' \in [level : Nat \ {0}, todo : SUBSET Cubes]
    BY <1>1, <1>2, <1>3 DEF TypeOK
  <2> QED
    BY <1>1, <1>2, <2>1 DEF TypeOK, trace
<1>5. TraceOK' /\ ObligationsOutsideLowerLevel' /\ EntriesUnsafe'
  BY <1>1, <1>2, TraceKept, ObligationsKept, EntriesKept
<1>6. GeneralizationSound'
  BY <1>2 DEF GeneralizationSound
<1>7. PhasesOK'
  <2>1. \A c \in frames[pushing.level + 1] : ~ IntersectsInit(c)
    BY <1>1, <1>3, FramesAvoid DEF FramesAvoidInit
  <2>2. pushing'.level \in 1 .. depth /\ pushing'.todo = frames[pushing.level + 1]
    BY <1>2, <1>3
  <2> QED
    BY <1>1, <1>2, <2>1, <2>2 DEF PhasesOK, IntersectsInit, trace
<1> QED
  BY <1>4, <1>5, <1>6, <1>7, InvariantParts, PTL

\* ObligationsSolved, EndPropagate and FindInvariant leave the trace and the
\* obligations, of which there are none, alone.
LEMMA PhaseChangeInvariant ==
    ASSUME InductiveInvariant, queue = {}, UNCHANGED <<system, trace, ctis, queue, gen, refreshCounter>>,
           pushing' \in {pushing, NoPushing},
           \/ pc' = "iterated" /\ pc # "done" /\ UNCHANGED result
           \/ pc' = "done" /\ result' = [verdict |-> "ok", handle |-> 0]
    PROVE  InductiveInvariant'
<1>1. /\ TypeOK /\ TraceOK /\ ObligationsOutsideLowerLevel
      /\ EntriesUnsafe /\ PhasesOK
  BY InvariantParts
<1>2. TypeOK'
  <2>1. pushing' \in [level : Nat \ {0}, todo : SUBSET Cubes]
    BY <1>1 DEF TypeOK, NoPushing
  <2>2. /\ pc' \in {"iterated", "done"}
        /\ result' \in [verdict : {"none", "ok", "counterexample"}, handle : 0 .. Len(ctis)]
    BY <1>1 DEF TypeOK
  <2> QED
    BY <1>1, <2>1, <2>2 DEF TypeOK, trace
<1>3. TraceOK' /\ ObligationsOutsideLowerLevel' /\ EntriesUnsafe'
  BY <1>1, TraceKept, ObligationsKept, EntriesKept
<1>4. GeneralizationSound' /\ PhasesOK'
  BY <1>1 DEF GeneralizationSound, PhasesOK
<1> QED
  BY <1>2, <1>3, <1>4, InvariantParts, PTL

(***************************************************************************)
(* refresh_solvers forgets the clauses whose cubes are subsumed by a cube  *)
(* of the same or a higher frame, and none of the levels changes.          *)
(***************************************************************************)
LEMMA RefreshedLevels ==
    ASSUME TypeOK, SolversAgreeWithFrames, NEW sv \in Solvers, NEW i \in Nat
    PROVE  Unblocked(RefreshedClauses, i) = R(sv, i)
<1>1. /\ \A b \in clauses[sv] : b.level \in Int
      /\ RefreshedClauses \subseteq clauses[sv]
  BY DEF TypeOK, Clauses, SolversAgreeWithFrames, RefreshedClauses
<1>2. ASSUME NEW s \in Unblocked(RefreshedClauses, i), NEW b \in clauses[sv], b.level >= i
      PROVE  ~ Subsumes(b.cube, s)
  <2>1. CASE b \in ActivatedInit
    BY <1>2, <2>1 DEF RefreshedClauses, Unblocked
  <2>2. CASE b \notin ActivatedInit
    <3>1. PICK c \in TraceClauses : b.level <= c.level /\ c.cube \subseteq b.cube
      BY <2>2 DEF SolversAgreeWithFrames, CoveredBy, Subsumes
    <3>2. c \in RefreshedClauses /\ c \in clauses[sv]
      BY <1>1 DEF RefreshedClauses
    <3>3. c.level >= i
      BY <1>1, <1>2, <3>1, <3>2
    <3>4. ~ Subsumes(c.cube, s)
      BY <3>2, <3>3 DEF Unblocked
    <3> QED
      BY <3>1, <3>4 DEF Subsumes
  <2> QED
    BY <2>1, <2>2
<1>3. Unblocked(RefreshedClauses, i) \subseteq R(sv, i)
  BY <1>2 DEF R, Unblocked
<1>4. R(sv, i) \subseteq Unblocked(RefreshedClauses, i)
  BY <1>1 DEF R, Unblocked
<1> QED
  BY <1>3, <1>4

LEMMA EndIterationInvariant ==
    ASSUME InductiveInvariant, EndIteration
    PROVE  InductiveInvariant'
<1>1. /\ TypeOK /\ TraceOK /\ ObligationsOutsideLowerLevel
      /\ EntriesUnsafe /\ PhasesOK
  BY InvariantParts
<1>2. /\ pc = "iterated" /\ pc' = "check" /\ ctis' = <<>>
      /\ queue = {} /\ result = [verdict |-> "none", handle |-> 0]
      /\ UNCHANGED <<system, depth, frames, queue, gen, pushing, result>>
  BY <1>1 DEF EndIteration, PhasesOK
<1>3. \/ /\ clauses' = [sv \in Solvers |-> RefreshedClauses]
         /\ refreshCounter' = 0
      \/ /\ UNCHANGED clauses
         /\ refreshCounter + 1 < RefreshRate
         /\ refreshCounter' = refreshCounter + 1
  BY <1>1, RefreshRateAssumption DEF EndIteration, TypeOK
<1>4. refreshCounter' \in 0 .. RefreshRate - 1
  BY <1>1, <1>3, RefreshRateAssumption DEF TypeOK
<1>5. \A sv \in Solvers : clauses'[sv] \subseteq clauses[sv]
  BY <1>1, <1>3 DEF TraceOK, SolversAgreeWithFrames, RefreshedClauses
<1>6. TypeOK'
  <2>1. clauses' \in [Solvers -> SUBSET Clauses(depth')]
    <3>1. CASE UNCHANGED clauses
      BY <1>1, <1>2, <3>1 DEF TypeOK
    <3>2. CASE clauses' = [sv \in Solvers |-> RefreshedClauses]
      <4>1. \A sv \in Solvers : RefreshedClauses \subseteq Clauses(depth)
        BY <1>1, <1>5, <3>2 DEF TypeOK
      <4> QED
        BY <1>2, <3>2, <4>1
    <3> QED
      BY <1>3, <3>1, <3>2
  <2>2. ctis' \in Seq([state : Cubes, input : Inputs, succ : Nat]) /\ Len(ctis') = 0
    BY <1>2
  <2>3. /\ queue' \subseteq Obligations(depth', Len(ctis'))
        /\ result' \in [verdict : {"none", "ok", "counterexample"}, handle : 0 .. Len(ctis')]
    BY <1>2, <2>2
  <2> QED
    BY <1>1, <1>2, <1>4, <2>1, <2>2, <2>3 DEF TypeOK
<1>7. TraceOK'
  <2>1. CASE UNCHANGED clauses
    BY <1>1, <1>2, <2>1, TraceKept DEF trace
  <2>2. CASE clauses' = [sv \in Solvers |-> RefreshedClauses]
    <3>1. \A sv \in Solvers, i \in Nat : Unblocked(clauses'[sv], i) = R(sv, i)
      BY <1>1, <2>2, RefreshedLevels DEF TraceOK
    <3>2. SolversInSync' /\ ClausesAvoidInit'
      <4>1. clauses'["trans"] = RefreshedClauses
        BY <2>2 DEF Solvers
      <4>2. RefreshedClauses \subseteq clauses["trans"]
        BY <1>1 DEF TraceOK, SolversAgreeWithFrames, RefreshedClauses, Solvers
      <4>3. ActivatedInit' = ActivatedInit
        BY <1>2 DEF ActivatedInit
      <4>4. \A c : IntersectsInit(c)' <=> IntersectsInit(c)
        BY <1>2 DEF IntersectsInit
      <4>5. ClausesAvoidInit'
        BY <1>1, <1>2, <4>1, <4>2, <4>3 DEF TraceOK, ClausesAvoidInit, IntersectsInit,
           RefreshedClauses
      <4> QED
        BY <2>2, <4>5 DEF SolversInSync, Solvers
    <3>3. StepsStayInTrace'
      <4>1. SUFFICES ASSUME NEW sv \in Solvers, NEW i \in 0 .. depth - 1,
                            NEW s \in Unblocked(clauses'[sv], i), NEW x \in Inputs
                     PROVE  Step(system, s, x) \in Unblocked(clauses'[sv], i + 1)
        BY <1>2 DEF StepsStayInTrace, R
      <4>2. i \in Nat /\ i + 1 \in Nat
        BY <1>1 DEF TypeOK
      <4> QED
        BY <1>1, <3>1, <4>1, <4>2 DEF TraceOK, StepsStayInTrace
    <3>4. TraceSafe'
      <4>1. SUFFICES ASSUME NEW i \in 0 .. depth - 1,
                            NEW s \in Unblocked(clauses'["error"], i), NEW x \in Inputs
                     PROVE  ~ Bad(system, s, x)
        BY <1>2 DEF TraceSafe, R
      <4>2. i \in Nat /\ "error" \in Solvers
        BY <1>1 DEF TypeOK, Solvers
      <4> QED
        BY <1>1, <3>1, <4>1, <4>2 DEF TraceOK, TraceSafe
    <3>5. SolversAgreeWithFrames'
      <4>1. ActivatedInit' = ActivatedInit /\ TraceClauses' = TraceClauses
        BY <1>2 DEF ActivatedInit, TraceClauses
      <4>2. ASSUME NEW b \in RefreshedClauses \ ActivatedInit
            PROVE  \E c \in TraceClauses : CoveredBy(b, c)
        <5>1. b \in TraceClauses
          BY <4>2 DEF RefreshedClauses
        <5>2. b.level \in Int
          BY <1>1, <5>1 DEF TraceClauses, TypeOK
        <5> QED
          BY <5>1, <5>2 DEF CoveredBy, Subsumes
      <4> QED
        BY <2>2, <4>1, <4>2 DEF SolversAgreeWithFrames, RefreshedClauses, CoveredBy, Subsumes
    <3> QED
      BY <3>2, <3>3, <3>4, <3>5 DEF TraceOK
  <2> QED
    BY <1>3, <2>1, <2>2
<1>8. ObligationsOutsideLowerLevel' /\ GeneralizationSound' /\ EntriesUnsafe'
  BY <1>2 DEF ObligationsOutsideLowerLevel, GeneralizationSound, EntriesUnsafe
<1>9. PhasesOK'
  BY <1>1, <1>2 DEF PhasesOK
<1> QED
  BY <1>6, <1>7, <1>8, <1>9, InvariantParts, PTL

LEMMA UnchangedInvariant ==
    ASSUME InductiveInvariant, UNCHANGED vars
    PROVE  InductiveInvariant'
<1>1. /\ TypeOK /\ TraceOK /\ ObligationsOutsideLowerLevel
      /\ GeneralizationSound /\ EntriesUnsafe /\ PhasesOK
  BY InvariantParts
<1>2. /\ pc' = pc
      /\ UNCHANGED <<system, trace, ctis, queue, gen, pushing, refreshCounter, result>>
  BY DEF vars, trace
<1>3. TypeOK'
  BY <1>1, <1>2 DEF TypeOK, trace
<1>4. TraceOK' /\ ObligationsOutsideLowerLevel' /\ EntriesUnsafe' /\ GeneralizationSound'
  BY <1>1, <1>2, TraceKept, ObligationsKept, EntriesKept, GeneralizationKept
<1>5. PhasesOK'
  BY <1>1, <1>2 DEF PhasesOK, IntersectsInit, trace
<1> QED
  BY <1>3, <1>4, <1>5, InvariantParts, PTL

LEMMA StepInvariant ==
    ASSUME InductiveInvariant, [Next]_vars
    PROVE  InductiveInvariant'
<1>1. TypeOK /\ PhasesOK
  BY InvariantParts
<1>2. CASE ObligationsSolved
  BY <1>2, PhaseChangeInvariant DEF ObligationsSolved
<1>3. CASE FindInvariant
  BY <1>1, <1>3, PhaseChangeInvariant DEF FindInvariant, FramePushed, PhasesOK
<1>4. CASE EndPropagate
  BY <1>1, <1>4, PhaseChangeInvariant DEF EndPropagate, PhasesOK
<1>5. CASE Terminating \/ UNCHANGED vars
  BY <1>5, UnchangedInvariant DEF Terminating
<1> QED
  BY <1>2, <1>3, <1>4, <1>5, FindErrorStateInvariant, PushFrameInvariant,
     ReachedInitInvariant, DropBlockedInvariant, AddPredecessorInvariant,
     StartBlockingInvariant, ShrinkCubeInvariant, RaiseCubeInvariant, BlockCubeInvariant,
     PropagateCubeInvariant, NextFrameInvariant, EndIterationInvariant DEF Next

-----------------------------------------------------------------------------
(***************************************************************************)
(* What the invariant gives.                                               *)
(***************************************************************************)

\* Everything the engine's conclusions rest on holds whatever it is run on:
\* no query ever leaves the trace, the solvers, the obligations or the cube
\* being generalized in a state the next query is not prepared for.
THEOREM InvariantHolds == Spec => []InductiveInvariant
<1>1. Init => InductiveInvariant
  BY InitInvariant
<1>2. InductiveInvariant /\ [Next]_vars => InductiveInvariant'
  BY StepInvariant
<1> QED
  BY <1>1, <1>2, PTL DEF Spec

\* The variables of the engine keep their types.
THEOREM TypeCorrect == Spec => []TypeOK
<1>1. InductiveInvariant => TypeOK
  BY DEF InductiveInvariant
<1> QED
  BY <1>1, InvariantHolds, PTL

\* Level 0 of the trace is the set of initial states, which no level excludes.
THEOREM InitialStatesInTrace == Spec => []InitInTrace
<1>1. InductiveInvariant => InitInTrace
  <2> SUFFICES ASSUME InductiveInvariant PROVE InitInTrace
    OBVIOUS
  <2>1. TypeOK /\ SolversInSync /\ ClausesAvoidInit
    BY DEF InductiveInvariant
  <2>2. \A i \in 0 .. depth : i \in Nat
    BY <2>1 DEF TypeOK
  <2> QED
    BY <2>1, <2>2, TraceStart, AnySolver DEF InitInTrace
<1> QED
  BY <1>1, InvariantHolds, PTL

\* The trace is an inductive sequence: a step from a level ends in the next one.
THEOREM TraceIsInductive == Spec => []StepsStayInTrace
<1>1. InductiveInvariant => StepsStayInTrace
  BY DEF InductiveInvariant
<1> QED
  BY <1>1, InvariantHolds, PTL

\* Every level below the frontier excludes the bad states.
THEOREM TraceIsSafe == Spec => []TraceSafe
<1>1. InductiveInvariant => TraceSafe
  BY DEF InductiveInvariant
<1> QED
  BY <1>1, InvariantHolds, PTL

\* The three solvers hold the clauses of the frames and nothing that the frames
\* do not imply, before and after every refresh.
THEOREM SolversAgree == Spec => []SolversAgreeWithFrames
<1>1. InductiveInvariant => SolversAgreeWithFrames
  BY DEF InductiveInvariant
<1> QED
  BY <1>1, InvariantHolds, PTL

\* The assertion of solve_obligation: an obligation above level 0 meets no
\* initial state, and none of the level below its own.
THEOREM ObligationsOutside == Spec => []ObligationsOutsideLowerLevel
<1>1. InductiveInvariant => ObligationsOutsideLowerLevel
  BY DEF InductiveInvariant
<1> QED
  BY <1>1, InvariantHolds, PTL

\* The cube being generalized may be blocked at the level it has reached.
THEOREM GeneralizationCorrect == Spec => []GeneralizationSound
<1>1. InductiveInvariant => GeneralizationSound
  BY DEF InductiveInvariant
<1> QED
  BY <1>1, InvariantHolds, PTL

\* Every blocked cube contradicts the initial cube in one of its literals.
THEOREM BlockedCubesAvoidInit == Spec => []FramesAvoidInit
<1>1. InductiveInvariant => FramesAvoidInit
  BY FramesAvoid, InvariantParts
<1> QED
  BY <1>1, InvariantHolds, PTL

-----------------------------------------------------------------------------
(***************************************************************************)
(* Levels only shrink.                                                     *)
(***************************************************************************)

LEMMA StepShrinks ==
    ASSUME InductiveInvariant, [Next]_vars, NEW sv \in Solvers, NEW i \in Nat
    PROVE  Unblocked(clauses'[sv], i) \subseteq Unblocked(clauses[sv], i)
<1>1. CASE UNCHANGED clauses
  BY <1>1
<1>2. ASSUME NEW c, NEW level, NEW from, AddBlocked(c, level, from)
      PROVE  Unblocked(clauses'[sv], i) \subseteq Unblocked(clauses[sv], i)
  <2>1. clauses[sv] \subseteq clauses'[sv]
    BY <1>2 DEF AddBlocked
  <2> QED
    BY <2>1 DEF Unblocked
<1>3. CASE EndIteration
  <2>1. TypeOK /\ SolversAgreeWithFrames
    BY DEF InductiveInvariant
  <2>2. clauses' = [v \in Solvers |-> RefreshedClauses] \/ UNCHANGED clauses
    BY <1>3 DEF EndIteration
  <2>3. Unblocked(RefreshedClauses, i) = Unblocked(clauses[sv], i)
    BY <2>1, RefreshedLevels DEF R
  <2> QED
    BY <2>2, <2>3
<1>4. CASE BlockCube
  BY <1>2, <1>4 DEF BlockCube
<1>5. CASE PropagateCube
  BY <1>1, <1>2, <1>5 DEF PropagateCube
<1> QED
  BY <1>1, <1>3, <1>4, <1>5 DEF Next, vars, trace, FindErrorState, PushFrame, ReachedInit,
     DropBlocked, AddPredecessor, StartBlocking, ShrinkCube, RaiseCube, ObligationsSolved,
     NextFrame, FindInvariant, EndPropagate, Terminating

\* No step of the engine, a refresh of its solvers included, gives a state
\* back to a level of the trace.
THEOREM LevelsShrink == Spec => LevelsOnlyShrink
<1>1. InductiveInvariant /\ [Next]_vars
      => [\A sv \in Solvers, i \in 0 .. depth : R(sv, i)' \subseteq R(sv, i)]_vars
  <2> SUFFICES ASSUME InductiveInvariant, [Next]_vars, NEW sv \in Solvers, NEW i \in 0 .. depth
               PROVE  R(sv, i)' \subseteq R(sv, i)
    OBVIOUS
  <2>1. i \in Nat
    BY DEF InductiveInvariant, TypeOK
  <2>2. Unblocked(clauses'[sv], i) \subseteq Unblocked(clauses[sv], i)
    BY <2>1, StepShrinks
  <2> QED
    BY <2>2 DEF R
<1> QED
  BY <1>1, InvariantHolds, PTL DEF Spec, LevelsOnlyShrink

-----------------------------------------------------------------------------
(***************************************************************************)
(* The engine implements the abstract one.                                 *)
(***************************************************************************)

\* An empty frame makes two levels equal, and their states prove safety.
LEMMA EmptyFrameProvesSafe ==
    ASSUME InductiveInvariant, NEW l \in 1 .. depth - 1, frames[l] = {}
    PROVE  ProvesSafe(system, R("trans", l))
<1>1. /\ TypeOK /\ SolversInSync /\ ClausesAvoidInit /\ StepsStayInTrace
      /\ TraceSafe /\ SolversAgreeWithFrames
  BY DEF InductiveInvariant
<1>2. l \in Nat /\ l + 1 \in Nat /\ l \in 0 .. depth - 1 /\ "trans" \in Solvers /\ "error" \in Solvers
  BY <1>1 DEF TypeOK, Solvers
<1>3. \A b \in clauses["trans"] : b.level \in Int
  BY <1>1, <1>2 DEF TypeOK, Clauses
<1>4. R("trans", l + 1) \subseteq R("trans", l)
  <2>1. SUFFICES ASSUME NEW s \in R("trans", l + 1), NEW b \in clauses["trans"], b.level >= l
                 PROVE  ~ Subsumes(b.cube, s)
    BY DEF R, Unblocked
  <2>2. CASE b.level >= l + 1
    BY <2>1, <2>2 DEF R, Unblocked
  <2>3. CASE b.level = l
    <3>1. b \notin ActivatedInit
      BY <2>3 DEF ActivatedInit
    <3>2. PICK c \in TraceClauses : b.level <= c.level /\ c.cube \subseteq b.cube
      BY <1>1, <1>2, <3>1 DEF SolversAgreeWithFrames, CoveredBy, Subsumes
    <3>3. c \in clauses["trans"] /\ c.level \in Int
      BY <1>1, <1>2, <1>3 DEF SolversAgreeWithFrames
    <3>4. c.level # l
      BY DEF TraceClauses
    <3>5. ~ Subsumes(c.cube, s)
      BY <2>1, <2>3, <3>2, <3>3, <3>4 DEF R, Unblocked
    <3> QED
      BY <3>2, <3>5 DEF Subsumes
  <2> QED
    BY <1>2, <1>3, <2>1, <2>2, <2>3
<1>5. InitialStates(system) \subseteq R("trans", l)
  BY <1>1, <1>2, TraceStart
<1>6. ASSUME NEW s \in R("trans", l), NEW x \in Inputs
      PROVE  Step(system, s, x) \in R("trans", l) /\ ~ Bad(system, s, x)
  <2>1. Step(system, s, x) \in R("trans", l)
    BY <1>1, <1>2, <1>4 DEF StepsStayInTrace
  <2>2. s \in R("error", l)
    BY <1>1, <1>2, AnySolver
  <2> QED
    BY <1>1, <1>2, <2>1, <2>2 DEF TraceSafe
<1> QED
  BY <1>5, <1>6 DEF ProvesSafe

\* An obligation at level 0 holds an initial state that leads to the error.
LEMMA LevelZeroUnsafe ==
    ASSUME InductiveInvariant, NEW po \in queue, po.level = 0
    PROVE  ~ Safe(system)
<1>1. TypeOK /\ ObligationsOutsideLowerLevel /\ EntriesUnsafe
  BY DEF InductiveInvariant
<1>2. PICK s \in InitialStates(system) : Subsumes(CubeOf(po), s)
  BY <1>1 DEF ObligationsOutsideLowerLevel
<1>3. po.handle \in 1 .. Len(ctis)
  BY <1>1 DEF TypeOK, Obligations
<1>4. ASSUME NEW inv \in SUBSET States, ProvesSafe(system, inv) PROVE FALSE
  BY <1>1, <1>2, <1>3, <1>4 DEF EntriesUnsafe, ProvesSafe, CubeOf
<1> QED
  BY <1>4 DEF Safe

LEMMA StepReturns ==
    ASSUME InductiveInvariant, [Next]_vars
    PROVE  [Answer!Return]_(Answer!vars)
<1>1. TypeOK /\ PhasesOK
  BY DEF InductiveInvariant
<1>2. Answer!Safe(system) <=> Safe(system)
  BY DEF Answer!Safe, Safe, Answer!ProvesSafe, ProvesSafe, Answer!InitialStates,
     InitialStates, Answer!States, States, Answer!Cubes, Cubes, Answer!Literals, Literals,
     Answer!Vars, Vars, Answer!Step, Step, Answer!Bad, Bad, Answer!Subsumes, Subsumes
<1>3. CASE UNCHANGED <<system, result>>
  BY <1>3 DEF Answer!vars, verdict
<1>4. CASE ReachedInit
  <2>1. verdict = "none" /\ verdict' = "counterexample" /\ system' = system
    BY <1>1, <1>4 DEF ReachedInit, PhasesOK, verdict
  <2>2. ~ Safe(system)
    BY <1>4, LevelZeroUnsafe DEF ReachedInit
  <2> QED
    BY <1>2, <2>1, <2>2 DEF Answer!Return
<1>5. CASE FindInvariant
  <2>1. verdict = "none" /\ verdict' = "ok" /\ system' = system
    BY <1>1, <1>5 DEF FindInvariant, FramePushed, PhasesOK, verdict
  <2>2. pushing.level \in 1 .. depth - 1 /\ frames[pushing.level] = {}
    BY <1>1, <1>5 DEF FindInvariant, FramePushed, TypeOK
  <2>3. ProvesSafe(system, R("trans", pushing.level))
    BY <2>2, EmptyFrameProvesSafe
  <2>4. R("trans", pushing.level) \in SUBSET States
    BY DEF R, Unblocked
  <2>5. Safe(system)
    BY <2>3, <2>4 DEF Safe
  <2> QED
    BY <1>2, <2>1, <2>5 DEF Answer!Return
<1> QED
  BY <1>3, <1>4, <1>5 DEF Next, vars, FindErrorState, PushFrame,
     DropBlocked, AddPredecessor, StartBlocking, ShrinkCube, RaiseCube, BlockCube,
     ObligationsSolved, PropagateCube, NextFrame, EndPropagate, EndIteration, Terminating

\* The engine implements the promise of engine::run: it says ok only of a safe
\* system and returns a counterexample only for an unsafe one.
THEOREM AnswersAreSound == Spec => AnswersSoundly
<1>1. Init => Answer!Init
  BY DEF Init, Answer!Init, verdict
<1>2. InductiveInvariant /\ [Next]_vars => [Answer!Return]_(Answer!vars)
  BY StepReturns
<1> QED
  BY <1>1, <1>2, InvariantHolds, PTL DEF Spec, AnswersSoundly, Answer!Spec

-----------------------------------------------------------------------------
(***************************************************************************)
(* The counterexample that the engine reports.                             *)
(***************************************************************************)

\* Nothing but these two actions adds to the pool, and only the end of an
\* iteration, when no obligation is left, empties it.
LEMMA PoolChanges ==
    ASSUME [Next]_vars
    PROVE  /\ system' = system
           /\ FindErrorState \/ AddPredecessor \/ EndIteration \/ ctis' = ctis
BY DEF Next, vars, trace, ReachedInit, FindErrorState, AddPredecessor, EndIteration, PushFrame,
   DropBlocked, StartBlocking, ShrinkCube, RaiseCube, BlockCube, ObligationsSolved,
   PropagateCube, NextFrame, FindInvariant, FramePushed, EndPropagate, Terminating

\* What ChainsReachError says of one entry, the one it leads to being succ.
Reaches(e, succ) ==
    \A s \in States : Subsumes(e.state, s) =>
        IF e.succ = 0 THEN Bad(system, s, e.input)
        ELSE Subsumes(succ.state, Step(system, s, e.input))

Entry(s, x, succ) == [state |-> s, input |-> x, succ |-> succ]

\* An entry that leads on joins a pool of chains.
LEMMA ChainsGrow ==
    ASSUME TypeOK, TypeOK', system' = system, EarlierSuccessors(ctis), LeadsToError(system, ctis),
           NEW s, NEW x, NEW succ \in 0 .. Len(ctis),
           ctis' = Append(ctis, Entry(s, x, succ)),
           Reaches(Entry(s, x, succ), ctis[succ])
    PROVE  EarlierSuccessors(ctis') /\ LeadsToError(system', ctis')
<1> DEFINE e == Entry(s, x, succ)
           n == Len(ctis)
<1>1. ctis \in Pools /\ n \in Nat
  BY DEF TypeOK, Pools
<1>2. /\ Len(ctis') = n + 1 /\ ctis'[n + 1] = e
      /\ \A h \in 1 .. n : ctis'[h] = ctis[h]
  BY <1>1 DEF Pools
<1>3. e.succ = succ
  BY DEF Entry
<1>4. \A h \in 1 .. n : ctis[h].succ \in 0 .. h - 1
  BY <1>1, PoolEntries
<1> HIDE DEF e, n
<1>5. \A h \in 1 .. n + 1 : h \in 1 .. n \/ h = n + 1
  BY <1>1
<1>6. EarlierSuccessors(ctis')
  BY <1>1, <1>2, <1>3, <1>4, <1>5 DEF EarlierSuccessors, n
<1>7. ASSUME NEW h \in 1 .. n + 1, NEW t \in States, Subsumes(ctis'[h].state, t)
      PROVE  IF ctis'[h].succ = 0
             THEN Bad(system, t, ctis'[h].input)
             ELSE Subsumes(ctis'[ctis'[h].succ].state, Step(system, t, ctis'[h].input))
  <2>1. CASE h \in 1 .. n
    <3>1. ctis'[h] = ctis[h]
      BY <1>2, <2>1
    <3>2. ctis[h].succ # 0 => ctis'[ctis[h].succ] = ctis[ctis[h].succ]
      BY <1>1, <1>2, <1>4, <2>1
    <3> QED
      BY <1>7, <2>1, <3>1, <3>2 DEF LeadsToError, n
  <2>2. CASE h = n + 1
    <3>1. ctis'[h] = e
      BY <1>2, <2>2
    <3>2. succ # 0 => ctis'[succ] = ctis[succ]
      BY <1>1, <1>2 DEF n
    <3> QED
      BY <1>3, <1>7, <3>1, <3>2 DEF Reaches, e
  <2> QED
    BY <1>5, <2>1, <2>2
<1> QED
  BY <1>2, <1>6, <1>7 DEF LeadsToError

\* A returned counterexample names an entry that holds an initial state.
ReportStarts ==
    result.verdict = "counterexample" =>
        /\ pc = "done"
        /\ result.handle \in 1 .. Len(ctis)
        /\ \E s \in InitialStates(system) : Subsumes(ctis[result.handle].state, s)

CounterexampleInvariant ==
    EarlierSuccessors(ctis) /\ LeadsToError(system, ctis) /\ ReportStarts

\* Every step keeps the chains, and only a chain from an initial state is returned.
LEMMA StepCounterexample ==
    ASSUME InductiveInvariant, InductiveInvariant', CounterexampleInvariant, [Next]_vars
    PROVE  CounterexampleInvariant'
<1>1. /\ TypeOK /\ TypeOK' /\ PhasesOK /\ ObligationsOutsideLowerLevel
      /\ EarlierSuccessors(ctis) /\ LeadsToError(system, ctis) /\ ReportStarts
  BY DEF InductiveInvariant, CounterexampleInvariant
<1>2. ctis \in Pools /\ Len(ctis) \in Nat /\ system \in TransitionSystems
  BY <1>1 DEF TypeOK, Pools
<1>3. system' = system
  BY PoolChanges
<1>4. CASE FindErrorState
  <2>1. PICK s \in R("error", depth), x \in Inputs :
            /\ Bad(system, s, x) /\ ctis' = Append(ctis, Entry(s, x, 0))
    BY <1>4 DEF FindErrorState, Entry
  <2>2. \A t \in States : Subsumes(s, t) => t = s
    BY StateMaximal DEF R, Unblocked
  <2>3. Reaches(Entry(s, x, 0), ctis[0])
    BY <2>1, <2>2 DEF Reaches, Entry
  <2>4. EarlierSuccessors(ctis') /\ LeadsToError(system', ctis')
    BY <1>1, <1>2, <1>3, <2>1, <2>3, ChainsGrow
  <2>5. result'.verdict # "counterexample"
    BY <1>1, <1>4 DEF FindErrorState, PhasesOK
  <2> QED
    BY <2>4, <2>5 DEF CounterexampleInvariant, ReportStarts
<1>5. CASE AddPredecessor
  <2>1. PICK po \in queue, s \in States, x \in Inputs :
            \E p \in GeneralizedPredecessors(s, x, po) :
                ctis' = Append(ctis, Entry(p, x, po.handle))
    BY <1>5 DEF AddPredecessor, Entry, R, Unblocked
  <2>0. PICK p \in GeneralizedPredecessors(s, x, po) :
            ctis' = Append(ctis, Entry(p, x, po.handle))
    BY <2>1
  <2>2. po.handle \in 1 .. Len(ctis)
    BY <1>1 DEF TypeOK, Obligations
  <2>3. Reaches(Entry(p, x, po.handle), ctis[po.handle])
    BY <2>2 DEF Reaches, Entry, GeneralizedPredecessors, CubeOf
  <2>4. po.handle \in 0 .. Len(ctis)
    BY <2>2
  <2>5. EarlierSuccessors(ctis') /\ LeadsToError(system', ctis')
    BY <1>1, <1>3, <2>0, <2>3, <2>4, ChainsGrow
  <2>6. result'.verdict # "counterexample"
    BY <1>1, <1>5 DEF AddPredecessor, PhasesOK
  <2> QED
    BY <2>5, <2>6 DEF CounterexampleInvariant, ReportStarts
<1>6. CASE EndIteration
  <2>1. ctis' = <<>> /\ result'.verdict # "counterexample"
    BY <1>1, <1>6 DEF EndIteration, PhasesOK
  <2>2. \A h \in 1 .. Len(ctis') : FALSE
    BY <2>1
  <2> QED
    BY <2>1, <2>2 DEF CounterexampleInvariant, EarlierSuccessors, LeadsToError, ReportStarts
<1>7. CASE ctis' = ctis /\ ReachedInit
  <2>1. PICK po \in queue : po.level = 0 /\ result'.handle = po.handle
    BY <1>7 DEF ReachedInit
  <2>2. po.handle \in 1 .. Len(ctis)
    BY <1>1 DEF TypeOK, Obligations
  <2>3. \E s \in InitialStates(system) : Subsumes(ctis[po.handle].state, s)
    BY <1>1, <2>1 DEF ObligationsOutsideLowerLevel, CubeOf
  <2>4. pc' = "done"
    BY <1>7 DEF ReachedInit
  <2>5. ReportStarts'
    BY <1>3, <1>7, <2>1, <2>2, <2>3, <2>4 DEF ReportStarts
  <2> QED
    BY <1>1, <1>3, <1>7, <2>5 DEF CounterexampleInvariant
<1>8. CASE ctis' = ctis /\ ~ ReachedInit
  <2>1. UNCHANGED result \/ result'.verdict = "ok"
    <3>1. FindInvariant => result'.verdict = "ok"
      BY DEF FindInvariant
    <3> QED
      BY <1>8, <3>1 DEF Next, vars, trace, FindErrorState, AddPredecessor, EndIteration,
         PushFrame, DropBlocked, StartBlocking, ShrinkCube, RaiseCube, BlockCube,
         ObligationsSolved, PropagateCube, NextFrame, EndPropagate, Terminating
  <2>2. pc = "done" => UNCHANGED pc
    BY DEF Next, vars, trace, ReachedInit, FindErrorState, AddPredecessor, EndIteration,
       PushFrame, DropBlocked, StartBlocking, ShrinkCube, RaiseCube, BlockCube,
       ObligationsSolved, PropagateCube, NextFrame, FindInvariant, FramePushed, EndPropagate,
       Terminating
  <2>3. ReportStarts'
    BY <1>1, <1>3, <1>8, <2>1, <2>2 DEF ReportStarts
  <2> QED
    BY <1>1, <1>3, <1>8, <2>3 DEF CounterexampleInvariant
<1> QED
  BY <1>4, <1>5, <1>6, <1>7, <1>8, PoolChanges

\* The chains, and what a returned handle stands for, are kept by the whole engine.
THEOREM CounterexampleHolds == Spec => []CounterexampleInvariant
<1>1. Init => CounterexampleInvariant
  <2>1. SUFFICES ASSUME Init PROVE CounterexampleInvariant
    OBVIOUS
  <2>2. ctis = <<>> /\ result = [verdict |-> "none", handle |-> 0]
    BY <2>1 DEF Init
  <2>3. Len(ctis) = 0 /\ result.verdict # "counterexample"
    BY <2>2
  <2> QED
    BY <2>2, <2>3 DEF CounterexampleInvariant, EarlierSuccessors, LeadsToError, ReportStarts
<1>2. InductiveInvariant /\ InductiveInvariant' /\ CounterexampleInvariant /\ [Next]_vars
          => CounterexampleInvariant'
  BY StepCounterexample
<1> QED
  BY <1>1, <1>2, InvariantHolds, PTL DEF Spec

\* Every handle of the CTI pool is the start of a chain to an error: ChainsReachError.
THEOREM ChainsHold == Spec => []ChainsReachError
<1>1. CounterexampleInvariant => ChainsReachError
  BY DEF CounterexampleInvariant, EarlierSuccessors, LeadsToError, ChainsReachError
<1> QED
  BY <1>1, CounterexampleHolds, PTL

\* What build_counterexample makes of the returned handle.
LEMMA ReportReplays ==
    ASSUME InductiveInvariant, CounterexampleInvariant
    PROVE  WitnessReplays
<1>1. system \in TransitionSystems /\ ctis \in Pools
  BY DEF InductiveInvariant, TypeOK, Pools
<1>2. EarlierSuccessors(ctis) /\ LeadsToError(system, ctis) /\ ReportStarts
  BY DEF CounterexampleInvariant
<1>3. SUFFICES ASSUME result.verdict = "counterexample"
               PROVE  /\ ReachesBad(system, Witness.initial, Witness.inputs)
                      /\ (\A l \in system.init : l < 0)
                             => Witness.initial \in InitialStates(system)
  BY DEF WitnessReplays
<1> DEFINE c == ctis[result.handle].state
<1>4. PICK s \in InitialStates(system) : Subsumes(c, s)
  BY <1>2, <1>3 DEF ReportStarts
<1>5. result.handle \in 1 .. Len(ctis)
  BY <1>2, <1>3 DEF ReportStarts
<1>6. c \in Cubes
  BY <1>1, <1>2, <1>5, PoolEntries
<1>7. Witness.initial = FalseIfMissing(c) /\ Witness.inputs = InputsAlong(ctis)[result.handle]
  BY DEF Witness, Completed, FalseIfMissing, InputsFrom, InputsAlong
<1> HIDE DEF c
<1>8. FalseIfMissing(c) \in States /\ Subsumes(c, FalseIfMissing(c))
  BY <1>6, CompletedCube
<1>9. ReachesBad(system, FalseIfMissing(c), InputsAlong(ctis)[result.handle])
  BY <1>1, <1>2, <1>5, <1>8, ChainReplays DEF c
<1>10. (\A l \in system.init : l < 0) => FalseIfMissing(c) \in InitialStates(system)
  BY <1>1, <1>4, <1>6, CompletedInitial
<1> QED
  BY <1>7, <1>9, <1>10

\* Every counterexample that PDR returns is a run of the system to an error:
\* WitnessReplays.
THEOREM CounterexamplesReplay == Spec => []WitnessReplays
<1>1. InductiveInvariant /\ CounterexampleInvariant => WitnessReplays
  BY ReportReplays
<1> QED
  BY <1>1, InvariantHolds, CounterexampleHolds, PTL
=============================================================================
