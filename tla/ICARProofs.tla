----------------------------- MODULE ICARProofs -----------------------------
(***************************************************************************)
(* Proofs, for every family of systems, that the invariant of module ICAR  *)
(* is inductive with and without the cotrace, that every obligation has a  *)
(* state at its level until it is blocked, that reported runs replay, and  *)
(* that verdicts are sound.                                                *)
(***************************************************************************)
EXTENDS ICAR, CARTraceProofs, WellFoundedInduction

LEMMA Parts ==
    ASSUME InductiveInvariant
    PROVE  /\ TypeOK /\ TraceTypeOK /\ TraceInvariant /\ QueueOK /\ PhasesOK
           /\ depth \in Nat /\ Len(pool) \in Nat
           /\ options.forward
<1>1. TypeOK /\ TraceTypeOK /\ TraceInvariant /\ QueueOK /\ PhasesOK
  BY DEF InductiveInvariant, TypeOK
<1>2. depth \in Nat /\ Len(pool) \in Nat
  BY <1>1 DEF TraceTypeOK
<1>3. options.forward
  BY <1>1, OptionsOfICAR DEF TypeOK
<1> QED
  BY <1>1, <1>2, <1>3

\* A set of positions that is not empty has a first one.
LEMMA FirstPosition ==
    ASSUME NEW S \in SUBSET Nat, S # {}
    PROVE  Min(S) \in S
<1>1. PICK m \in S : \A k \in S : ~ (<<k, m>> \in OpToRel(<, Nat))
  BY NatLessThanWellFounded, WFMin
<1>2. \A k \in S : m <= k
  <2> SUFFICES ASSUME NEW k \in S PROVE m <= k
    OBVIOUS
  <2>1. ~ (k < m)
    BY <1>1 DEF OpToRel
  <2> QED
    BY <2>1
<1> QED
  BY <1>2 DEF Min

\* The cube of the first true activator holds in the model's state.
LEMMA FirstActivator ==
    ASSUME TypeOK, NEW s, TrueActivators(s) # {}
    PROVE  LET h == found[Min(TrueActivators(s))]
           IN  h \in 1 .. Len(pool) /\ Subsumes(pool[h].state, s)
<1>1. found \in Seq(1 .. Len(pool))
  BY DEF TypeOK
<1>2. DOMAIN found \in SUBSET Nat /\ \A i \in DOMAIN found : found[i] \in 1 .. Len(pool)
  BY <1>1
<1>3. TrueActivators(s) \in SUBSET Nat
  BY <1>2 DEF TrueActivators
<1>4. Min(TrueActivators(s)) \in TrueActivators(s)
  BY <1>3, FirstPosition
<1> QED
  BY <1>2, <1>4 DEF TrueActivators

-----------------------------------------------------------------------------
(***************************************************************************)
(* Each action keeps the invariant.                                        *)
(***************************************************************************)

\* What a queue and the handles in the cotrace keep of their types.
LEMMA OneObligation ==
    ASSUME NEW d \in Nat, NEW n \in Nat, NEW h \in 1 .. n
    PROVE  {[level |-> d, handle |-> h]} \subseteq [level : 0 .. d, handle : 1 .. n]
  OBVIOUS

LEMMA LongerPool ==
    ASSUME NEW S, NEW T, S \subseteq T, NEW q \in Seq(S), NEW e \in T
    PROVE  q \in Seq(T) /\ Append(q, e) \in Seq(T)
<1>1. q \in Seq(T)
  OBVIOUS
<1> QED
  BY <1>1

LEMMA InitInvariant == Init => InductiveInvariant
<1> SUFFICES ASSUME Init PROVE InductiveInvariant
  OBVIOUS
<1>1. TraceTypeOK
  BY SystemsAssumption, ConfigurationsAssumption DEF Init, TraceTypeOK, NoPushing
<1>2. TypeOK
  BY <1>1 DEF Init, TypeOK
<1>3. SolversInSync /\ FramesCovered
  BY SolversAssumption DEF Init, SolversInSync, FramesCovered
<1>4. StepsStayInTrace /\ TraceSafe /\ PushedCovered /\ EntriesSound
  BY DEF Init, StepsStayInTrace, TraceSafe, PushedCovered, EntriesSound
<1>5. QueueOK /\ PhasesOK
  BY DEF Init, QueueOK, PhasesOK
<1> QED
  BY <1>1, <1>2, <1>3, <1>4, <1>5 DEF InductiveInvariant, TraceInvariant

\* The model is of a known cube, which becomes an obligation again.
LEMMA KnownCubeInvariant ==
    ASSUME InductiveInvariant, pc = "check", pc' = "solve",
           UNCHANGED <<system, options, depth, trace, pool, pushing, result, found>>,
           NEW s \in States, TrueActivators(s) # {},
           queue' = {[level |-> depth, handle |-> found[Min(TrueActivators(s))]]}
    PROVE  InductiveInvariant'
<1>1. /\ TypeOK /\ TraceTypeOK /\ TraceInvariant /\ PhasesOK
      /\ depth \in Nat /\ Len(pool) \in Nat
  BY Parts
<1> DEFINE h == found[Min(TrueActivators(s))]
<1>2. h \in 1 .. Len(pool)
  BY <1>1, FirstActivator
<1> HIDE DEF h
<1>3. queue' = {[level |-> depth, handle |-> h]} /\ UNCHANGED <<frames, clauses>>
  BY DEF h, trace
<1>4. TraceTypeOK'
  BY <1>1, <1>3 DEF TraceTypeOK
<1>5. TypeOK'
  <2>1. {[level |-> depth, handle |-> h]} \subseteq [level : 0 .. depth, handle : 1 .. Len(pool)]
    BY <1>1, <1>2, OneObligation
  <2>2. queue' \subseteq [level : 0 .. depth, handle : 1 .. Len(pool)]
    BY <1>3, <2>1, Zenon
  <2>3. depth' = depth /\ pool' = pool
    OBVIOUS
  <2>4. queue' \subseteq [level : 0 .. depth', handle : 1 .. Len(pool')]
    BY <2>2, <2>3, Zenon
  <2> QED
    BY <1>1, <1>4, <2>4 DEF TypeOK
<1>6. TraceInvariant'
  BY <1>1, <1>4, QuietInvariant
<1>7. depth # 0
  BY <1>1, <1>2 DEF PhasesOK
<1>8. QueueOK' /\ PhasesOK'
  BY <1>1, <1>3, <1>7 DEF QueueOK, PhasesOK
<1> QED
  BY <1>5, <1>6, <1>8 DEF InductiveInvariant

\* The model is of a new error state.
LEMMA NewErrorInvariant ==
    ASSUME InductiveInvariant, pc = "check", pc' = "solve",
           UNCHANGED <<system, options, depth, trace, pushing, result, found>>,
           NEW s \in States, NEW x \in Inputs,
           InLevel("basic", depth, s, x), ErrorHolds(s, x),
           pool' = Append(pool, [state |-> s, input |-> x, succ |-> 0]),
           queue' = {[level |-> depth, handle |-> Len(pool')]}
    PROVE  InductiveInvariant'
<1>1. /\ TypeOK /\ TraceTypeOK /\ TraceInvariant /\ PhasesOK
      /\ depth \in Nat /\ Len(pool) \in Nat /\ options.forward
  BY Parts
<1> DEFINE e == [state |-> s, input |-> x, succ |-> 0]
<1>2. e \in Entries /\ EntrySound(e.state)
  BY ErrorEntry DEF Entries
<1>3. /\ TraceInvariant'
      /\ Len(pool') = Len(pool) + 1
      /\ pool'[Len(pool')] = e
  BY <1>1, <1>2, EntryInvariant
<1>4. TypeOK'
  <2>1. TraceTypeOK'
    BY <1>3 DEF TraceInvariant
  <2>2. queue' \subseteq [level : 0 .. depth', handle : 1 .. Len(pool')]
    BY <1>1, <1>3
  <2>3. found' \in Seq(1 .. Len(pool'))
    <3>1. 1 .. Len(pool) \subseteq 1 .. Len(pool')
      BY <1>1, <1>3
    <3> QED
      BY <1>1, <3>1 DEF TypeOK
  <2> QED
    BY <1>1, <2>1, <2>2, <2>3 DEF TypeOK
<1>5. QueueOK'
  <2>1. ASSUME NEW po \in queue', po.level = 0 PROVE Starts(po)'
    <3>1. depth = 0 /\ CubeOf(po)' = s
      BY <1>3, <2>1 DEF CubeOf
    <3>2. s \in InitialStates(system)
      BY <1>1, <3>1 DEF InLevel, InitHolds, InitialStates
    <3> QED
      BY <3>1, <3>2 DEF Starts, Subsumes
  <2> QED
    BY <2>1 DEF QueueOK
<1>6. PhasesOK'
  BY <1>1 DEF PhasesOK
<1> QED
  BY <1>3, <1>4, <1>5, <1>6 DEF InductiveInvariant

LEMMA FindErrorStateInvariant ==
    ASSUME InductiveInvariant, FindErrorState
    PROVE  InductiveInvariant'
<1>1. /\ pc = "check" /\ pc' = "solve"
      /\ UNCHANGED <<system, options, depth, trace, pushing, result, found>>
  BY DEF FindErrorState
<1>2. PICK s \in States, x \in Inputs : ErrorModel(s, x) /\ Obligate(s, x)
  BY DEF FindErrorState
<1>3. CASE TrueActivators(s) # {}
  BY <1>1, <1>2, <1>3, KnownCubeInvariant DEF Obligate
<1>4. CASE TrueActivators(s) = {}
  BY <1>1, <1>2, <1>4, NewErrorInvariant DEF Obligate, ErrorModel
<1> QED
  BY <1>3, <1>4

LEMMA NoErrorStateInvariant ==
    ASSUME InductiveInvariant, NoErrorState
    PROVE  InductiveInvariant'
<1>1. /\ TypeOK /\ TraceInvariant /\ QueueOK /\ PhasesOK
      /\ depth \in Nat /\ Len(pool) \in Nat
  BY Parts
<1>2. /\ pc = "check" /\ pc' = "propagate" /\ depth' = depth + 1 /\ PushFrame
      /\ UNCHANGED <<options, pool, result, found, queue>>
  BY DEF NoErrorState, PushFrame
<1>3. \A s \in States, x \in Inputs : InLevel("basic", depth, s, x) => ~ ErrorHolds(s, x)
  BY DEF NoErrorState, ErrorModel
<1>4. TraceInvariant'
  BY <1>1, <1>2, <1>3, PushFrameInvariant, SolversAssumption
<1>5. queue = {}
  BY <1>1, <1>2 DEF QueueOK
<1>6. TypeOK'
  BY <1>1, <1>2, <1>4, <1>5 DEF TypeOK, TraceInvariant
<1>7. QueueOK' /\ PhasesOK'
  BY <1>1, <1>2, <1>5 DEF QueueOK, PhasesOK
<1> QED
  BY <1>4, <1>6, <1>7 DEF InductiveInvariant

LEMMA ReachedInitInvariant ==
    ASSUME InductiveInvariant, ReachedInit
    PROVE  InductiveInvariant'
<1>1. TypeOK /\ TraceTypeOK /\ TraceInvariant /\ QueueOK
  BY Parts
<1>2. PICK po \in queue : Return([verdict |-> "counterexample", handle |-> po.handle])
  BY DEF ReachedInit
<1>3. /\ pc' = "done" /\ result' = [verdict |-> "counterexample", handle |-> po.handle]
      /\ po.handle \in 0 .. Len(pool)
  BY <1>1, <1>2 DEF Return, TypeOK
<1>4. /\ UNCHANGED <<system, options, depth, trace, pool, pushing>>
      /\ UNCHANGED <<frames, clauses, found, queue>>
  BY DEF ReachedInit, trace
<1>5. TraceTypeOK'
  BY <1>1, <1>3, <1>4 DEF TraceTypeOK
<1>6. TypeOK'
  BY <1>1, <1>3, <1>4, <1>5 DEF TypeOK
<1>7. TraceInvariant'
  BY <1>1, <1>3, <1>4, <1>5, QuietInvariant
<1>8. QueueOK' /\ PhasesOK'
  BY <1>1, <1>3, <1>4 DEF QueueOK, PhasesOK, Starts, CubeOf
<1> QED
  BY <1>6, <1>7, <1>8 DEF InductiveInvariant

LEMMA DropBlockedInvariant ==
    ASSUME InductiveInvariant, DropBlocked
    PROVE  InductiveInvariant'
<1>1. TypeOK /\ TraceTypeOK /\ TraceInvariant /\ QueueOK /\ PhasesOK
  BY Parts
<1>2. PICK po \in queue : po.level > 0 /\ queue' = queue \ {po}
  BY DEF DropBlocked
<1>3. /\ pc = "solve"
      /\ UNCHANGED <<system, options, depth, trace, pool, pushing, pc, result>>
      /\ UNCHANGED <<frames, clauses, found>>
  BY DEF DropBlocked, traceVars, trace
<1>4. TraceTypeOK'
  BY <1>1, <1>3 DEF TraceTypeOK
<1>5. TypeOK'
  BY <1>1, <1>2, <1>3, <1>4 DEF TypeOK
<1>6. TraceInvariant'
  BY <1>1, <1>3, <1>4, QuietInvariant
<1>7. QueueOK'
  BY <1>1, <1>2, <1>3 DEF QueueOK, Starts, CubeOf
<1>8. depth # 0
  <2>1. po.level \in 0 .. depth
    BY <1>1 DEF TypeOK
  <2> QED
    BY <1>2, <2>1
<1>9. PhasesOK'
  BY <1>1, <1>3, <1>8 DEF PhasesOK
<1> QED
  BY <1>5, <1>6, <1>7, <1>9 DEF InductiveInvariant

LEMMA AddPredecessorInvariant ==
    ASSUME InductiveInvariant, AddPredecessor
    PROVE  InductiveInvariant'
<1>1. /\ TypeOK /\ TraceTypeOK /\ TraceInvariant /\ QueueOK /\ PhasesOK
      /\ depth \in Nat /\ Len(pool) \in Nat /\ options.forward
  BY Parts
<1>2. /\ pc = "solve" /\ pc' = "solve"
      /\ UNCHANGED <<system, options, depth, trace, pushing, result>>
  BY DEF AddPredecessor
<1>3. PICK po \in queue :
          /\ po.level > 0
          /\ \E s, t \in States, x \in Inputs :
                 /\ InLevel("trans", po.level - 1, s, x)
                 /\ TransHolds(s, x, t) /\ Subsumes(CubeOf(po), t)
                 /\ \E p \in PredecessorCubes(s, x, CubeOf(po)) :
                        pool' = Append(pool, [state |-> p, input |-> x, succ |-> po.handle])
          /\ found' = IF options.cotrace THEN Append(found, Len(pool')) ELSE found
          /\ queue' = queue \cup {[level |-> po.level - 1, handle |-> Len(pool')]}
  BY DEF AddPredecessor
<1>4. PICK s \in States, t \in States, x \in Inputs :
          /\ InLevel("trans", po.level - 1, s, x)
          /\ TransHolds(s, x, t) /\ Subsumes(CubeOf(po), t)
          /\ \E p \in PredecessorCubes(s, x, CubeOf(po)) :
                 pool' = Append(pool, [state |-> p, input |-> x, succ |-> po.handle])
  BY <1>3
<1>5. PICK p \in PredecessorCubes(s, x, CubeOf(po)) :
          pool' = Append(pool, [state |-> p, input |-> x, succ |-> po.handle])
  BY <1>4
<1> DEFINE e   == [state |-> p, input |-> x, succ |-> po.handle]
           new == [level |-> po.level - 1, handle |-> Len(pool')]
<1>6. po.level \in 1 .. depth /\ po.handle \in 1 .. Len(pool)
  BY <1>1, <1>3 DEF TypeOK
<1>7. p \in Cubes /\ Subsumes(p, s) /\ EntrySound(p)
  <2>1. EntrySound(CubeOf(po))
    BY <1>1, <1>6, KnownEntry DEF CubeOf
  <2>2. system \in TransitionSystems
    BY <1>1 DEF TraceTypeOK
  <2> QED
    BY <1>4, <2>1, <2>2, PredecessorEntry
<1>8. e \in Entries
  BY <1>6, <1>7 DEF Entries
<1>9. /\ TraceInvariant'
      /\ Len(pool') = Len(pool) + 1
      /\ pool'[Len(pool')] = e
      /\ \A h \in 1 .. Len(pool) : pool'[h] = pool[h]
  BY <1>1, <1>2, <1>5, <1>7, <1>8, EntryInvariant
<1>10. TypeOK'
  <2>1. TraceTypeOK'
    BY <1>9 DEF TraceInvariant
  <2>2. 1 .. Len(pool) \subseteq 1 .. Len(pool') /\ Len(pool') \in 1 .. Len(pool')
    BY <1>1, <1>9
  <2>3. queue' \subseteq [level : 0 .. depth', handle : 1 .. Len(pool')]
    <3>1. new \in [level : 0 .. depth, handle : 1 .. Len(pool')]
      BY <1>1, <1>6, <1>9
    <3>2. queue \subseteq [level : 0 .. depth, handle : 1 .. Len(pool')]
      BY <1>1, <2>2 DEF TypeOK
    <3> QED
      BY <1>2, <1>3, <3>1, <3>2
  <2>4. found' \in Seq(1 .. Len(pool'))
    <3>1. found \in Seq(1 .. Len(pool))
      BY <1>1 DEF TypeOK
    <3>2. /\ found \in Seq(1 .. Len(pool'))
          /\ Append(found, Len(pool')) \in Seq(1 .. Len(pool'))
      BY <2>2, <3>1, LongerPool
    <3> QED
      BY <1>3, <3>2
  <2> QED
    BY <1>1, <1>2, <2>1, <2>3, <2>4 DEF TypeOK
<1>11. QueueOK'
  <2>1. ASSUME NEW q \in queue', q.level = 0 PROVE Starts(q)'
    <3>1. CASE q \in queue
      <4>1. q.handle \in 1 .. Len(pool) /\ Starts(q)
        BY <1>1, <2>1, <3>1 DEF TypeOK, QueueOK
      <4>2. pool'[q.handle] = pool[q.handle]
        BY <1>9, <4>1
      <4> QED
        BY <1>2, <4>1, <4>2 DEF Starts, CubeOf
    <3>2. CASE q = new
      <4>1. po.level - 1 = 0 /\ CubeOf(q)' = p
        BY <1>9, <2>1, <3>2 DEF CubeOf
      <4>2. s \in InitialStates(system)
        BY <1>1, <1>4, <4>1 DEF InLevel, InitHolds, InitialStates
      <4> QED
        BY <1>2, <1>7, <4>1, <4>2 DEF Starts
    <3> QED
      BY <1>3, <2>1, <3>1, <3>2
  <2> QED
    BY <1>2, <2>1 DEF QueueOK
<1>12. PhasesOK'
  BY <1>1, <1>2, <1>6 DEF PhasesOK
<1> QED
  BY <1>9, <1>10, <1>11, <1>12 DEF InductiveInvariant

LEMMA BlockCubeInvariant ==
    ASSUME InductiveInvariant, BlockCube
    PROVE  InductiveInvariant'
<1>1. /\ TypeOK /\ TraceTypeOK /\ TraceInvariant /\ QueueOK /\ PhasesOK
      /\ depth \in Nat
  BY Parts
<1>2. /\ pc = "solve" /\ pc' = "solve"
      /\ UNCHANGED <<system, options, depth, pool, pushing, result, found>>
  BY DEF BlockCube
<1>3. PICK po \in queue :
          /\ po.level > 0
          /\ \E part \in BlockedCores(CubeOf(po), po.level, options.mucBlocked) :
                 AddBlocked(part, po.level)
          /\ queue' = queue \ {po}
  BY DEF BlockCube
<1>4. PICK part \in SUBSET CubeOf(po) : ~ HasPredecessor(part, po.level) /\ AddBlocked(part, po.level)
  BY <1>3 DEF BlockedCores
<1>5. po.level \in 1 .. depth /\ po.handle \in 1 .. Len(pool)
  BY <1>1, <1>3 DEF TypeOK
<1>6. part \in Cubes
  BY <1>1, <1>5, KnownEntry, SubCube DEF CubeOf
<1>7. TraceInvariant'
  BY <1>1, <1>2, <1>4, <1>5, <1>6, BlockInvariant
<1>8. TypeOK'
  BY <1>1, <1>2, <1>3, <1>7 DEF TypeOK, TraceInvariant
<1>9. QueueOK'
  BY <1>1, <1>2, <1>3 DEF QueueOK, Starts, CubeOf
<1>10. PhasesOK'
  BY <1>1, <1>2, <1>5 DEF PhasesOK
<1> QED
  BY <1>7, <1>8, <1>9, <1>10 DEF InductiveInvariant

LEMMA PropagateTraceInvariant ==
    ASSUME InductiveInvariant, PropagateTrace
    PROVE  InductiveInvariant'
<1>1. /\ TypeOK /\ TraceTypeOK /\ TraceInvariant /\ QueueOK /\ PhasesOK
      /\ depth \in Nat
  BY Parts
<1>2. Propagate /\ UNCHANGED <<found, queue>>
  BY DEF PropagateTrace
<1>3. TraceInvariant'
  BY <1>1, <1>2, PropagateInvariant
<1>4. /\ pc \in {"propagate", "inductive"}
      /\ UNCHANGED <<system, options, depth, pool>>
      /\ \/ UNCHANGED result /\ pc' \in {"propagate", "inductive"}
         \/ result'.verdict = "ok" /\ pc' = "done"
  BY <1>2 DEF Propagate, PropagateCube, FramePushed, NextFrame, EndPropagate, FindInvariant,
     FrameDone, Propagating, Return
<1>5. queue = {} /\ depth # 0 /\ result = [verdict |-> "none", handle |-> 0]
  BY <1>1, <1>4 DEF QueueOK, PhasesOK
<1>6. TypeOK'
  BY <1>1, <1>2, <1>3, <1>4, <1>5 DEF TypeOK, TraceInvariant
<1>7. QueueOK' /\ PhasesOK'
  BY <1>1, <1>2, <1>4, <1>5 DEF QueueOK, PhasesOK
<1> QED
  BY <1>3, <1>6, <1>7 DEF InductiveInvariant

\* ObligationsSolved and NextIteration: only the phase changes.
LEMMA PhaseChangeInvariant ==
    ASSUME InductiveInvariant, ObligationsSolved \/ NextIteration
    PROVE  InductiveInvariant'
<1>1. /\ TypeOK /\ TraceTypeOK /\ TraceInvariant /\ QueueOK /\ PhasesOK
      /\ depth \in Nat
  BY Parts
<1>2. /\ pc \in {"solve", "inductive"} /\ pc' = "check" /\ queue = {}
      /\ UNCHANGED <<system, options, depth, trace, pool, pushing, result>>
      /\ UNCHANGED <<frames, clauses, found, queue>>
  BY <1>1 DEF ObligationsSolved, NextIteration, QueueOK, trace
<1>3. TraceTypeOK'
  BY <1>1, <1>2 DEF TraceTypeOK
<1>4. TypeOK' /\ QueueOK' /\ PhasesOK'
  BY <1>1, <1>2, <1>3 DEF TypeOK, QueueOK, PhasesOK
<1>5. TraceInvariant'
  BY <1>1, <1>2, <1>3, QuietInvariant
<1> QED
  BY <1>4, <1>5 DEF InductiveInvariant

LEMMA UnchangedInvariant ==
    ASSUME InductiveInvariant, UNCHANGED vars
    PROVE  InductiveInvariant'
<1>1. TypeOK /\ TraceTypeOK /\ TraceInvariant /\ QueueOK /\ PhasesOK
  BY Parts
<1>2. /\ UNCHANGED <<system, options, depth, trace, pool, pushing, pc, result>>
      /\ UNCHANGED <<frames, clauses, found, queue>>
  BY DEF vars, traceVars, trace
<1>3. TraceTypeOK' /\ TypeOK' /\ QueueOK' /\ PhasesOK' /\ PushedCovered'
  BY <1>1, <1>2 DEF TraceTypeOK, TypeOK, QueueOK, PhasesOK, Starts, CubeOf,
     TraceInvariant, PushedCovered
<1>4. TraceOK' /\ EntriesSound'
  BY <1>1, <1>2, InvariantParts, TraceKept, EntriesKept
<1> QED
  BY <1>3, <1>4 DEF InductiveInvariant, TraceInvariant, TraceOK

LEMMA StepInvariant ==
    ASSUME InductiveInvariant, [Next]_vars
    PROVE  InductiveInvariant'
BY FindErrorStateInvariant, NoErrorStateInvariant, ReachedInitInvariant, DropBlockedInvariant,
   AddPredecessorInvariant, BlockCubeInvariant, PropagateTraceInvariant, PhaseChangeInvariant,
   UnchangedInvariant
   DEF Next, EndObligation, Terminating

-----------------------------------------------------------------------------
(***************************************************************************)
(* What follows from the invariant.                                        *)
(***************************************************************************)

\* The inductive invariant of ICAR.
THEOREM InvariantHolds == Spec => []InductiveInvariant
<1>1. InductiveInvariant /\ [Next]_vars => InductiveInvariant'
  BY StepInvariant
<1> QED
  BY <1>1, InitInvariant, PTL DEF Spec

\* The variables of ICAR keep their types; the activators name cubes of the pool.
THEOREM TypeCorrect == Spec => []TypeOK
<1>1. InductiveInvariant => TypeOK
  BY DEF InductiveInvariant
<1> QED
  BY <1>1, InvariantHolds, PTL

\* In both solvers a step from a level ends in the next one.
THEOREM TraceIsInductive == Spec => []StepsStayInTrace
<1>1. InductiveInvariant => StepsStayInTrace
  BY DEF InductiveInvariant, TraceInvariant
<1> QED
  BY <1>1, InvariantHolds, PTL

\* The frames and both solvers describe the same states at every level.
THEOREM SolversAgree == Spec => []SolversAgreeWithFrames
<1>1. InductiveInvariant => SolversAgreeWithFrames
  BY FramesAgree DEF InductiveInvariant, TraceInvariant
<1> QED
  BY <1>1, InvariantHolds, PTL

\* What blocking a cube at one level leaves of the other levels.
LEMMA OtherLevels ==
    ASSUME NEW c, NEW n, NEW i, i # n, AddBlocked(c, n),
           clauses \in [Solvers -> SUBSET Clauses(depth)]
    PROVE  R("basic", i)' = R("basic", i)
<1>1. "basic" \in Solvers
  BY SolversOfICAR
<1>2. clauses'["basic"] = clauses["basic"] \cup {[level |-> n, cube |-> c]}
  BY <1>1 DEF AddBlocked
<1> QED
  BY <1>2 DEF R

\* The index of the first true activator is that of a cube with a state at the
\* frontier, so the obligation made of it is not void.
LEMMA NewObligationOpen ==
    ASSUME InductiveInvariant, FindErrorState, NEW po \in queue'
    PROVE  po.level = depth /\ \E s \in R("basic", depth) : Subsumes(CubeOf(po)', s)
<1>1. TypeOK /\ pool \in Seq(Entries)
  BY Parts DEF TraceTypeOK
<1>2. PICK s \in States, x \in Inputs : ErrorModel(s, x) /\ Obligate(s, x)
  BY DEF FindErrorState
<1>3. s \in R("basic", depth)
  BY <1>2 DEF ErrorModel, InLevel
<1>4. CASE TrueActivators(s) # {}
  <2>1. /\ po.level = depth /\ po.handle = found[Min(TrueActivators(s))]
        /\ pool' = pool
    BY <1>2, <1>4 DEF Obligate
  <2>2. Subsumes(CubeOf(po)', s)
    BY <1>1, <1>4, <2>1, FirstActivator DEF CubeOf
  <2> QED
    BY <1>3, <2>1, <2>2
<1>5. CASE TrueActivators(s) = {}
  <2>1. /\ po.level = depth /\ po.handle = Len(pool')
        /\ pool' = Append(pool, [state |-> s, input |-> x, succ |-> 0])
    BY <1>2, <1>5 DEF Obligate
  <2>2. pool'[Len(pool')] = [state |-> s, input |-> x, succ |-> 0]
    BY <1>1, <2>1
  <2>3. CubeOf(po)' = s
    BY <2>1, <2>2 DEF CubeOf
  <2> QED
    BY <1>3, <2>1, <2>3 DEF Subsumes
<1> QED
  BY <1>4, <1>5

LEMMA OpenUnderPredecessor ==
    ASSUME InductiveInvariant, ObligationsOpen, AddPredecessor
    PROVE  ObligationsOpen'
<1>1. TypeOK /\ TraceTypeOK /\ TraceInvariant /\ depth \in Nat /\ Len(pool) \in Nat
  BY Parts
<1>2. PICK po \in queue :
          /\ IsTop(po) /\ po.level > 0
          /\ \E s, t \in States, x \in Inputs :
                 /\ InLevel("trans", po.level - 1, s, x)
                 /\ TransHolds(s, x, t) /\ Subsumes(CubeOf(po), t)
                 /\ \E p \in PredecessorCubes(s, x, CubeOf(po)) :
                        pool' = Append(pool, [state |-> p, input |-> x, succ |-> po.handle])
          /\ queue' = queue \cup {[level |-> po.level - 1, handle |-> Len(pool')]}
          /\ UNCHANGED <<system, options, depth, trace>>
  BY DEF AddPredecessor
<1>3. PICK s \in States, x \in Inputs :
          /\ InLevel("trans", po.level - 1, s, x)
          /\ \E p \in PredecessorCubes(s, x, CubeOf(po)) :
                 pool' = Append(pool, [state |-> p, input |-> x, succ |-> po.handle])
  BY <1>2
<1>4. PICK p \in PredecessorCubes(s, x, CubeOf(po)) :
          pool' = Append(pool, [state |-> p, input |-> x, succ |-> po.handle])
  BY <1>3
<1> DEFINE new == [level |-> po.level - 1, handle |-> Len(pool')]
<1>5. Subsumes(p, s)
  BY <1>4 DEF PredecessorCubes, Subsumes
<1>6. /\ Len(pool') = Len(pool) + 1 /\ pool'[Len(pool')].state = p
      /\ \A h \in 1 .. Len(pool) : pool'[h] = pool[h]
  BY <1>1, <1>4 DEF TraceTypeOK
<1>7. s \in R("basic", po.level - 1)
  <2>1. clauses["basic"] = clauses["trans"]
    BY <1>1, SolversOfICAR DEF TraceInvariant, SolversInSync
  <2> QED
    BY <1>3, <2>1 DEF InLevel, R
<1>8. \A i : R("basic", i)' = R("basic", i)
  BY <1>2 DEF R, trace
<1>9. \A q \in queue : q.level \in Nat /\ q.level >= po.level
  <2>1. \A q \in queue : q.level \in Nat
    BY <1>1 DEF TypeOK
  <2> QED
    BY <1>2, <2>1 DEF IsTop
<1>10. \A q \in queue : CubeOf(q)' = CubeOf(q)
  BY <1>1, <1>6 DEF TypeOK, CubeOf
<1>11. ASSUME NEW q, q.handle = Len(pool') PROVE CubeOf(q)' = p
  BY <1>6, <1>11 DEF CubeOf
<1>12. ASSUME NEW q \in queue', q.level > 0
       PROVE  \E r \in R("basic", q.level)' : Subsumes(CubeOf(q)', r)
  <2>1. CASE q \in queue
    BY <1>8, <1>10, <1>12, <2>1 DEF ObligationsOpen
  <2>2. CASE q = new
    BY <1>5, <1>7, <1>8, <1>11, <2>2
  <2> QED
    BY <1>2, <2>1, <2>2
<1>13. ASSUME NEW q \in queue', NEW r \in queue', q.level = r.level PROVE q = r
  <2>1. \A o \in queue : o.level # new.level
    BY <1>9
  <2> QED
    BY <1>2, <1>13, <2>1 DEF ObligationsOpen
<1> QED
  BY <1>12, <1>13 DEF ObligationsOpen

LEMMA OpenUnderBlocking ==
    ASSUME InductiveInvariant, ObligationsOpen, BlockCube
    PROVE  ObligationsOpen'
<1>1. TypeOK /\ TraceTypeOK
  BY Parts
<1>2. PICK po \in queue :
          /\ \E part \in BlockedCores(CubeOf(po), po.level, options.mucBlocked) :
                 AddBlocked(part, po.level)
          /\ queue' = queue \ {po}
          /\ UNCHANGED pool
  BY DEF BlockCube
<1>3. PICK part : AddBlocked(part, po.level)
  BY <1>2
<1>4. SUFFICES ASSUME NEW q \in queue', q.level > 0
               PROVE  \E s \in R("basic", q.level)' : Subsumes(CubeOf(q)', s)
  BY <1>2 DEF ObligationsOpen
<1>5. q \in queue /\ q.level # po.level
  BY <1>2 DEF ObligationsOpen
<1>6. R("basic", q.level)' = R("basic", q.level)
  BY <1>1, <1>3, <1>5, OtherLevels DEF TraceTypeOK
<1>7. CubeOf(q)' = CubeOf(q)
  BY <1>2 DEF CubeOf
<1> QED
  BY <1>4, <1>5, <1>6, <1>7 DEF ObligationsOpen

\* An obligation is never void: it has a state at its level until it is blocked.
THEOREM ObligationsStayOpen == Spec => []ObligationsOpen
<1>1. Init => ObligationsOpen
  BY DEF Init, ObligationsOpen
<1>2. InductiveInvariant /\ ObligationsOpen /\ [Next]_vars => ObligationsOpen'
  <2> SUFFICES ASSUME InductiveInvariant, ObligationsOpen, [Next]_vars
               PROVE  ObligationsOpen'
    OBVIOUS
  <2>1. CASE FindErrorState
    <3>1. \A po \in queue' : po.level = depth
      BY <2>1, NewObligationOpen
    <3>2. \A po, q \in queue' : po = q
      <4>1. PICK s \in States, x \in Inputs : Obligate(s, x)
        BY <2>1 DEF FindErrorState
      <4> QED
        BY <4>1 DEF Obligate
    <3>3. R("basic", depth)' = R("basic", depth)
      BY <2>1 DEF FindErrorState, R, trace
    <3>4. ASSUME NEW po \in queue'
          PROVE  \E s \in R("basic", po.level)' : Subsumes(CubeOf(po)', s)
      <4>1. \E s \in R("basic", depth) : Subsumes(CubeOf(po)', s)
        BY <2>1, NewObligationOpen
      <4>2. po.level = depth
        BY <3>1
      <4>3. R("basic", po.level)' = R("basic", depth)
        BY <3>3, <4>2, <2>1 DEF FindErrorState, R, trace
      <4> QED
        BY <4>1, <4>3
    <3> QED
      BY <3>2, <3>4 DEF ObligationsOpen
  <2>2. CASE AddPredecessor
    BY <2>2, OpenUnderPredecessor
  <2>3. CASE BlockCube
    BY <2>3, OpenUnderBlocking
  <2>4. CASE ReachedInit \/ DropBlocked \/ UNCHANGED vars
    <3>1. queue' \subseteq queue /\ UNCHANGED <<pool, clauses>>
      BY <2>4 DEF ReachedInit, DropBlocked, vars, traceVars, trace
    <3> QED
      BY <3>1 DEF ObligationsOpen, R, CubeOf
  <2>5. CASE NoErrorState \/ ObligationsSolved \/ PropagateTrace \/ NextIteration
    <3>1. queue = {}
      BY <2>5, Parts DEF QueueOK, NoErrorState, ObligationsSolved, PropagateTrace, Propagate,
         PropagateCube, FramePushed, FrameDone, NextFrame, EndPropagate, FindInvariant,
         Propagating, NextIteration
    <3>2. UNCHANGED queue
      BY <2>5 DEF NoErrorState, ObligationsSolved, PropagateTrace, NextIteration
    <3> QED
      BY <3>1, <3>2 DEF ObligationsOpen
  <2> QED
    BY <2>1, <2>2, <2>3, <2>4, <2>5 DEF Next, EndObligation, Terminating
<1> QED
  BY <1>1, <1>2, InvariantHolds, PTL DEF Spec

\* The early return of solve_obligation for blocked obligations is never taken.
THEOREM NothingDropped == Spec => [][~ DropBlocked]_vars
<1>1. InductiveInvariant /\ ObligationsOpen => ~ DropBlocked
  <2> SUFFICES ASSUME InductiveInvariant, ObligationsOpen, DropBlocked PROVE FALSE
    OBVIOUS
  <2>1. PICK po \in queue : po.level > 0 /\ IsAlreadyBlocked(CubeOf(po), po.level)
    BY DEF DropBlocked
  <2>2. PICK s \in R("basic", po.level) : Subsumes(CubeOf(po), s)
    BY <2>1 DEF ObligationsOpen
  <2>3. po.level \in 1 .. depth
    BY <2>1, Parts DEF TypeOK
  <2>4. s \in FrameStates(po.level)
    BY <2>2, <2>3, Parts, FramesAgree, SolversOfICAR
       DEF TraceInvariant, SolversAgreeWithFrames
  <2>5. PICK b \in frames[po.level] : Subsumes(b, CubeOf(po))
    BY <2>1, <2>2 DEF IsAlreadyBlocked
  <2>6. Subsumes(b, s)
    BY <2>2, <2>5 DEF Subsumes
  <2> QED
    BY <2>4, <2>5, <2>6 DEF FrameStates
<1> QED
  BY <1>1, InvariantHolds, ObligationsStayOpen, PTL

-----------------------------------------------------------------------------
(***************************************************************************)
(* The pool.                                                               *)
(***************************************************************************)

\* The pool gets entries of error states and of predecessors, and no other; a cube
\* that was found before is used again and not entered twice.
LEMMA StepGrowsPool ==
    ASSUME InductiveInvariant, [Next]_vars
    PROVE  PoolSteps
<1>1. TypeOK /\ TraceTypeOK /\ TraceInvariant
  BY Parts
<1>2. CASE UNCHANGED <<system, options, pool>>
  BY <1>2 DEF PoolSteps
<1>3. CASE FindErrorState /\ pool' # pool
  <2>1. PICK s \in States, x \in Inputs :
            ErrorHolds(s, x) /\ pool' = Append(pool, [state |-> s, input |-> x, succ |-> 0])
    BY <1>3 DEF FindErrorState, ErrorModel, Obligate
  <2>2. NewEntry([state |-> s, input |-> x, succ |-> 0])
    BY <1>1, <2>1, NewErrorEntry
  <2> QED
    BY <1>3, <2>1, <2>2 DEF FindErrorState, PoolSteps
<1>4. CASE AddPredecessor
  <2>1. PICK po \in queue, s \in States, t \in States, x \in Inputs :
            /\ TransHolds(s, x, t) /\ Subsumes(CubeOf(po), t)
            /\ \E p \in PredecessorCubes(s, x, CubeOf(po)) :
                   pool' = Append(pool, [state |-> p, input |-> x, succ |-> po.handle])
    BY <1>4 DEF AddPredecessor
  <2>2. PICK p \in PredecessorCubes(s, x, CubeOf(po)) :
            pool' = Append(pool, [state |-> p, input |-> x, succ |-> po.handle])
    BY <2>1
  <2>3. po.handle \in 1 .. Len(pool)
    BY <1>1 DEF TypeOK
  <2>4. NewEntry([state |-> p, input |-> x, succ |-> po.handle])
    BY <1>1, <2>1, <2>3, NewPredecessorEntry DEF CubeOf
  <2> QED
    BY <1>4, <2>2, <2>4 DEF AddPredecessor, PoolSteps
<1> QED
  BY <1>2, <1>3, <1>4 DEF Next, EndObligation, vars, traceVars, FindErrorState, NoErrorState,
     PushFrame, ReachedInit, DropBlocked, BlockCube, ObligationsSolved, PropagateTrace, Propagate,
     PropagateCube, FramePushed, NextFrame, EndPropagate, FindInvariant, NextIteration, Terminating

\* A counterexample is returned for an obligation of level 0 only.
LEMMA StepReports ==
    ASSUME InductiveInvariant, ReportStarts, [Next]_vars
    PROVE  ReportStarts'
<1>1. TypeOK /\ TraceTypeOK /\ QueueOK /\ PhasesOK /\ options.forward
  BY Parts
<1>2. CASE UNCHANGED <<system, options, pool, result>>
  BY <1>2 DEF ReportStarts
<1>3. CASE ReachedInit
  <2>1. PICK po \in queue :
            po.level = 0 /\ Return([verdict |-> "counterexample", handle |-> po.handle])
    BY <1>3 DEF ReachedInit
  <2>2. po.handle \in 1 .. Len(pool) /\ Starts(po)
    BY <1>1, <2>1 DEF TypeOK, QueueOK
  <2>3. result'.handle = po.handle /\ UNCHANGED <<system, options, pool>>
    BY <1>3, <2>1 DEF ReachedInit, Return
  <2> QED
    BY <1>1, <2>2, <2>3 DEF ReportStarts, Starts, CubeOf
<1>4. CASE FindErrorState \/ AddPredecessor
  BY <1>1, <1>4 DEF FindErrorState, AddPredecessor, PhasesOK, ReportStarts
<1>5. CASE FramePushed \/ FindInvariant
  BY <1>5 DEF FramePushed, FindInvariant, Return, ReportStarts
<1> QED
  BY <1>2, <1>3, <1>4, <1>5 DEF Next, EndObligation, vars, traceVars, NoErrorState,
     PushFrame, DropBlocked, BlockCube, ObligationsSolved, PropagateTrace, Propagate,
     PropagateCube, NextFrame, EndPropagate, NextIteration, Terminating

\* The chains, and what a returned handle stands for, are kept by the whole engine.
THEOREM CounterexampleHolds == Spec => []CounterexampleInvariant
<1>1. Init => CounterexampleInvariant
  <2>1. Init => pool = <<>> /\ result.verdict # "counterexample"
    BY DEF Init
  <2>2. pool = <<>> => \A h \in 1 .. Len(pool) : FALSE
    OBVIOUS
  <2> QED
    BY <2>1, <2>2 DEF CounterexampleInvariant, ChainsReachError, BackwardStates, ReportStarts
<1>2. InductiveInvariant /\ CounterexampleInvariant /\ [Next]_vars => CounterexampleInvariant'
  <2>1. SUFFICES ASSUME InductiveInvariant, CounterexampleInvariant, [Next]_vars
                 PROVE  CounterexampleInvariant'
    OBVIOUS
  <2>2. PoolSteps /\ ReportStarts' /\ TraceTypeOK
    BY <2>1, StepGrowsPool, StepReports, Parts DEF CounterexampleInvariant
  <2> QED
    BY <2>1, <2>2, PoolKeepsChains DEF CounterexampleInvariant
<1> QED
  BY <1>1, <1>2, InvariantHolds, PTL DEF Spec

\* From every cube of the pool a chain of steps leads to the error.
THEOREM ChainsHold == Spec => []ChainsReachError
<1>1. CounterexampleInvariant => ChainsReachError
  BY DEF CounterexampleInvariant
<1> QED
  BY <1>1, CounterexampleHolds, PTL

\* Every counterexample that ICAR returns is a run of the system to an error, also
\* where its chain begins in one iteration and goes on in another: WitnessReplays.
THEOREM CounterexamplesReplay == Spec => []WitnessReplays
<1>1. InductiveInvariant /\ CounterexampleInvariant => WitnessReplays
  BY Parts, ForwardReplays DEF WitnessReplays, Witness
<1> QED
  BY <1>1, InvariantHolds, CounterexampleHolds, PTL

-----------------------------------------------------------------------------
(***************************************************************************)
(* The engine implements the abstract one.                                 *)
(***************************************************************************)

\* An obligation at level 0 holds an initial state that leads to the error.
LEMMA LevelZeroUnsafe ==
    ASSUME InductiveInvariant, NEW po \in queue, po.level = 0
    PROVE  ~ Safe(system)
<1>1. /\ Starts(po) /\ po.handle \in 1 .. Len(pool) /\ TraceInvariant /\ options.forward
  BY Parts DEF TypeOK, QueueOK
<1>2. EntrySound(CubeOf(po))
  BY <1>1, KnownEntry DEF CubeOf
<1>3. SUFFICES ASSUME NEW inv \in SUBSET States, ProvesSafe(system, inv) PROVE FALSE
  BY DEF Safe
<1> QED
  BY <1>1, <1>2, <1>3 DEF Starts, EntrySound, ProvesSafe, InitialStates

LEMMA StepReturns ==
    ASSUME InductiveInvariant, [Next]_vars
    PROVE  [Answer!Return]_(Answer!vars)
<1>1. TraceInvariant /\ PhasesOK /\ options.forward
  BY Parts
<1>2. Answer!Safe(system) <=> Safe(system)
  BY DEF Answer!Safe, Safe, Answer!ProvesSafe, ProvesSafe, Answer!InitialStates,
     InitialStates, Answer!States, States, Answer!Cubes, Cubes, Answer!Literals, Literals,
     Answer!Vars, Vars, Answer!Step, Step, Answer!Bad, Bad, Answer!Subsumes, Subsumes
<1>3. CASE UNCHANGED <<system, result>>
  BY <1>3 DEF Answer!vars
<1>4. CASE ReachedInit
  <2>1. /\ result.verdict = "none" /\ result'.verdict = "counterexample"
        /\ system' = system
    BY <1>1, <1>4 DEF ReachedInit, Return, PhasesOK
  <2>2. ~ Safe(system)
    BY <1>4, LevelZeroUnsafe DEF ReachedInit
  <2> QED
    BY <1>2, <2>1, <2>2 DEF Answer!Return
<1>5. CASE PropagateTrace /\ (FramePushed \/ FindInvariant)
  <2>1. pc # "done" /\ result'.verdict = "ok" /\ system' = system
    BY <1>5 DEF FramePushed, FrameDone, Propagating, FindInvariant, Return
  <2>2. result.verdict = "none"
    BY <1>1, <2>1 DEF PhasesOK
  <2>3. Safe(system)
    BY <1>1, <1>5, InvariantFound
  <2> QED
    BY <1>2, <2>1, <2>2, <2>3 DEF Answer!Return
<1> QED
  BY <1>3, <1>4, <1>5 DEF Next, EndObligation, vars, traceVars, FindErrorState,
     NoErrorState, PushFrame, DropBlocked, AddPredecessor, BlockCube, ObligationsSolved,
     PropagateTrace, Propagate, PropagateCube, NextFrame, EndPropagate, NextIteration, Terminating

\* The engine implements the promise of engine::run, with and without a cotrace.
THEOREM AnswersAreSound == Spec => AnswersSoundly
<1>1. Init => Answer!Init
  BY DEF Init, Answer!Init
<1>2. InductiveInvariant /\ [Next]_vars => [Answer!Return]_(Answer!vars)
  BY StepReturns
<1> QED
  BY <1>1, <1>2, InvariantHolds, PTL DEF Spec, AnswersSoundly, Answer!Spec
=============================================================================
