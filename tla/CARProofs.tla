----------------------------- MODULE CARProofs -----------------------------
(***************************************************************************)
(* Proofs, for every family of systems and every set of configurations,    *)
(* that the invariant of module CAR is inductive, that a coframe does not  *)
(* change while it is read, and that the engine's verdicts are sound as    *)
(* far as TrustedVerdict says.                                             *)
(***************************************************************************)
EXTENDS CAR, CARTraceProofs

LEMMA Parts ==
    ASSUME InductiveInvariant
    PROVE  /\ TypeOK /\ TraceTypeOK /\ TraceInvariant /\ QueueOK /\ PhasesOK
           /\ depth \in Nat /\ Len(pool) \in Nat /\ codepth \in Nat
           /\ scan.level \in -1 .. codepth
BY DEF InductiveInvariant, TypeOK, TraceTypeOK

\* What add_reaching_at does to the cotrace for a cube new to the pool.
LEMMA CotraceGrows ==
    ASSUME TypeOK, Len(pool) \in Nat, Len(pool') = Len(pool) + 1,
           NEW level \in Nat, AddReaching(Len(pool'), level)
    PROVE  /\ codepth' \in Nat /\ codepth <= codepth'
           /\ cotrace' \in [0 .. codepth' -> SUBSET (1 .. Len(pool'))]
           /\ \A j \in 0 .. codepth : j # level => cotrace'[j] = cotrace[j]
<1>1. /\ codepth \in Nat
      /\ cotrace \in [0 .. codepth -> SUBSET (1 .. Len(pool))]
      /\ 1 .. Len(pool) \subseteq 1 .. Len(pool')
      /\ Len(pool') \in 1 .. Len(pool')
  BY DEF TypeOK
<1>2. CASE ~ options.cotrace
  BY <1>1, <1>2 DEF AddReaching
<1>3. CASE options.cotrace
  <2> DEFINE kept(j) == IF j <= codepth THEN cotrace[j] ELSE {}
             grown(j) == IF j = level
                         THEN {g \in kept(j) : ~ Subsumes(pool'[Len(pool')].state, pool[g].state)}
                                \cup {Len(pool')}
                         ELSE kept(j)
  <2>1. /\ codepth' = IF codepth < level THEN level ELSE codepth
        /\ cotrace' = [j \in 0 .. codepth' |-> grown(j)]
    BY <1>3 DEF AddReaching
  <2>2. codepth' \in Nat /\ codepth <= codepth'
    BY <1>1, <2>1
  <2>3. ASSUME NEW j \in 0 .. codepth' PROVE grown(j) \in SUBSET (1 .. Len(pool'))
    <3>1. kept(j) \in SUBSET (1 .. Len(pool'))
      BY <1>1, <2>2
    <3> HIDE DEF kept
    <3> QED
      BY <1>1, <3>1
  <2>4. \A j \in 0 .. codepth : j # level => grown(j) = cotrace[j]
    BY <1>1
  <2> HIDE DEF grown
  <2> QED
    BY <1>1, <2>1, <2>2, <2>3, <2>4
<1> QED
  BY <1>2, <1>3

-----------------------------------------------------------------------------
(***************************************************************************)
(* Each action keeps the invariant.                                        *)
(***************************************************************************)

LEMMA InitInvariant == Init => InductiveInvariant
<1> SUFFICES ASSUME Init PROVE InductiveInvariant
  OBVIOUS
<1>1. TraceTypeOK
  BY SystemsAssumption, ConfigurationsAssumption DEF Init, TraceTypeOK, NoPushing
<1>2. TypeOK
  BY <1>1 DEF Init, TypeOK
<1>3. SolversInSync /\ FramesCovered
  BY SolversAssumption DEF Init, SolversInSync, FramesCovered
<1>4. StepsStayInTrace /\ TraceSafe /\ PushedCovered /\ EntriesSound
  BY DEF Init, StepsStayInTrace, TraceSafe, PushedCovered, EntriesSound
<1>5. QueueOK /\ PhasesOK
  BY DEF Init, QueueOK, PhasesOK
<1> QED
  BY <1>1, <1>2, <1>3, <1>4, <1>5 DEF InductiveInvariant, TraceInvariant

LEMMA ScanCubeInvariant ==
    ASSUME InductiveInvariant, ScanCube
    PROVE  InductiveInvariant'
<1>1. /\ TypeOK /\ TraceTypeOK /\ TraceInvariant /\ PhasesOK
      /\ depth \in Nat /\ codepth \in Nat /\ scan.level \in -1 .. codepth
  BY Parts
<1>2. /\ pc = "check" /\ pc' = "solve" /\ scan.level >= 0
      /\ UNCHANGED <<system, options, depth, trace, pool, pushing, result, codepth, cotrace>>
  BY DEF ScanCube
<1>3. PICK h \in cotrace[scan.level] :
          /\ queue' = {[level |-> depth, colevel |-> scan.level, handle |-> h]}
          /\ scan' = [scan EXCEPT !.done = @ \cup {h}]
  BY DEF ScanCube
<1>4. h \in 1 .. Len(pool) /\ scan.level \in Nat
  BY <1>1, <1>2 DEF TypeOK
<1>5. scan' \in [level : -1 .. codepth, done : SUBSET (1 .. Len(pool))] /\ scan'.level = scan.level
  BY <1>1, <1>3, <1>4 DEF TypeOK
<1>6. TraceTypeOK'
  BY <1>1, <1>2 DEF TraceTypeOK, trace
<1>7. TypeOK'
  BY <1>1, <1>2, <1>3, <1>4, <1>5, <1>6 DEF TypeOK
<1>8. TraceInvariant'
  BY <1>1, <1>2, <1>6, QuietInvariant
<1>9. depth # 0
  BY <1>1, <1>2, <1>4 DEF PhasesOK
<1>10. QueueOK'
  BY <1>1, <1>2, <1>3, <1>4, <1>5, <1>9 DEF QueueOK
<1>11. PhasesOK'
  BY <1>1, <1>2, <1>9 DEF PhasesOK
<1> QED
  BY <1>7, <1>8, <1>10, <1>11 DEF InductiveInvariant

LEMMA ScanNextCoframeInvariant ==
    ASSUME InductiveInvariant, ScanNextCoframe
    PROVE  InductiveInvariant'
<1>1. /\ TypeOK /\ TraceTypeOK /\ TraceInvariant /\ QueueOK /\ PhasesOK
      /\ codepth \in Nat /\ scan.level \in -1 .. codepth
  BY Parts
<1>2. /\ pc = "check" /\ scan.level >= 0 /\ scan' = [level |-> scan.level - 1, done |-> {}]
      /\ UNCHANGED <<system, options, depth, trace, pool, pushing, pc, result>>
      /\ UNCHANGED <<frames, clauses, codepth, cotrace, queue>>
  BY DEF ScanNextCoframe, traceVars, trace
<1>3. TraceTypeOK' /\ pc' # "propagate"
  BY <1>1, <1>2 DEF TraceTypeOK
<1>4. TypeOK'
  BY <1>1, <1>2, <1>3 DEF TypeOK
<1>5. TraceInvariant'
  BY <1>1, <1>2, <1>3, QuietInvariant
<1>6. QueueOK' /\ PhasesOK'
  BY <1>1, <1>2 DEF QueueOK, PhasesOK, Starts, CubeOf
<1> QED
  BY <1>4, <1>5, <1>6 DEF InductiveInvariant

LEMMA FindErrorStateInvariant ==
    ASSUME InductiveInvariant, FindErrorState
    PROVE  InductiveInvariant'
<1>1. /\ TypeOK /\ TraceTypeOK /\ TraceInvariant /\ PhasesOK
      /\ depth \in Nat /\ Len(pool) \in Nat /\ codepth \in Nat /\ scan.level \in -1 .. codepth
  BY Parts
<1>2. /\ pc = "check" /\ pc' = "solve" /\ scan.level < 0
      /\ UNCHANGED <<system, options, depth, trace, pushing, result, scan>>
  BY DEF FindErrorState
<1>3. PICK s \in States, x \in Inputs :
          /\ InLevel("error", depth, s, x) /\ ErrorHolds(s, x)
          /\ pool' = Append(pool, [state |-> s, input |-> x, succ |-> 0])
          /\ AddReaching(Len(pool'), 0)
          /\ queue' = {[level |-> depth, colevel |-> 0, handle |-> Len(pool')]}
  BY DEF FindErrorState
<1> DEFINE e == [state |-> s, input |-> x, succ |-> 0]
<1>4. e \in Entries /\ EntrySound(e.state)
  BY <1>3, ErrorEntry DEF Entries
<1>5. /\ TraceInvariant'
      /\ Len(pool') = Len(pool) + 1
      /\ pool'[Len(pool')] = e
  BY <1>1, <1>2, <1>3, <1>4, EntryInvariant
<1>6. /\ codepth' \in Nat /\ codepth <= codepth'
      /\ cotrace' \in [0 .. codepth' -> SUBSET (1 .. Len(pool'))]
  BY <1>1, <1>3, <1>5, CotraceGrows
<1>7. TypeOK'
  <2>1. TraceTypeOK'
    BY <1>5 DEF TraceInvariant
  <2>2. queue' \subseteq [level : 0 .. depth', colevel : Nat, handle : 1 .. Len(pool')]
    BY <1>1, <1>2, <1>3, <1>5
  <2>3. scan' \in [level : -1 .. codepth', done : SUBSET (1 .. Len(pool'))]
    <3>1. -1 .. codepth \subseteq -1 .. codepth' /\ 1 .. Len(pool) \subseteq 1 .. Len(pool')
      BY <1>1, <1>5, <1>6
    <3>2. scan' \in [level : -1 .. codepth, done : SUBSET (1 .. Len(pool))]
      BY <1>1, <1>2 DEF TypeOK
    <3> QED
      BY <3>1, <3>2
  <2> QED
    BY <1>2, <1>6, <2>1, <2>2, <2>3 DEF TypeOK
<1>8. QueueOK'
  <2>1. ASSUME NEW po \in queue', po.level = 0 PROVE Starts(po)'
    <3>1. depth = 0 /\ po.handle = Len(pool')
      BY <1>3, <2>1
    <3>2. CubeOf(po)' = s /\ pool'[po.handle].input = x
      BY <1>5, <3>1 DEF CubeOf
    <3>3. InitHolds(s, x)
      BY <1>3, <3>1 DEF InLevel
    <3> QED
      BY <1>2, <3>2, <3>3 DEF Starts, InitHolds, InitialStates, Subsumes
  <2>2. \A po \in queue' : po.colevel >= scan'.level
    BY <1>1, <1>2, <1>3
  <2> QED
    BY <1>2, <2>1, <2>2 DEF QueueOK
<1>9. PhasesOK'
  BY <1>1, <1>2, <1>3 DEF PhasesOK
<1> QED
  BY <1>5, <1>7, <1>8, <1>9 DEF InductiveInvariant

LEMMA NoErrorStateInvariant ==
    ASSUME InductiveInvariant, NoErrorState
    PROVE  InductiveInvariant'
<1>1. /\ TypeOK /\ TraceInvariant /\ QueueOK /\ PhasesOK
      /\ depth \in Nat /\ Len(pool) \in Nat
  BY Parts
<1>2. /\ pc = "check" /\ pc' = "propagate" /\ depth' = depth + 1 /\ PushFrame
      /\ UNCHANGED <<pool, result, codepth, cotrace, queue, scan>>
  BY DEF NoErrorState, PushFrame
<1>3. TraceInvariant'
  BY <1>1, PushFrameInvariant, SolversOfCAR DEF NoErrorState
<1>4. queue = {}
  BY <1>1, <1>2 DEF QueueOK
<1>5. TypeOK'
  BY <1>1, <1>2, <1>3, <1>4 DEF TypeOK, TraceInvariant
<1>6. QueueOK' /\ PhasesOK'
  BY <1>1, <1>2, <1>4 DEF QueueOK, PhasesOK
<1> QED
  BY <1>3, <1>5, <1>6 DEF InductiveInvariant

LEMMA ReachedInitInvariant ==
    ASSUME InductiveInvariant, ReachedInit
    PROVE  InductiveInvariant'
<1>1. TypeOK /\ TraceTypeOK /\ TraceInvariant /\ QueueOK
  BY Parts
<1>2. PICK po \in queue : Return([verdict |-> "counterexample", handle |-> po.handle])
  BY DEF ReachedInit
<1>3. /\ pc' = "done" /\ result' = [verdict |-> "counterexample", handle |-> po.handle]
      /\ po.handle \in 0 .. Len(pool)
  BY <1>1, <1>2 DEF Return, TypeOK
<1>4. /\ UNCHANGED <<system, options, depth, trace, pool, pushing>>
      /\ UNCHANGED <<frames, clauses, codepth, cotrace, queue, scan>>
  BY DEF ReachedInit, trace
<1>5. TraceTypeOK'
  BY <1>1, <1>3, <1>4 DEF TraceTypeOK
<1>6. TypeOK'
  BY <1>1, <1>3, <1>4, <1>5 DEF TypeOK
<1>7. TraceInvariant'
  BY <1>1, <1>3, <1>4, <1>5, QuietInvariant
<1>8. QueueOK' /\ PhasesOK'
  BY <1>1, <1>3, <1>4 DEF QueueOK, PhasesOK, Starts, CubeOf
<1> QED
  BY <1>6, <1>7, <1>8 DEF InductiveInvariant

LEMMA DropBlockedInvariant ==
    ASSUME InductiveInvariant, DropBlocked
    PROVE  InductiveInvariant'
<1>1. TypeOK /\ TraceTypeOK /\ TraceInvariant /\ QueueOK /\ PhasesOK
  BY Parts
<1>2. PICK po \in queue : po.level > 0 /\ queue' = queue \ {po}
  BY DEF DropBlocked
<1>3. /\ pc = "solve"
      /\ UNCHANGED <<system, options, depth, trace, pool, pushing, pc, result>>
      /\ UNCHANGED <<frames, clauses, codepth, cotrace, scan>>
  BY DEF DropBlocked, traceVars, trace
<1>4. TraceTypeOK'
  BY <1>1, <1>3 DEF TraceTypeOK
<1>5. TypeOK'
  BY <1>1, <1>2, <1>3, <1>4 DEF TypeOK
<1>6. TraceInvariant'
  BY <1>1, <1>3, <1>4, QuietInvariant
<1>7. QueueOK'
  BY <1>1, <1>2, <1>3 DEF QueueOK, Starts, CubeOf
<1>8. depth # 0
  <2>1. po.level \in 0 .. depth
    BY <1>1 DEF TypeOK
  <2> QED
    BY <1>2, <2>1
<1>9. PhasesOK'
  BY <1>1, <1>3, <1>8 DEF PhasesOK
<1> QED
  BY <1>5, <1>6, <1>7, <1>9 DEF InductiveInvariant

LEMMA AddPredecessorInvariant ==
    ASSUME InductiveInvariant, AddPredecessor
    PROVE  InductiveInvariant'
<1>1. /\ TypeOK /\ TraceTypeOK /\ TraceInvariant /\ QueueOK /\ PhasesOK
      /\ depth \in Nat /\ Len(pool) \in Nat /\ codepth \in Nat /\ scan.level \in -1 .. codepth
  BY Parts
<1>2. /\ pc = "solve" /\ pc' = "solve"
      /\ UNCHANGED <<system, options, depth, trace, pushing, result, scan>>
  BY DEF AddPredecessor
<1>3. PICK po \in queue :
          /\ po.level > 0
          /\ \E s, t \in States, x \in Inputs :
                 /\ InLevel("trans", po.level - 1, s, x)
                 /\ TransHoldsAt(po.level - 1, s, x, t) /\ Subsumes(CubeOf(po), t)
                 /\ \E p \in PredecessorCubes(s, x, CubeOf(po)) :
                        pool' = Append(pool, [state |-> p, input |-> x, succ |-> po.handle])
          /\ AddReaching(Len(pool'), po.colevel + 1)
          /\ queue' = queue \cup {[level |-> po.level - 1, colevel |-> po.colevel + 1,
                                   handle |-> Len(pool')]}
  BY DEF AddPredecessor
<1>4. PICK s \in States, t \in States, x \in Inputs :
          /\ InLevel("trans", po.level - 1, s, x)
          /\ TransHoldsAt(po.level - 1, s, x, t) /\ Subsumes(CubeOf(po), t)
          /\ \E p \in PredecessorCubes(s, x, CubeOf(po)) :
                 pool' = Append(pool, [state |-> p, input |-> x, succ |-> po.handle])
  BY <1>3
<1>5. PICK p \in PredecessorCubes(s, x, CubeOf(po)) :
          pool' = Append(pool, [state |-> p, input |-> x, succ |-> po.handle])
  BY <1>4
<1> DEFINE e   == [state |-> p, input |-> x, succ |-> po.handle]
           new == [level |-> po.level - 1, colevel |-> po.colevel + 1, handle |-> Len(pool')]
<1>6. po.level \in 1 .. depth /\ po.colevel \in Nat /\ po.handle \in 1 .. Len(pool)
  BY <1>1, <1>3 DEF TypeOK
<1>7. /\ p \in Cubes /\ Subsumes(p, s)
      /\ options.forward \/ p = s
      /\ EntrySound(p)
  <2>1. EntrySound(CubeOf(po))
    BY <1>1, <1>6, KnownEntry DEF CubeOf
  <2>2. system \in TransitionSystems
    BY <1>1 DEF TraceTypeOK
  <2> QED
    BY <1>4, <2>1, <2>2, PredecessorEntry DEF TransHoldsAt
<1>8. e \in Entries
  BY <1>6, <1>7 DEF Entries
<1>9. /\ TraceInvariant'
      /\ Len(pool') = Len(pool) + 1
      /\ pool'[Len(pool')] = e
      /\ \A h \in 1 .. Len(pool) : pool'[h] = pool[h]
  BY <1>1, <1>2, <1>5, <1>7, <1>8, EntryInvariant
<1>10. /\ codepth' \in Nat /\ codepth <= codepth'
       /\ cotrace' \in [0 .. codepth' -> SUBSET (1 .. Len(pool'))]
  BY <1>1, <1>3, <1>6, <1>9, CotraceGrows
<1>11. TypeOK'
  <2>1. TraceTypeOK'
    BY <1>9 DEF TraceInvariant
  <2>2. -1 .. codepth \subseteq -1 .. codepth' /\ 1 .. Len(pool) \subseteq 1 .. Len(pool')
    BY <1>1, <1>9, <1>10
  <2>3. queue' \subseteq [level : 0 .. depth', colevel : Nat, handle : 1 .. Len(pool')]
    <3>1. new \in [level : 0 .. depth, colevel : Nat, handle : 1 .. Len(pool')]
      BY <1>1, <1>6, <1>9
    <3>2. queue \subseteq [level : 0 .. depth, colevel : Nat, handle : 1 .. Len(pool')]
      BY <1>1, <2>2 DEF TypeOK
    <3> QED
      BY <1>2, <1>3, <3>1, <3>2
  <2>4. scan' \in [level : -1 .. codepth', done : SUBSET (1 .. Len(pool'))]
    BY <1>1, <1>2, <2>2 DEF TypeOK
  <2> QED
    BY <1>2, <1>10, <2>1, <2>3, <2>4 DEF TypeOK
<1>12. QueueOK'
  <2>1. ASSUME NEW q \in queue', q.level = 0 PROVE Starts(q)'
    <3>1. CASE q \in queue
      <4>1. q.handle \in 1 .. Len(pool) /\ Starts(q)
        BY <1>1, <2>1, <3>1 DEF TypeOK, QueueOK
      <4>2. pool'[q.handle] = pool[q.handle]
        BY <1>9, <4>1
      <4> QED
        BY <1>2, <4>1, <4>2 DEF Starts, CubeOf
    <3>2. CASE q = new
      <4>1. po.level - 1 = 0 /\ CubeOf(q)' = p /\ pool'[q.handle].input = x
        BY <1>9, <2>1, <3>2 DEF CubeOf
      <4>2. InitHolds(s, x)
        BY <1>4, <4>1 DEF InLevel
      <4>3. CASE options.forward
        <5>1. s \in InitialStates(system) /\ Subsumes(CubeOf(q)', s)
          BY <1>7, <4>1, <4>2, <4>3 DEF InitHolds, InitialStates
        <5> QED
          BY <1>2, <4>3, <5>1 DEF Starts
      <4>4. CASE ~ options.forward
        BY <1>2, <1>7, <4>1, <4>2, <4>4 DEF InitHolds, Starts
      <4> QED
        BY <4>3, <4>4
    <3> QED
      BY <1>3, <2>1, <3>1, <3>2
  <2>2. ASSUME NEW q \in queue' PROVE q.colevel >= scan'.level
    <3>1. po.colevel >= scan.level
      BY <1>1, <1>2 DEF QueueOK
    <3>2. CASE q \in queue
      BY <1>1, <1>2, <3>2 DEF QueueOK
    <3>3. CASE q = new
      BY <1>1, <1>2, <1>6, <3>1, <3>3
    <3> QED
      BY <1>3, <2>2, <3>2, <3>3
  <2> QED
    BY <1>2, <2>1, <2>2 DEF QueueOK
<1>13. PhasesOK'
  BY <1>1, <1>2, <1>6 DEF PhasesOK
<1> QED
  BY <1>9, <1>11, <1>12, <1>13 DEF InductiveInvariant

LEMMA BlockCubeInvariant ==
    ASSUME InductiveInvariant, BlockCube
    PROVE  InductiveInvariant'
<1>1. /\ TypeOK /\ TraceTypeOK /\ TraceInvariant /\ QueueOK /\ PhasesOK
      /\ depth \in Nat
  BY Parts
<1>2. /\ pc = "solve" /\ pc' = "solve"
      /\ UNCHANGED <<system, options, depth, pool, pushing, result, codepth, cotrace, scan>>
  BY DEF BlockCube
<1>3. PICK po \in queue :
          /\ po.level > 0
          /\ \E part \in BlockedCores(CubeOf(po), po.level, options.mucBlocked) :
                 AddBlocked(part, po.level)
          /\ queue' = (queue \ {po}) \cup Repushed(po)
  BY DEF BlockCube
<1>4. PICK part \in SUBSET CubeOf(po) : ~ HasPredecessor(part, po.level) /\ AddBlocked(part, po.level)
  BY <1>3 DEF BlockedCores
<1>5. po.level \in 1 .. depth /\ po.colevel \in Nat /\ po.handle \in 1 .. Len(pool)
  BY <1>1, <1>3 DEF TypeOK
<1>6. part \in Cubes
  BY <1>1, <1>5, KnownEntry, SubCube DEF CubeOf
<1>7. TraceInvariant'
  BY <1>1, <1>2, <1>4, <1>5, <1>6, BlockInvariant
<1>8. ASSUME NEW q \in queue'
      PROVE  \/ q \in queue
             \/ /\ q \in [level : 1 .. depth, colevel : Nat, handle : 1 .. Len(pool)]
                /\ q.colevel = po.colevel
  <2>1. CASE q \in queue
    BY <2>1
  <2>2. CASE q \in Repushed(po)
    <3>1. q = [po EXCEPT !.level = po.level + 1] /\ po.level < depth
      BY <2>2 DEF Repushed
    <3>2. po \in [level : 0 .. depth, colevel : Nat, handle : 1 .. Len(pool)]
      BY <1>1 DEF TypeOK
    <3> QED
      BY <1>1, <1>5, <3>1, <3>2
  <2> QED
    BY <1>3, <1>8, <2>1, <2>2
<1>9. TypeOK'
  <2>1. TraceTypeOK'
    BY <1>7 DEF TraceInvariant
  <2>2. queue' \subseteq [level : 0 .. depth', colevel : Nat, handle : 1 .. Len(pool')]
    BY <1>1, <1>2, <1>8 DEF TypeOK
  <2> QED
    BY <1>1, <1>2, <2>1, <2>2 DEF TypeOK
<1>10. QueueOK'
  BY <1>1, <1>2, <1>8 DEF QueueOK, Starts, CubeOf
<1>11. PhasesOK'
  BY <1>1, <1>2, <1>5 DEF PhasesOK
<1> QED
  BY <1>7, <1>9, <1>10, <1>11 DEF InductiveInvariant

LEMMA ObligationsSolvedInvariant ==
    ASSUME InductiveInvariant, ObligationsSolved
    PROVE  InductiveInvariant'
<1>1. TypeOK /\ TraceTypeOK /\ TraceInvariant /\ QueueOK /\ PhasesOK
  BY Parts
<1>2. /\ pc = "solve" /\ pc' = "check" /\ queue = {}
      /\ UNCHANGED <<system, options, depth, trace, pool, pushing, result>>
      /\ UNCHANGED <<frames, clauses, codepth, cotrace, queue, scan>>
  BY DEF ObligationsSolved, trace
<1>3. TraceTypeOK'
  BY <1>1, <1>2 DEF TraceTypeOK
<1>4. TypeOK' /\ QueueOK' /\ PhasesOK'
  BY <1>1, <1>2, <1>3 DEF TypeOK, QueueOK, PhasesOK
<1>5. TraceInvariant'
  BY <1>1, <1>2, <1>3, QuietInvariant
<1> QED
  BY <1>4, <1>5 DEF InductiveInvariant

LEMMA PropagateTraceInvariant ==
    ASSUME InductiveInvariant, PropagateTrace
    PROVE  InductiveInvariant'
<1>1. /\ TypeOK /\ TraceTypeOK /\ TraceInvariant /\ QueueOK /\ PhasesOK
      /\ depth \in Nat
  BY Parts
<1>2. Propagate /\ UNCHANGED <<codepth, cotrace, queue, scan>>
  BY DEF PropagateTrace
<1>3. TraceInvariant'
  BY <1>1, <1>2, PropagateInvariant
<1>4. /\ pc \in {"propagate", "inductive"}
      /\ UNCHANGED <<system, options, depth, pool>>
      /\ \/ UNCHANGED result /\ pc' \in {"propagate", "inductive"}
         \/ result'.verdict = "ok" /\ pc' = "done"
  BY <1>2 DEF Propagate, PropagateCube, FramePushed, NextFrame, EndPropagate, FindInvariant,
     FrameDone, Propagating, Return
<1>5. queue = {} /\ depth # 0 /\ result = [verdict |-> "none", handle |-> 0]
  BY <1>1, <1>4 DEF QueueOK, PhasesOK
<1>6. TypeOK'
  BY <1>1, <1>2, <1>3, <1>4, <1>5 DEF TypeOK, TraceInvariant
<1>7. QueueOK' /\ PhasesOK'
  BY <1>1, <1>2, <1>4, <1>5 DEF QueueOK, PhasesOK
<1> QED
  BY <1>3, <1>6, <1>7 DEF InductiveInvariant

LEMMA NextIterationInvariant ==
    ASSUME InductiveInvariant, NextIteration
    PROVE  InductiveInvariant'
<1>1. /\ TypeOK /\ TraceTypeOK /\ TraceInvariant /\ QueueOK /\ PhasesOK
      /\ codepth \in Nat
  BY Parts
<1>2. /\ pc = "inductive" /\ pc' = "check" /\ scan' = [level |-> codepth, done |-> {}]
      /\ UNCHANGED <<system, options, depth, trace, pool, pushing, result>>
      /\ UNCHANGED <<frames, clauses, codepth, cotrace, queue>>
  BY DEF NextIteration, trace
<1>3. TraceTypeOK'
  BY <1>1, <1>2 DEF TraceTypeOK
<1>4. TypeOK' /\ QueueOK' /\ PhasesOK'
  BY <1>1, <1>2, <1>3 DEF TypeOK, QueueOK, PhasesOK
<1>5. TraceInvariant'
  BY <1>1, <1>2, <1>3, QuietInvariant
<1> QED
  BY <1>4, <1>5 DEF InductiveInvariant

LEMMA UnchangedInvariant ==
    ASSUME InductiveInvariant, UNCHANGED vars
    PROVE  InductiveInvariant'
<1>1. TypeOK /\ TraceTypeOK /\ TraceInvariant /\ QueueOK /\ PhasesOK
  BY Parts
<1>2. /\ UNCHANGED <<system, options, depth, trace, pool, pushing, pc, result>>
      /\ UNCHANGED <<frames, clauses, codepth, cotrace, queue, scan>>
  BY DEF vars, traceVars, trace
<1>3. TraceTypeOK' /\ TypeOK' /\ QueueOK' /\ PhasesOK' /\ PushedCovered'
  BY <1>1, <1>2 DEF TraceTypeOK, TypeOK, QueueOK, PhasesOK, Starts, CubeOf,
     TraceInvariant, PushedCovered
<1>4. TraceOK' /\ EntriesSound'
  BY <1>1, <1>2, InvariantParts, TraceKept, EntriesKept
<1> QED
  BY <1>3, <1>4 DEF InductiveInvariant, TraceInvariant, TraceOK

LEMMA StepInvariant ==
    ASSUME InductiveInvariant, [Next]_vars
    PROVE  InductiveInvariant'
BY ScanCubeInvariant, ScanNextCoframeInvariant, FindErrorStateInvariant, NoErrorStateInvariant,
   ReachedInitInvariant, DropBlockedInvariant, AddPredecessorInvariant, BlockCubeInvariant,
   ObligationsSolvedInvariant, PropagateTraceInvariant, NextIterationInvariant, UnchangedInvariant
   DEF Next, Terminating

-----------------------------------------------------------------------------
(***************************************************************************)
(* What follows from the invariant.                                        *)
(***************************************************************************)

\* The inductive invariant of CAR, forward and backward, with any options.
THEOREM InvariantHolds == Spec => []InductiveInvariant
<1>1. InductiveInvariant /\ [Next]_vars => InductiveInvariant'
  BY StepInvariant
<1> QED
  BY <1>1, InitInvariant, PTL DEF Spec

\* The variables of CAR keep their types; levels stay within the frames that
\* exist and handles within the pool.
THEOREM TypeCorrect == Spec => []TypeOK
<1>1. InductiveInvariant => TypeOK
  BY DEF InductiveInvariant
<1> QED
  BY <1>1, InvariantHolds, PTL

\* In every solver a step from a level ends in the next one.
THEOREM TraceIsInductive == Spec => []StepsStayInTrace
<1>1. InductiveInvariant => StepsStayInTrace
  BY DEF InductiveInvariant, TraceInvariant
<1> QED
  BY <1>1, InvariantHolds, PTL

\* No level before the last one has an error state, in either direction.
THEOREM TraceIsSafe == Spec => []TraceSafe
<1>1. InductiveInvariant => TraceSafe
  BY DEF InductiveInvariant, TraceInvariant
<1> QED
  BY <1>1, InvariantHolds, PTL

\* The frames, from which invariants are concluded, and the three solvers, from
\* which all else is, describe the same states at every level.
THEOREM SolversAgree == Spec => []SolversAgreeWithFrames
<1>1. InductiveInvariant => SolversAgreeWithFrames
  BY FramesAgree DEF InductiveInvariant, TraceInvariant
<1> QED
  BY <1>1, InvariantHolds, PTL

-----------------------------------------------------------------------------
(***************************************************************************)
(* The cotrace and the pool.                                               *)
(***************************************************************************)

\* check_existing_cotrace reads a coframe that no obligation changes.
THEOREM CoframeStable == Spec => ScannedCoframeStable
<1>1. InductiveInvariant /\ [Next]_vars
      => [scan.level >= 0 /\ scan'.level = scan.level =>
              cotrace'[scan.level] = cotrace[scan.level]]_vars
  <2> SUFFICES ASSUME InductiveInvariant, [Next]_vars,
                      scan.level >= 0, scan'.level = scan.level
               PROVE  cotrace'[scan.level] = cotrace[scan.level]
    OBVIOUS
  <2>1. /\ TypeOK /\ TraceTypeOK /\ TraceInvariant /\ QueueOK /\ PhasesOK
        /\ Len(pool) \in Nat /\ codepth \in Nat /\ scan.level \in -1 .. codepth
    BY Parts
  <2>2. CASE UNCHANGED cotrace
    BY <2>2
  <2>3. CASE AddPredecessor
    <3>1. PICK po \in queue :
              /\ AddReaching(Len(pool'), po.colevel + 1)
              /\ \E e : pool' = Append(pool, e)
      BY <2>3 DEF AddPredecessor
    <3>2. pool \in Seq(Entries) /\ po.colevel \in Nat /\ po.colevel >= scan.level
      BY <2>1, <2>3 DEF TypeOK, TraceTypeOK, QueueOK, AddPredecessor
    <3>3. Len(pool') = Len(pool) + 1
      BY <3>1, <3>2
    <3>4. po.colevel + 1 \in Nat /\ scan.level # po.colevel + 1 /\ scan.level \in 0 .. codepth
      BY <2>1, <3>2
    <3> QED
      BY <2>1, <3>1, <3>3, <3>4, CotraceGrows
  <2>4. ~ FindErrorState
    BY <2>1 DEF FindErrorState
  <2> QED
    BY <2>2, <2>3, <2>4 DEF Next, vars, ScanCube, ScanNextCoframe, NoErrorState, ReachedInit,
       DropBlocked, BlockCube, ObligationsSolved, PropagateTrace, NextIteration, Terminating
<1> QED
  BY <1>1, InvariantHolds, PTL DEF Spec, ScannedCoframeStable

\* The pool gets entries of error states and of predecessors, and no other.
LEMMA StepGrowsPool ==
    ASSUME InductiveInvariant, [Next]_vars
    PROVE  PoolSteps
<1>1. TypeOK /\ TraceTypeOK /\ TraceInvariant
  BY Parts
<1>2. CASE UNCHANGED <<system, options, pool>>
  BY <1>2 DEF PoolSteps
<1>3. CASE FindErrorState
  <2>1. PICK s \in States, x \in Inputs :
            ErrorHolds(s, x) /\ pool' = Append(pool, [state |-> s, input |-> x, succ |-> 0])
    BY <1>3 DEF FindErrorState
  <2>2. NewEntry([state |-> s, input |-> x, succ |-> 0])
    BY <1>1, <2>1, NewErrorEntry
  <2> QED
    BY <1>3, <2>1, <2>2 DEF FindErrorState, PoolSteps
<1>4. CASE AddPredecessor
  <2>1. PICK po \in queue, s \in States, t \in States, x \in Inputs :
            /\ TransHolds(s, x, t) /\ Subsumes(CubeOf(po), t)
            /\ \E p \in PredecessorCubes(s, x, CubeOf(po)) :
                   pool' = Append(pool, [state |-> p, input |-> x, succ |-> po.handle])
    BY <1>4 DEF AddPredecessor, TransHoldsAt
  <2>2. PICK p \in PredecessorCubes(s, x, CubeOf(po)) :
            pool' = Append(pool, [state |-> p, input |-> x, succ |-> po.handle])
    BY <2>1
  <2>3. po.handle \in 1 .. Len(pool)
    BY <1>1 DEF TypeOK
  <2>4. NewEntry([state |-> p, input |-> x, succ |-> po.handle])
    BY <1>1, <2>1, <2>3, NewPredecessorEntry DEF CubeOf
  <2> QED
    BY <1>4, <2>2, <2>4 DEF AddPredecessor, PoolSteps
<1> QED
  BY <1>2, <1>3, <1>4 DEF Next, vars, traceVars, ScanCube, ScanNextCoframe, NoErrorState,
     PushFrame, ReachedInit, DropBlocked, BlockCube, ObligationsSolved, PropagateTrace, Propagate,
     PropagateCube, FramePushed, NextFrame, EndPropagate, FindInvariant, NextIteration, Terminating

\* A counterexample is returned for an obligation of level 0 only.
LEMMA StepReports ==
    ASSUME InductiveInvariant, ReportStarts, [Next]_vars
    PROVE  ReportStarts'
<1>1. TypeOK /\ TraceTypeOK /\ QueueOK /\ PhasesOK
  BY Parts
<1>2. CASE UNCHANGED <<system, options, pool, result>>
  BY <1>2 DEF ReportStarts
<1>3. CASE ReachedInit
  <2>1. PICK po \in queue :
            po.level = 0 /\ Return([verdict |-> "counterexample", handle |-> po.handle])
    BY <1>3 DEF ReachedInit
  <2>2. po.handle \in 1 .. Len(pool) /\ Starts(po)
    BY <1>1, <2>1 DEF TypeOK, QueueOK
  <2>3. result'.handle = po.handle /\ UNCHANGED <<system, options, pool>>
    BY <1>3, <2>1 DEF ReachedInit, Return
  <2> QED
    BY <2>2, <2>3 DEF ReportStarts, Starts, CubeOf
<1>4. CASE result'.verdict # "counterexample"
  BY <1>4 DEF ReportStarts
<1>5. CASE FindErrorState \/ AddPredecessor
  BY <1>1, <1>5 DEF FindErrorState, AddPredecessor, PhasesOK, ReportStarts
<1>6. CASE FramePushed \/ FindInvariant
  BY <1>6 DEF FramePushed, FindInvariant, Return, ReportStarts
<1> QED
  BY <1>2, <1>3, <1>5, <1>6 DEF Next, vars, traceVars, ScanCube, ScanNextCoframe, NoErrorState,
     PushFrame, DropBlocked, BlockCube, ObligationsSolved, PropagateTrace, Propagate,
     PropagateCube, NextFrame, EndPropagate, NextIteration, Terminating

\* The chains, and what a returned handle stands for, are kept by the whole engine.
THEOREM CounterexampleHolds == Spec => []CounterexampleInvariant
<1>1. Init => CounterexampleInvariant
  <2>1. Init => pool = <<>> /\ result.verdict # "counterexample"
    BY DEF Init
  <2>2. pool = <<>> => \A h \in 1 .. Len(pool) : FALSE
    OBVIOUS
  <2> QED
    BY <2>1, <2>2 DEF CounterexampleInvariant, ChainsReachError, BackwardStates, ReportStarts
<1>2. InductiveInvariant /\ CounterexampleInvariant /\ [Next]_vars => CounterexampleInvariant'
  <2>1. SUFFICES ASSUME InductiveInvariant, CounterexampleInvariant, [Next]_vars
                 PROVE  CounterexampleInvariant'
    OBVIOUS
  <2>2. PoolSteps /\ ReportStarts' /\ TraceTypeOK
    BY <2>1, StepGrowsPool, StepReports, Parts DEF CounterexampleInvariant
  <2> QED
    BY <2>1, <2>2, PoolKeepsChains DEF CounterexampleInvariant
<1> QED
  BY <1>1, <1>2, InvariantHolds, PTL DEF Spec

\* From every cube of the pool a chain of steps leads to the error.
THEOREM ChainsHold == Spec => []ChainsReachError
<1>1. CounterexampleInvariant => ChainsReachError
  BY DEF CounterexampleInvariant
<1> QED
  BY <1>1, CounterexampleHolds, PTL

\* What build_counterexample makes of the returned handle.
LEMMA ReportReplays ==
    ASSUME InductiveInvariant, CounterexampleInvariant
    PROVE  WitnessReplays
<1>1. TraceTypeOK
  BY Parts
<1>2. SUFFICES ASSUME result.verdict = "counterexample"
               PROVE  /\ ReachesBad(system, Witness.initial, Witness.inputs)
                      /\ ~ options.forward \/ (\A l \in system.init : l < 0)
                             => Witness.initial \in InitialStates(system)
  BY DEF WitnessReplays
<1>3. CASE options.forward
  <2>1. /\ Witness.initial = Completed(pool[result.handle].state)
        /\ Witness.inputs = InputsFrom[result.handle]
    BY <1>3 DEF Witness
  <2> QED
    BY <1>1, <1>2, <1>3, <2>1, ForwardReplays
<1>4. CASE ~ options.forward
  <2> DEFINE chain == InputsFrom[result.handle]
  <2>1. /\ Witness.initial = Completed(pool[LastFrom[result.handle]].state)
        /\ Witness.inputs = Reversed(chain, chain[1])
    BY <1>4 DEF Witness, Reversed
  <2> QED
    BY <1>1, <1>2, <1>4, <2>1, BackwardReplays
<1> QED
  BY <1>3, <1>4

\* Every counterexample that CAR returns, forward or backward, is a run of the system
\* to an error, whatever the pool holds: WitnessReplays.
THEOREM CounterexamplesReplay == Spec => []WitnessReplays
<1>1. InductiveInvariant /\ CounterexampleInvariant => WitnessReplays
  BY ReportReplays
<1> QED
  BY <1>1, InvariantHolds, CounterexampleHolds, PTL

-----------------------------------------------------------------------------
(***************************************************************************)
(* The coframes.                                                           *)
(***************************************************************************)

\* A step of the engine leaves the distances of the cubes it keeps as they were.
LEMMA DistancesStay ==
    ASSUME TraceTypeOK, TraceTypeOK', ChainsReachError, ChainsReachError', PoolSteps
    PROVE  /\ Len(pool) <= Len(pool')
           /\ \A h \in 1 .. Len(pool) : DistanceFrom'[h] = DistanceFrom[h]
           /\ DistanceFrom'[0] = -1
           /\ \A h \in 1 .. Len(pool') : DistanceFrom'[h] = DistanceFrom'[pool'[h].succ] + 1
<1>1. pool \in Pools /\ EarlierSuccessors(pool)
  BY PoolIsPool
<1>2. pool' \in Pools /\ EarlierSuccessors(pool')
  BY DEF TraceTypeOK, Pools, Entries, ChainsReachError, EarlierSuccessors
<1>3. Len(pool) <= Len(pool') /\ \A h \in 1 .. Len(pool) : pool'[h] = pool[h]
  <2>1. pool \in Seq(Entries)
    BY DEF TraceTypeOK
  <2>2. CASE UNCHANGED pool
    BY <2>1, <2>2
  <2>3. CASE \E e : NewEntry(e) /\ pool' = Append(pool, e)
    BY <2>1, <2>3
  <2> QED
    BY <2>2, <2>3 DEF PoolSteps
<1>4. /\ DistanceFrom = DistanceAlong(pool)
      /\ DistanceFrom' = DistanceAlong(pool')
  BY DEF DistanceFrom, DistanceAlong
<1>5. \A h \in 1 .. Len(pool) : DistanceFrom'[h] = DistanceFrom[h]
  <2>1. \A h \in 0 .. Len(pool) : DistanceAlong(pool')[h] = DistanceAlong(pool)[h]
    BY <1>1, <1>2, <1>3, DistancesKept
  <2>2. \A h \in 1 .. Len(pool) : h \in 0 .. Len(pool)
    OBVIOUS
  <2> QED
    BY <1>4, <2>1, <2>2
<1>6. /\ DistanceAlong(pool')[0] = -1
      /\ \A h \in 1 .. Len(pool') :
             DistanceAlong(pool')[h] = DistanceAlong(pool')[pool'[h].succ] + 1
  BY <1>2, DistanceAlongChain
<1> QED
  BY <1>3, <1>4, <1>5, <1>6

\* Every handle a coframe holds after a cube was added is the new one or was there.
LEMMA CoframeHandles ==
    ASSUME TypeOK, Len(pool) \in Nat, NEW h, NEW level \in Nat, AddReaching(h, level),
           NEW j \in 0 .. codepth', NEW g \in cotrace'[j]
    PROVE  (j \in 0 .. codepth /\ g \in cotrace[j]) \/ (g = h /\ j = level)
<1>1. codepth \in Nat
  BY DEF TypeOK
<1>2. CASE ~ options.cotrace
  BY <1>2 DEF AddReaching
<1>3. CASE options.cotrace
  <2> DEFINE kept(i) == IF i <= codepth THEN cotrace[i] ELSE {}
             grown(i) == IF i = level
                         THEN {f \in kept(i) : ~ Subsumes(pool'[h].state, pool[f].state)} \cup {h}
                         ELSE kept(i)
  <2>1. cotrace' = [i \in 0 .. codepth' |-> grown(i)]
    BY <1>3 DEF AddReaching
  <2>2. g \in grown(j)
    BY <2>1
  <2>3. g \in kept(j) => j \in 0 .. codepth /\ g \in cotrace[j]
    BY <1>1
  <2> HIDE DEF kept
  <2>4. g \in kept(j) \/ (g = h /\ j = level)
    BY <2>2
  <2> QED
    BY <2>3, <2>4
<1> QED
  BY <1>2, <1>3

\* Every step keeps each coframe's cubes at the coframe's distance.
LEMMA StepKeepsDistances ==
    ASSUME InductiveInvariant, InductiveInvariant', ChainsReachError, ChainsReachError',
           ColevelsAreDistances, [Next]_vars
    PROVE  ColevelsAreDistances'
<1>1. /\ TypeOK /\ TypeOK' /\ TraceTypeOK /\ TraceTypeOK' /\ Len(pool) \in Nat /\ codepth \in Nat
      /\ scan.level \in -1 .. codepth
  BY Parts DEF InductiveInvariant, TypeOK
<1>2. PoolSteps
  BY StepGrowsPool
<1> DEFINE D == DistanceFrom
           E == DistanceFrom'
<1>3. /\ Len(pool) <= Len(pool') /\ \A h \in 1 .. Len(pool) : E[h] = D[h]
      /\ E[0] = -1 /\ \A h \in 1 .. Len(pool') : E[h] = E[pool'[h].succ] + 1
  BY <1>1, <1>2, DistancesStay
<1>4. /\ \A j \in 0 .. codepth : \A h \in cotrace[j] : h \in 1 .. Len(pool) /\ D[h] = j
      /\ \A po \in queue : /\ po.handle \in 1 .. Len(pool) /\ po.colevel \in Nat
                           /\ D[po.handle] = po.colevel
  BY <1>1 DEF ColevelsAreDistances, TypeOK
<1>5. SUFFICES /\ \A j \in 0 .. codepth' : \A h \in cotrace'[j] : E[h] = j
               /\ \A po \in queue' : E[po.handle] = po.colevel
  BY DEF ColevelsAreDistances
<1> HIDE DEF D, E
<1>6. CASE UNCHANGED <<codepth, cotrace>> /\ queue' \subseteq queue
  BY <1>3, <1>4, <1>6
<1>7. CASE ScanCube
  <2>1. PICK h \in cotrace[scan.level] :
            queue' = {[level |-> depth, colevel |-> scan.level, handle |-> h]}
    BY <1>7 DEF ScanCube
  <2>2. scan.level \in 0 .. codepth /\ UNCHANGED <<codepth, cotrace>>
    BY <1>1, <1>7 DEF ScanCube
  <2> QED
    BY <1>3, <1>4, <2>1, <2>2
<1>8. CASE FindErrorState
  <2>1. PICK s \in States, x \in Inputs : pool' = Append(pool, [state |-> s, input |-> x, succ |-> 0])
    BY <1>8 DEF FindErrorState
  <2>2. /\ AddReaching(Len(pool'), 0)
        /\ queue' = {[level |-> depth, colevel |-> 0, handle |-> Len(pool')]}
    BY <1>8 DEF FindErrorState
  <2>3. Len(pool') \in 1 .. Len(pool') /\ pool'[Len(pool')].succ = 0
    <3>1. pool \in Seq(Entries)
      BY <1>1 DEF TraceTypeOK
    <3> QED
      BY <2>1, <3>1
  <2>4. E[Len(pool')] = 0
    BY <1>3, <2>3
  <2> QED
    BY <1>1, <1>3, <1>4, <2>2, <2>4, CoframeHandles
<1>9. CASE AddPredecessor
  <2>1. PICK po \in queue :
            /\ \E p, x : pool' = Append(pool, [state |-> p, input |-> x, succ |-> po.handle])
            /\ AddReaching(Len(pool'), po.colevel + 1)
            /\ queue' = queue \cup {[level |-> po.level - 1, colevel |-> po.colevel + 1,
                                     handle |-> Len(pool')]}
    BY <1>9 DEF AddPredecessor
  <2>2. PICK p, x : pool' = Append(pool, [state |-> p, input |-> x, succ |-> po.handle])
    BY <2>1
  <2>3. Len(pool') \in 1 .. Len(pool') /\ pool'[Len(pool')].succ = po.handle
    <3>1. pool \in Seq(Entries)
      BY <1>1 DEF TraceTypeOK
    <3> QED
      BY <2>2, <3>1
  <2>4. E[Len(pool')] = po.colevel + 1 /\ po.colevel + 1 \in Nat
    BY <1>3, <1>4, <2>3
  <2>5. \A j \in 0 .. codepth' : \A h \in cotrace'[j] : E[h] = j
    BY <1>1, <1>3, <1>4, <2>1, <2>4, CoframeHandles
  <2>6. \A q \in queue' : E[q.handle] = q.colevel
    BY <1>3, <1>4, <2>1, <2>4
  <2> QED
    BY <2>5, <2>6
<1>10. CASE BlockCube
  <2>1. PICK po \in queue : queue' = (queue \ {po}) \cup Repushed(po)
    BY <1>10 DEF BlockCube
  <2>2. \A q \in Repushed(po) : q.handle = po.handle /\ q.colevel = po.colevel
    <3>1. po \in [level : 0 .. depth, colevel : Nat, handle : 1 .. Len(pool)]
      BY <1>1 DEF TypeOK
    <3> QED
      BY <3>1 DEF Repushed
  <2>3. UNCHANGED <<codepth, cotrace>>
    BY <1>10 DEF BlockCube
  <2> QED
    BY <1>3, <1>4, <2>1, <2>2, <2>3
<1> QED
  BY <1>6, <1>7, <1>8, <1>9, <1>10 DEF Next, vars, traceVars, ScanNextCoframe, NoErrorState,
     ReachedInit, DropBlocked, ObligationsSolved, PropagateTrace, NextIteration, Terminating

\* The cubes of coframe i reach an error in exactly i further steps along their
\* chains: ColevelsAreDistances, for every system.
THEOREM ColevelsCorrect == Spec => []ColevelsAreDistances
<1>1. Init => ColevelsAreDistances
  BY DEF Init, ColevelsAreDistances
<1>2. InductiveInvariant /\ InductiveInvariant' /\ ChainsReachError /\ ChainsReachError'
          /\ ColevelsAreDistances /\ [Next]_vars => ColevelsAreDistances'
  BY StepKeepsDistances
<1> QED
  BY <1>1, <1>2, InvariantHolds, ChainsHold, PTL DEF Spec

\* What NothingForgotten says of one cube.
Remembered(c) == \E j \in 0 .. codepth : \E g \in cotrace[j] : Subsumes(pool[g].state, c)

\* add_reaching_at drops a cube only for one that subsumes it.
LEMMA ReachingRemembered ==
    ASSUME TypeOK, options.cotrace, Len(pool) \in Nat, Len(pool') = Len(pool) + 1,
           \A h \in 1 .. Len(pool) : pool'[h] = pool[h],
           NEW e, pool'[Len(pool')] = e,
           NEW level \in Nat, AddReaching(Len(pool'), level)
    PROVE  \A c : Remembered(c) \/ Subsumes(e.state, c) => Remembered(c)'
<1> DEFINE n == Len(pool')
           kept(j) == IF j <= codepth THEN cotrace[j] ELSE {}
           grown(j) == IF j = level
                       THEN {g \in kept(j) : ~ Subsumes(e.state, pool[g].state)} \cup {n}
                       ELSE kept(j)
<1>1. /\ codepth \in Nat
      /\ codepth' = IF codepth < level THEN level ELSE codepth
      /\ cotrace' = [j \in 0 .. codepth' |-> grown(j)]
  BY DEF AddReaching, TypeOK
<1>2. codepth' \in Nat /\ codepth <= codepth' /\ level \in 0 .. codepth'
  BY <1>1
<1>3. n \in cotrace'[level]
  BY <1>1, <1>2
<1>4. ASSUME NEW c, Remembered(c) PROVE Remembered(c)'
  <2>1. PICK j \in 0 .. codepth : \E g \in cotrace[j] : Subsumes(pool[g].state, c)
    BY <1>4 DEF Remembered
  <2>2. PICK g \in cotrace[j] : Subsumes(pool[g].state, c)
    BY <2>1
  <2>3. g \in 1 .. Len(pool)
    BY <2>1 DEF TypeOK
  <2>4. j \in 0 .. codepth' /\ kept(j) = cotrace[j]
    BY <1>1, <1>2, <2>1
  <2> HIDE DEF kept
  <2>5. CASE g \in cotrace'[j]
    <3>1. pool'[g] = pool[g]
      BY <2>3
    <3> QED
      BY <2>2, <2>4, <2>5, <3>1 DEF Remembered
  <2>6. CASE g \notin cotrace'[j]
    <3>1. j = level /\ Subsumes(e.state, pool[g].state)
      BY <1>1, <2>2, <2>4, <2>6
    <3>2. Subsumes(e.state, c)
      BY <2>2, <3>1 DEF Subsumes
    <3> QED
      BY <1>2, <1>3, <3>2 DEF Remembered
  <2> QED
    BY <2>5, <2>6
<1>5. ASSUME NEW c, Subsumes(e.state, c) PROVE Remembered(c)'
  BY <1>2, <1>3, <1>5 DEF Remembered
<1> QED
  BY <1>4, <1>5

LEMMA StepForgetsNothing ==
    ASSUME InductiveInvariant, NothingForgotten, [Next]_vars
    PROVE  NothingForgotten'
<1>1. /\ TypeOK /\ TraceInvariant /\ QueueOK /\ Len(pool) \in Nat /\ pool \in Seq(Entries)
  BY Parts DEF TraceTypeOK
<1>2. CASE UNCHANGED <<options, pool, codepth, cotrace>>
  BY <1>2 DEF NothingForgotten
<1>3. ASSUME NEW level \in Nat, NEW e \in Entries,
             pool' = Append(pool, e), AddReaching(Len(pool'), level), UNCHANGED options
      PROVE  NothingForgotten'
  <2>1. /\ Len(pool') = Len(pool) + 1
        /\ pool'[Len(pool')] = e
        /\ \A h \in 1 .. Len(pool) : pool'[h] = pool[h]
    BY <1>1, <1>3
  <2>2. SUFFICES ASSUME options.cotrace, NEW h \in 1 .. Len(pool'), NEW c, c = pool'[h].state
                 PROVE  Remembered(c)'
    BY <1>3 DEF NothingForgotten, Remembered
  <2>3. Remembered(c) \/ Subsumes(e.state, c) => Remembered(c)'
    BY <1>1, <1>3, <2>1, <2>2, ReachingRemembered
  <2>4. CASE h \in 1 .. Len(pool)
    <3>1. c = pool[h].state
      BY <2>1, <2>2, <2>4
    <3>2. Remembered(c)
      BY <2>2, <2>4, <3>1 DEF NothingForgotten, Remembered
    <3> QED
      BY <2>3, <3>2
  <2>5. CASE h = Len(pool')
    BY <2>1, <2>2, <2>3, <2>5 DEF Subsumes
  <2>6. h \in 1 .. Len(pool) \/ h = Len(pool')
    BY <1>1, <2>1
  <2> QED
    BY <2>4, <2>5, <2>6
<1>4. CASE FindErrorState
  <2>1. PICK s \in States, x \in Inputs :
            /\ ErrorHolds(s, x)
            /\ pool' = Append(pool, [state |-> s, input |-> x, succ |-> 0])
            /\ AddReaching(Len(pool'), 0)
    BY <1>4 DEF FindErrorState
  <2>2. [state |-> s, input |-> x, succ |-> 0] \in Entries
    BY <2>1, ErrorEntry DEF Entries
  <2> QED
    BY <1>3, <1>4, <2>1, <2>2 DEF FindErrorState
<1>5. CASE AddPredecessor
  <2>1. PICK po \in queue, s \in States, t \in States, x \in Inputs :
            /\ TransHolds(s, x, t) /\ Subsumes(CubeOf(po), t)
            /\ \E p \in PredecessorCubes(s, x, CubeOf(po)) :
                   pool' = Append(pool, [state |-> p, input |-> x, succ |-> po.handle])
            /\ AddReaching(Len(pool'), po.colevel + 1)
    BY <1>5 DEF AddPredecessor, TransHoldsAt
  <2>2. PICK p \in PredecessorCubes(s, x, CubeOf(po)) :
            pool' = Append(pool, [state |-> p, input |-> x, succ |-> po.handle])
    BY <2>1
  <2>3. po.handle \in 1 .. Len(pool) /\ po.colevel + 1 \in Nat /\ system \in TransitionSystems
    BY <1>1 DEF TypeOK, TraceTypeOK
  <2>4. p \in Cubes
    BY <1>1, <2>1, <2>3, KnownEntry, PredecessorEntry DEF CubeOf
  <2>5. [state |-> p, input |-> x, succ |-> po.handle] \in Entries
    BY <1>1, <2>3, <2>4 DEF Entries
  <2> QED
    BY <1>3, <1>5, <2>1, <2>2, <2>3, <2>5 DEF AddPredecessor
<1> QED
  BY <1>2, <1>4, <1>5 DEF Next, vars, traceVars, ScanCube, ScanNextCoframe, NoErrorState,
     PushFrame, ReachedInit, DropBlocked, BlockCube, ObligationsSolved, PropagateTrace, Propagate,
     PropagateCube, FramePushed, NextFrame, EndPropagate, FindInvariant, NextIteration, Terminating

\* With the cotrace on, no state known to lead to the error is ever lost to the
\* removal of subsumed cubes.
THEOREM CotraceRemembers == Spec => []NothingForgotten
<1>1. Init => NothingForgotten
  BY DEF Init, NothingForgotten
<1>2. InductiveInvariant /\ NothingForgotten /\ [Next]_vars => NothingForgotten'
  BY StepForgetsNothing
<1> QED
  BY <1>1, <1>2, InvariantHolds, PTL DEF Spec

-----------------------------------------------------------------------------
(***************************************************************************)
(* The engine implements the abstract one.                                 *)
(***************************************************************************)

\* An obligation at level 0 begins a run to the error.
LEMMA LevelZeroUnsafe ==
    ASSUME InductiveInvariant, NEW po \in queue, po.level = 0
    PROVE  ~ Safe(system)
<1>1. Starts(po) /\ po.handle \in 1 .. Len(pool) /\ TraceInvariant
  BY DEF InductiveInvariant, TypeOK, QueueOK
<1>2. EntrySound(CubeOf(po)) /\ pool[po.handle] \in Entries
  <2>1. pool \in Seq(Entries)
    BY <1>1 DEF TraceInvariant, TraceTypeOK
  <2> QED
    BY <1>1, <2>1, KnownEntry DEF CubeOf
<1>3. SUFFICES ASSUME NEW inv \in SUBSET States, ProvesSafe(system, inv) PROVE FALSE
  BY DEF Safe
<1>4. CASE options.forward
  BY <1>1, <1>2, <1>3, <1>4 DEF Starts, EntrySound, ProvesSafe, InitialStates
<1>5. CASE ~ options.forward
  <2>1. CubeOf(po) \in inv
    BY <1>1, <1>2, <1>3, <1>5 DEF Starts, EntrySound, Subsumes
  <2>2. pool[po.handle].input \in Inputs
    BY <1>2 DEF Entries
  <2> QED
    BY <1>1, <1>3, <1>5, <2>1, <2>2 DEF Starts, ProvesSafe
<1> QED
  BY <1>4, <1>5

LEMMA StepReturns ==
    ASSUME InductiveInvariant, [Next]_vars
    PROVE  [Answer!Return]_(Answer!vars)
<1>1. TraceInvariant /\ PhasesOK
  BY DEF InductiveInvariant
<1>2. Answer!Safe(system) <=> Safe(system)
  BY DEF Answer!Safe, Safe, Answer!ProvesSafe, ProvesSafe, Answer!InitialStates,
     InitialStates, Answer!States, States, Answer!Cubes, Cubes, Answer!Literals, Literals,
     Answer!Vars, Vars, Answer!Step, Step, Answer!Bad, Bad, Answer!Subsumes, Subsumes
<1>3. CASE UNCHANGED <<system, options, result>>
  BY <1>3 DEF Answer!vars, TrustedVerdict, ErrorStepsSeen, GatesAgree
<1>4. CASE ReachedInit
  <2>1. /\ TrustedVerdict = "none" /\ TrustedVerdict' = "counterexample"
        /\ system' = system
    BY <1>1, <1>4 DEF ReachedInit, Return, PhasesOK, TrustedVerdict
  <2>2. ~ Safe(system)
    BY <1>4, LevelZeroUnsafe DEF ReachedInit
  <2> QED
    BY <1>2, <2>1, <2>2 DEF Answer!Return
<1>5. CASE PropagateTrace /\ (FramePushed \/ FindInvariant)
  <2>1. /\ pc # "done" /\ result'.verdict = "ok"
        /\ system' = system /\ options' = options
    BY <1>5 DEF FramePushed, FrameDone, Propagating, FindInvariant, Return
  <2>2. TrustedVerdict = "none"
    BY <1>1, <2>1 DEF PhasesOK, TrustedVerdict
  <2>3. ErrorStepsSeen' <=> ErrorStepsSeen
    BY <2>1 DEF ErrorStepsSeen, GatesAgree
  <2>4. CASE options.forward \/ ErrorStepsSeen
    <3>1. TrustedVerdict' = "ok"
      BY <2>1, <2>3, <2>4 DEF TrustedVerdict
    <3>2. Safe(system)
      BY <1>1, <1>5, <2>4, InvariantFound
    <3> QED
      BY <1>2, <2>1, <2>2, <3>1, <3>2 DEF Answer!Return
  <2>5. CASE ~ options.forward /\ ~ ErrorStepsSeen
    <3>1. TrustedVerdict' = "unknown"
      BY <2>1, <2>3, <2>5 DEF TrustedVerdict
    <3> QED
      BY <2>1, <2>2, <3>1 DEF Answer!Return
  <2> QED
    BY <2>4, <2>5
<1> QED
  BY <1>3, <1>4, <1>5 DEF Next, vars, traceVars, ScanCube, ScanNextCoframe, FindErrorState,
     NoErrorState, PushFrame, DropBlocked, AddPredecessor, BlockCube, ObligationsSolved,
     PropagateTrace, Propagate, PropagateCube, NextFrame, EndPropagate, NextIteration, Terminating

\* The engine implements the promise of engine::run, with any options: forward
\* without reservation, and backward as far as TrustedVerdict says.
THEOREM AnswersAreSound == Spec => AnswersSoundly
<1>1. Init => Answer!Init
  BY DEF Init, Answer!Init, TrustedVerdict
<1>2. InductiveInvariant /\ [Next]_vars => [Answer!Return]_(Answer!vars)
  BY StepReturns
<1> QED
  BY <1>1, <1>2, InvariantHolds, PTL DEF Spec, AnswersSoundly, Answer!Spec
=============================================================================
