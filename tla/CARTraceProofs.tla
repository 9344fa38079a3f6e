--------------------------- MODULE CARTraceProofs ---------------------------
(***************************************************************************)
(* Lemmas about the trace that CAR and ICAR share, for every family of     *)
(* systems and in both directions: blocking a cube, pushing a frame and    *)
(* propagating keep the trace an inductive sequence that is safe before    *)
(* its last level, new cubes of the pool lead to the error, and both ways  *)
(* to find an invariant find one.                                          *)
(***************************************************************************)
EXTENDS CARTrace, MinimalCore, TransitionSystemProofs

-----------------------------------------------------------------------------
(***************************************************************************)
(* Levels.                                                                 *)
(***************************************************************************)

\* The part of the invariant that is about the trace and the solvers alone.
TraceOK == SolversInSync /\ FramesCovered /\ StepsStayInTrace /\ TraceSafe

\* add_formula and the like leave a solver; only its being used matters to the proofs.
LEMMA AnySolver ==
    ASSUME SolversInSync, NEW sv \in Solvers, NEW i
    PROVE  R(sv, i) = R("trans", i)
BY DEF SolversInSync, R

\* Level 0 is only restricted by the initial formula.
LEMMA LevelZero ==
    ASSUME TraceTypeOK, NEW sv \in Solvers
    PROVE  R(sv, 0) = States
<1>1. \A b \in clauses[sv] : b.level # 0
  <2>1. depth \in Nat /\ clauses[sv] \subseteq Clauses(depth)
    BY DEF TraceTypeOK
  <2> QED
    BY <2>1 DEF Clauses
<1> QED
  BY <1>1 DEF R

\* The frames describe the states that every solver sees.
LEMMA FramesAgree ==
    ASSUME TraceTypeOK, SolversInSync, FramesCovered
    PROVE  SolversAgreeWithFrames
<1> SUFFICES ASSUME NEW sv \in Solvers, NEW i \in 1 .. depth
             PROVE  R(sv, i) = FrameStates(i)
  BY DEF SolversAgreeWithFrames
<1>1. R(sv, i) = R("trans", i)
  BY AnySolver
<1>2. ASSUME NEW s \in R("trans", i), NEW c \in frames[i] PROVE ~ Subsumes(c, s)
  BY <1>2 DEF R, FramesCovered
<1>3. ASSUME NEW s \in FrameStates(i), NEW b \in clauses["trans"], b.level = i
      PROVE  ~ Subsumes(b.cube, s)
  <2>1. PICK c \in frames[i] : Subsumes(c, b.cube)
    BY <1>3 DEF FramesCovered
  <2> QED
    BY <1>3, <2>1 DEF FrameStates, Subsumes
<1> QED
  BY <1>1, <1>2, <1>3 DEF R, FrameStates

(***************************************************************************)
(* add_blocked_at keeps the trace sound if the cube has no predecessor in  *)
(* the level below, and changes no other level.                            *)
(***************************************************************************)
LEMMA BlockedTrace ==
    ASSUME TraceTypeOK, TraceOK,
           NEW c \in Cubes, NEW level \in 1 .. depth, ~ HasPredecessor(c, level),
           AddBlocked(c, level), UNCHANGED <<system, options, depth>>
    PROVE  /\ frames' \in [0 .. depth' -> SUBSET Cubes]
           /\ clauses' \in [Solvers -> SUBSET Clauses(depth')]
           /\ TraceOK'
<1> DEFINE new == [level |-> level, cube |-> c]
<1>1. depth \in Nat /\ level \in Nat \ {0} /\ "trans" \in Solvers
  BY SolversAssumption DEF TraceTypeOK
<1>2. /\ frames' = [frames EXCEPT ![level] = {b \in frames[level] : ~ Subsumes(c, b)} \cup {c}]
      /\ clauses' = [sv \in Solvers |-> clauses[sv] \cup {new}]
  BY DEF AddBlocked
<1>3. frames' \in [0 .. depth' -> SUBSET Cubes]
  BY <1>1, <1>2 DEF TraceTypeOK
<1>4. new \in Clauses(depth)
  BY <1>1 DEF Clauses
<1>5. clauses' \in [Solvers -> SUBSET Clauses(depth')]
  <2>1. Clauses(depth') = Clauses(depth)
    BY DEF Clauses
  <2> HIDE DEF new
  <2> QED
    BY <1>2, <1>4, <2>1 DEF TraceTypeOK
<1>6. SolversInSync'
  BY <1>1, <1>2 DEF TraceOK, SolversInSync
<1>7. FramesCovered'
  <2>1. clauses'["trans"] = clauses["trans"] \cup {new}
    BY <1>1, <1>2
  <2>2. \A i \in 1 .. depth :
            frames'[i] = IF i = level
                         THEN {b \in frames[level] : ~ Subsumes(c, b)} \cup {c}
                         ELSE frames[i]
    BY <1>1, <1>2 DEF TraceTypeOK
  <2>3. ASSUME NEW i \in 1 .. depth', NEW d \in frames'[i]
        PROVE  [level |-> i, cube |-> d] \in clauses'["trans"]
    BY <2>1, <2>2, <2>3 DEF TraceOK, FramesCovered
  <2>4. ASSUME NEW b \in clauses'["trans"]
        PROVE  \E d \in frames'[b.level] : Subsumes(d, b.cube)
    <3>1. CASE b = new
      BY <2>2, <3>1 DEF Subsumes
    <3>2. CASE b \in clauses["trans"]
      <4>1. PICK d \in frames[b.level] : Subsumes(d, b.cube)
        BY <3>2 DEF TraceOK, FramesCovered
      <4>2. b.level \in 1 .. depth
        BY <1>1, <3>2 DEF TraceTypeOK, Clauses
      <4>3. CASE d \in frames'[b.level]
        BY <4>1, <4>3
      <4>4. CASE d \notin frames'[b.level]
        <5>1. b.level = level /\ Subsumes(c, d)
          BY <2>2, <4>1, <4>2, <4>4
        <5>2. c \in frames'[b.level]
          BY <2>2, <4>2, <5>1
        <5> QED
          BY <4>1, <5>1, <5>2 DEF Subsumes
      <4> QED
        BY <4>3, <4>4
    <3> QED
      BY <2>1, <2>4, <3>1, <3>2
  <2> QED
    BY <2>3, <2>4 DEF FramesCovered
<1>8. ASSUME NEW sv \in Solvers, NEW i, NEW s
      PROVE  s \in R(sv, i)' <=> s \in R(sv, i) /\ (i = level => ~ Subsumes(c, s))
  <2>1. clauses'[sv] = clauses[sv] \cup {new} /\ new.level = level /\ new.cube = c
    BY <1>2
  <2> HIDE DEF new
  <2> QED
    BY <2>1 DEF R
<1>9. ASSUME NEW sv \in Solvers, NEW i, NEW s, NEW x, InLevel(sv, i, s, x)'
      PROVE  InLevel(sv, i, s, x)
  BY <1>8, <1>9 DEF InLevel, InitHolds
<1>10. StepsStayInTrace'
  <2>1. SUFFICES ASSUME NEW sv \in Solvers, NEW i \in 0 .. depth - 1,
                        NEW s \in States, NEW t \in States, NEW x \in Inputs,
                        InLevel(sv, i, s, x)', TransHoldsAt(i, s, x, t)'
                 PROVE  t \in R(sv, i + 1)'
    BY DEF StepsStayInTrace
  <2>2. InLevel(sv, i, s, x) /\ TransHoldsAt(i, s, x, t)
    BY <1>9, <2>1 DEF TransHoldsAt, GatesAgree, TransHolds
  <2>3. t \in R(sv, i + 1)
    BY <2>2 DEF TraceOK, StepsStayInTrace
  <2>4. i + 1 = level => ~ Subsumes(c, t)
    <3>1. SUFFICES ASSUME i + 1 = level PROVE ~ Subsumes(c, t)
      OBVIOUS
    <3>2. i = level - 1
      BY <1>1, <3>1
    <3>3. InLevel("trans", level - 1, s, x)
      BY <2>2, <3>2, AnySolver DEF TraceOK, InLevel
    <3>4. TransHoldsAt(level - 1, s, x, t)
      BY <2>2, <3>2
    <3> QED
      BY <3>3, <3>4 DEF HasPredecessor
  <2> QED
    BY <1>8, <2>3, <2>4
<1>11. TraceSafe'
  BY <1>9 DEF TraceOK, TraceSafe, ErrorHolds
<1> QED
  BY <1>3, <1>5, <1>6, <1>7, <1>10, <1>11 DEF TraceOK

-----------------------------------------------------------------------------
(***************************************************************************)
(* The steps of the trace keep its invariant.                              *)
(***************************************************************************)

LEMMA TraceKept ==
    ASSUME TraceOK, UNCHANGED <<system, options, depth, trace>>
    PROVE  TraceOK'
<1>1. UNCHANGED <<system, options, depth, frames, clauses>>
  BY DEF trace
<1>2. \A sv \in Solvers : \A i, s, x : InLevel(sv, i, s, x)' <=> InLevel(sv, i, s, x)
  BY <1>1 DEF InLevel, R, InitHolds
<1>3. \A sv \in Solvers : \A i : R(sv, i)' = R(sv, i)
  BY <1>1 DEF R
<1>4. SolversInSync' /\ FramesCovered'
  BY <1>1 DEF TraceOK, SolversInSync, FramesCovered
<1>5. StepsStayInTrace'
  BY <1>1, <1>2, <1>3 DEF TraceOK, StepsStayInTrace, TransHoldsAt, GatesAgree, TransHolds
<1>6. TraceSafe'
  BY <1>1, <1>2 DEF TraceOK, TraceSafe, ErrorHolds
<1> QED
  BY <1>4, <1>5, <1>6 DEF TraceOK

LEMMA EntriesKept ==
    ASSUME EntriesSound, UNCHANGED <<system, options, pool>>
    PROVE  EntriesSound'
BY DEF EntriesSound

LEMMA InvariantParts ==
    ASSUME TraceInvariant
    PROVE  TraceTypeOK /\ TraceOK /\ PushedCovered /\ EntriesSound
BY DEF TraceInvariant, TraceOK

\* A step that is about neither the trace nor the pool, and does not propagate.
LEMMA QuietInvariant ==
    ASSUME TraceInvariant, TraceTypeOK', pc' # "propagate",
           UNCHANGED <<system, options, depth, trace, pool>>
    PROVE  TraceInvariant'
<1>1. TraceOK' /\ EntriesSound'
  BY InvariantParts, TraceKept, EntriesKept
<1>2. PushedCovered'
  BY DEF PushedCovered
<1> QED
  BY <1>1, <1>2 DEF TraceInvariant, TraceOK

\* A cube is blocked while obligations are solved.
LEMMA BlockInvariant ==
    ASSUME TraceInvariant, pc' # "propagate",
           NEW c \in Cubes, NEW level \in 1 .. depth, ~ HasPredecessor(c, level),
           AddBlocked(c, level), UNCHANGED <<system, options, depth, pool, pushing, result>>
    PROVE  TraceInvariant'
<1>1. TraceTypeOK /\ TraceOK /\ EntriesSound
  BY InvariantParts
<1>2. /\ frames' \in [0 .. depth' -> SUBSET Cubes]
      /\ clauses' \in [Solvers -> SUBSET Clauses(depth')]
      /\ TraceOK'
  BY <1>1, BlockedTrace
<1>3. TraceTypeOK'
  BY <1>1, <1>2 DEF TraceTypeOK
<1>4. EntriesSound' /\ PushedCovered'
  BY <1>1, EntriesKept DEF PushedCovered
<1> QED
  BY <1>2, <1>3, <1>4 DEF TraceInvariant, TraceOK

\* The last level has no error state in one solver, and so in none.
LEMMA PushFrameInvariant ==
    ASSUME TraceInvariant, PushFrame,
           NEW sv \in Solvers,
           \A s \in States, x \in Inputs : InLevel(sv, depth, s, x) => ~ ErrorHolds(s, x)
    PROVE  TraceInvariant'
<1>1. TraceTypeOK /\ TraceOK /\ EntriesSound
  BY InvariantParts
<1>2. /\ depth \in Nat /\ depth' = depth + 1
      /\ frames' = [d \in 0 .. depth + 1 |-> IF d <= depth THEN frames[d] ELSE {}]
      /\ UNCHANGED <<system, options, clauses, pool, result>>
  BY <1>1 DEF PushFrame, TraceTypeOK
<1>3. \A i \in 0 .. depth : frames'[i] = frames[i]
  BY <1>2
<1>4. frames'[depth + 1] = {}
  BY <1>2
<1>5. \A b \in clauses["trans"] : b.level \in 1 .. depth
  BY <1>1, SolversAssumption DEF TraceTypeOK, Clauses
<1>6. TraceTypeOK'
  <2>1. frames' \in [0 .. depth' -> SUBSET Cubes]
    BY <1>1, <1>2 DEF TraceTypeOK
  <2>2. clauses' \in [Solvers -> SUBSET Clauses(depth')]
    <3>1. Clauses(depth) \subseteq Clauses(depth')
      BY <1>2 DEF Clauses
    <3> QED
      BY <1>1, <1>2, <3>1 DEF TraceTypeOK
  <2>3. pushing' \in [level : Nat \ {0}, todo : SUBSET Cubes, all : BOOLEAN]
    <3>1. frames'[1] \in SUBSET Cubes
      BY <1>2, <2>1
    <3> QED
      BY <3>1 DEF PushFrame, Frontier
  <2> QED
    BY <1>1, <1>2, <2>1, <2>2, <2>3 DEF TraceTypeOK
<1>7. SolversInSync'
  BY <1>1, <1>2 DEF TraceOK, SolversInSync
<1>8. FramesCovered'
  <2>1. ASSUME NEW i \in 1 .. depth', NEW c \in frames'[i]
        PROVE  [level |-> i, cube |-> c] \in clauses'["trans"]
    <3>1. i \in 1 .. depth
      BY <1>2, <1>4, <2>1
    <3> QED
      BY <1>1, <1>2, <1>3, <2>1, <3>1 DEF TraceOK, FramesCovered
  <2>2. ASSUME NEW b \in clauses'["trans"]
        PROVE  \E c \in frames'[b.level] : Subsumes(c, b.cube)
    <3>1. b \in clauses["trans"] /\ b.level \in 0 .. depth
      BY <1>2, <1>5
    <3> QED
      BY <1>1, <1>3, <3>1 DEF TraceOK, FramesCovered
  <2> QED
    BY <2>1, <2>2 DEF FramesCovered
<1>9. \A v \in Solvers : \A i : R(v, i)' = R(v, i)
  BY <1>2 DEF R
<1>10. \A v \in Solvers : \A i, s, x : InLevel(v, i, s, x)' <=> InLevel(v, i, s, x)
  BY <1>2, <1>9 DEF InLevel, InitHolds
<1>11. StepsStayInTrace'
  <2>1. SUFFICES ASSUME NEW v \in Solvers, NEW i \in 0 .. depth,
                        NEW s \in States, NEW t \in States, NEW x \in Inputs,
                        InLevel(v, i, s, x), TransHoldsAt(i, s, x, t)
                 PROVE  t \in R(v, i + 1)
    BY <1>2, <1>9, <1>10 DEF StepsStayInTrace, TransHoldsAt, GatesAgree, TransHolds
  <2>2. CASE i \in 0 .. depth - 1
    BY <1>1, <2>1, <2>2 DEF TraceOK, StepsStayInTrace
  <2>3. CASE i = depth
    <3>1. \A b \in clauses[v] : b.level # i + 1
      BY <1>1, <1>2, <1>5, <2>3 DEF TraceOK, SolversInSync
    <3> QED
      BY <3>1 DEF R
  <2> QED
    BY <1>2, <2>2, <2>3
<1>12. TraceSafe'
  <2>1. SUFFICES ASSUME NEW v \in Solvers, NEW i \in 0 .. depth,
                        NEW s \in States, NEW x \in Inputs, InLevel(v, i, s, x)
                 PROVE  ~ ErrorHolds(s, x)
    BY <1>2, <1>10 DEF TraceSafe, ErrorHolds
  <2>2. CASE i \in 0 .. depth - 1
    BY <1>1, <2>1, <2>2 DEF TraceOK, TraceSafe
  <2>3. CASE i = depth
    <3>1. InLevel(sv, depth, s, x)
      BY <1>1, <2>1, <2>3, AnySolver DEF TraceOK, InLevel
    <3> QED
      BY <3>1
  <2> QED
    BY <1>2, <2>2, <2>3
<1>13. PushedCovered'
  <2>1. pushing' = [level |-> 1, todo |-> frames'[1], all |-> TRUE] /\ 1 \in 1 .. depth'
    BY <1>2 DEF PushFrame, Frontier
  <2> QED
    BY <2>1 DEF PushedCovered
<1>14. EntriesSound'
  BY <1>1, <1>2, EntriesKept
<1> QED
  BY <1>6, <1>7, <1>8, <1>11, <1>12, <1>13, <1>14 DEF TraceInvariant

LEMMA PropagateCubeInvariant ==
    ASSUME TraceInvariant, PropagateCube
    PROVE  TraceInvariant'
<1>1. TraceTypeOK /\ TraceOK /\ PushedCovered /\ EntriesSound
  BY InvariantParts
<1> DEFINE n == pushing.level
<1>2. /\ pc = "propagate" /\ pc' = "propagate" /\ n < depth
      /\ UNCHANGED <<system, options, depth, pool, result>>
  BY DEF PropagateCube, Propagating
<1>3. PICK c \in pushing.todo : KeepCube(c) \/ PushCube(c)
  BY DEF PropagateCube
<1>4. /\ depth \in Nat /\ n \in 1 .. depth /\ n + 1 \in 1 .. depth
      /\ pushing.todo \subseteq frames[n] /\ pushing.all \in BOOLEAN
      /\ pushing = [level |-> n, todo |-> pushing.todo, all |-> pushing.all]
  BY <1>1, <1>2 DEF TraceTypeOK, PushedCovered
<1>5. /\ c \in Cubes /\ pushing.todo \in SUBSET Cubes
      /\ pushing \in [level : Nat \ {0}, todo : SUBSET Cubes, all : BOOLEAN]
  BY <1>1, <1>4 DEF TraceTypeOK
<1> HIDE DEF n
<1>6. EntriesSound'
  BY <1>1, <1>2, EntriesKept
<1>7. CASE KeepCube(c)
  <2>1. /\ pushing' = [level |-> n, todo |-> pushing.todo \ {c}, all |-> FALSE]
        /\ UNCHANGED trace
    BY <1>5, <1>7 DEF KeepCube, n
  <2>2. TraceOK'
    BY <1>1, <1>2, <2>1, TraceKept
  <2>3. TraceTypeOK'
    <3>1. pushing' \in [level : Nat \ {0}, todo : SUBSET Cubes, all : BOOLEAN]
      BY <1>4, <1>5, <2>1
    <3> QED
      BY <1>1, <1>2, <2>1, <3>1 DEF TraceTypeOK, trace
  <2>4. PushedCovered'
    BY <1>2, <1>4, <2>1 DEF PushedCovered, trace
  <2> QED
    BY <1>6, <2>2, <2>3, <2>4 DEF TraceInvariant, TraceOK
<1>8. CASE PushCube(c)
  <2>1. PICK part \in SUBSET c : AddBlocked(part, n + 1) /\ ~ HasPredecessor(part, n + 1)
    <3>1. CASE options.propagateCores
      BY <1>8, <3>1 DEF PushCube, BlockedCores, n
    <3>2. CASE ~ options.propagateCores
      BY <1>8, <3>2 DEF PushCube, n
    <3> QED
      BY <3>1, <3>2
  <2>2. part \in Cubes
    BY <1>5, SubCube
  <2>3. pushing' = [level |-> n, todo |-> pushing.todo \ {c}, all |-> pushing.all]
    BY <1>5, <1>8 DEF PushCube, n
  <2>4. /\ frames' \in [0 .. depth' -> SUBSET Cubes]
        /\ clauses' \in [Solvers -> SUBSET Clauses(depth')]
        /\ TraceOK'
    BY <1>1, <1>2, <1>4, <2>1, <2>2, BlockedTrace
  <2>5. TraceTypeOK'
    <3>1. pushing' \in [level : Nat \ {0}, todo : SUBSET Cubes, all : BOOLEAN]
      BY <1>4, <1>5, <2>3
    <3> QED
      BY <1>1, <1>2, <2>4, <3>1 DEF TraceTypeOK
  <2>6. PushedCovered'
    <3>1. frames'[n] = frames[n]
      BY <1>1, <1>4, <2>1 DEF AddBlocked, TraceTypeOK
    <3>2. clauses'["trans"] = clauses["trans"] \cup {[level |-> n + 1, cube |-> part]}
      BY <2>1, SolversAssumption DEF AddBlocked
    <3>3. ASSUME pushing.all, NEW d \in frames[n] \ (pushing.todo \ {c})
          PROVE  \E b \in clauses'["trans"] : b.level = n + 1 /\ Subsumes(b.cube, d)
      <4>1. CASE d = c
        <5>1. [level |-> n + 1, cube |-> part] \in clauses'["trans"]
          BY <3>2
        <5> QED
          BY <4>1, <5>1 DEF Subsumes
      <4>2. CASE d # c
        BY <1>1, <1>2, <3>2, <3>3, <4>2 DEF PushedCovered, n
      <4> QED
        BY <4>1, <4>2
    <3> QED
      BY <1>2, <1>4, <2>3, <3>1, <3>3 DEF PushedCovered
  <2> QED
    BY <1>6, <2>4, <2>5, <2>6 DEF TraceInvariant, TraceOK
<1> QED
  BY <1>3, <1>7, <1>8

LEMMA NextFrameInvariant ==
    ASSUME TraceInvariant, NextFrame
    PROVE  TraceInvariant'
<1>1. TraceTypeOK /\ TraceOK /\ EntriesSound
  BY InvariantParts
<1>2. /\ pushing.level \in Nat \ {0} /\ pushing.level < depth /\ depth \in Nat
      /\ pushing' = [level |-> pushing.level + 1, todo |-> frames[pushing.level + 1], all |-> TRUE]
      /\ UNCHANGED <<system, options, depth, trace, pool, pc, result>>
  BY <1>1 DEF NextFrame, FrameDone, Propagating, TraceTypeOK
<1>3. TraceOK' /\ EntriesSound'
  BY <1>1, <1>2, TraceKept, EntriesKept
<1>4. TraceTypeOK'
  <2>1. frames[pushing.level + 1] \in SUBSET Cubes
    BY <1>1, <1>2 DEF TraceTypeOK
  <2>2. pushing' \in [level : Nat \ {0}, todo : SUBSET Cubes, all : BOOLEAN]
    BY <1>2, <2>1
  <2> QED
    BY <1>1, <1>2, <2>2 DEF TraceTypeOK, trace
<1>5. PushedCovered'
  BY <1>2 DEF PushedCovered, trace
<1> QED
  BY <1>3, <1>4, <1>5 DEF TraceInvariant, TraceOK

LEMMA PropagateInvariant ==
    ASSUME TraceInvariant, Propagate
    PROVE  TraceInvariant'
<1>1. TraceTypeOK
  BY InvariantParts
<1>2. ASSUME Return([verdict |-> "ok", handle |-> 0]),
             UNCHANGED <<system, options, depth, trace, pool, pushing>>
      PROVE  TraceInvariant'
  <2>1. Len(pool) \in Nat
    BY <1>1 DEF TraceTypeOK
  <2>2. TraceTypeOK' /\ pc' # "propagate"
    BY <1>1, <1>2, <2>1 DEF TraceTypeOK, Return, trace
  <2> QED
    BY <1>2, <2>2, QuietInvariant
<1>3. CASE EndPropagate
  <2>1. TraceTypeOK' /\ pc' # "propagate"
    BY <1>1, <1>3 DEF EndPropagate, TraceTypeOK, NoPushing, trace
  <2> QED
    BY <1>3, <2>1, QuietInvariant DEF EndPropagate
<1> QED
  BY <1>2, <1>3, PropagateCubeInvariant, NextFrameInvariant
     DEF Propagate, FramePushed, FindInvariant

-----------------------------------------------------------------------------
(***************************************************************************)
(* New cubes of the pool.                                                  *)
(***************************************************************************)

\* What EntriesSound says of one cube.
EntrySound(c) ==
    \A inv \in SUBSET States :
        ProvesSafe(system, inv) =>
            \A s \in States : Subsumes(c, s) => (s \in inv <=> ~ options.forward)

\* What ChainsReachError says of one entry, the one it leads to being succ.
Reaches(e, succ) ==
    \A s \in States : Subsumes(e.state, s) =>
        IF e.succ = 0 THEN ErrorHolds(s, e.input)
        ELSE \E t \in States : Subsumes(succ.state, t) /\ TransHolds(s, e.input, t)

LEMMA ErrorEntry ==
    ASSUME NEW s \in States, NEW x \in Inputs, ErrorHolds(s, x)
    PROVE  /\ s \in Cubes
           /\ EntrySound(s)
           /\ \A succ : Reaches([state |-> s, input |-> x, succ |-> 0], succ)
<1>1. s \in Cubes
  BY DEF States
<1>2. ASSUME NEW t \in States, Subsumes(s, t) PROVE ErrorHolds(t, x)
  BY <1>2, StateMaximal
<1>3. EntrySound(s)
  BY <1>2 DEF EntrySound, ErrorHolds, ProvesSafe, InitialStates
<1> QED
  BY <1>1, <1>2, <1>3 DEF Reaches

LEMMA PredecessorEntry ==
    ASSUME NEW c, EntrySound(c), system \in TransitionSystems,
           NEW s \in States, NEW t \in States, NEW x \in Inputs,
           TransHolds(s, x, t), Subsumes(c, t),
           NEW p \in PredecessorCubes(s, x, c)
    PROVE  /\ p \in Cubes /\ Subsumes(p, s)
           /\ options.forward \/ p = s
           /\ EntrySound(p)
           /\ \A h \in Nat \ {0} : \A succ :
                  succ.state = c => Reaches([state |-> p, input |-> x, succ |-> h], succ)
<1>0. s \in Cubes
  BY DEF States
<1>1. \A r \in States : Step(system, r, x) \in States
  BY DEF TransitionSystems, Step
<1>2. CASE options.forward
  <2>1. p \in SUBSET s /\ StepsInto(p, x, c)
    BY <1>2 DEF PredecessorCubes
  <2>2. ASSUME NEW r \in States, Subsumes(p, r)
        PROVE  /\ Step(system, r, x) \in States
               /\ Subsumes(c, Step(system, r, x))
               /\ TransHolds(r, x, Step(system, r, x))
    BY <1>1, <1>2, <2>1, <2>2 DEF StepsInto, TransHolds
  <2>3. EntrySound(p)
    BY <1>2, <2>2 DEF EntrySound, ProvesSafe
  <2>4. ASSUME NEW h \in Nat \ {0}, NEW succ, succ.state = c
        PROVE  Reaches([state |-> p, input |-> x, succ |-> h], succ)
    BY <2>2, <2>4 DEF Reaches
  <2> QED
    BY <1>0, <1>2, <2>1, <2>3, <2>4, SubCube DEF Subsumes
<1>3. CASE ~ options.forward
  <2>1. p = s /\ s = Step(system, t, x)
    BY <1>3 DEF PredecessorCubes, TransHolds
  <2>2. ASSUME NEW r \in States, Subsumes(p, r) PROVE r = s
    BY <2>1, <2>2, StateMaximal
  <2>3. EntrySound(p)
    BY <1>3, <2>1, <2>2 DEF EntrySound, ProvesSafe
  <2>4. ASSUME NEW h \in Nat \ {0}, NEW succ, succ.state = c
        PROVE  Reaches([state |-> p, input |-> x, succ |-> h], succ)
    BY <2>2, <2>4 DEF Reaches
  <2> QED
    BY <1>0, <2>1, <2>3, <2>4 DEF Subsumes
<1> QED
  BY <1>2, <1>3

\* An entry that is sound joins the pool while obligations are solved.
LEMMA EntryInvariant ==
    ASSUME TraceInvariant, pc' # "propagate",
           NEW e \in Entries,
           pool' = Append(pool, e), EntrySound(e.state),
           UNCHANGED <<system, options, depth, trace, pushing, result>>
    PROVE  /\ TraceInvariant'
           /\ Len(pool') = Len(pool) + 1
           /\ pool'[Len(pool')] = e
           /\ \A h \in 1 .. Len(pool) : pool'[h] = pool[h]
<1>1. TraceTypeOK /\ TraceOK /\ EntriesSound
  BY InvariantParts
<1>2. /\ pool \in Seq(Entries)
      /\ Len(pool) \in Nat
  BY <1>1 DEF TraceTypeOK
<1>3. /\ pool' \in Seq(Entries)
      /\ Len(pool') = Len(pool) + 1
      /\ pool'[Len(pool')] = e
      /\ \A h \in 1 .. Len(pool) : pool'[h] = pool[h]
  BY <1>2
<1>4. TraceTypeOK'
  <2>1. result' \in [verdict : {"none", "ok", "counterexample"}, handle : 0 .. Len(pool')]
    <3>1. 0 .. Len(pool) \subseteq 0 .. Len(pool')
      BY <1>2, <1>3
    <3> QED
      BY <1>1, <3>1 DEF TraceTypeOK
  <2> QED
    BY <1>1, <1>3, <2>1 DEF TraceTypeOK, trace
<1>5. TraceOK'
  BY <1>1, TraceKept
<1>6. EntriesSound'
  <2>1. SUFFICES ASSUME NEW h \in 1 .. Len(pool')
                 PROVE  EntrySound(pool'[h].state)
    BY DEF EntriesSound, EntrySound
  <2>2. CASE h \in 1 .. Len(pool)
    BY <1>1, <1>3, <2>2 DEF EntriesSound, EntrySound
  <2>3. CASE h = Len(pool')
    BY <1>3, <2>3
  <2> QED
    BY <1>2, <1>3, <2>2, <2>3
<1>7. PushedCovered'
  BY DEF PushedCovered
<1> QED
  BY <1>3, <1>4, <1>5, <1>6, <1>7 DEF TraceInvariant, TraceOK

\* A known entry is sound.
LEMMA KnownEntry ==
    ASSUME TraceInvariant, NEW h \in 1 .. Len(pool)
    PROVE  pool[h].state \in Cubes /\ EntrySound(pool[h].state)
<1>1. pool \in Seq(Entries)
  BY DEF TraceInvariant, TraceTypeOK
<1>2. pool[h] \in Entries
  BY <1>1
<1>3. EntrySound(pool[h].state)
  BY DEF TraceInvariant, EntriesSound, EntrySound
<1> QED
  BY <1>2, <1>3 DEF Entries

\* The chains of the pool stay chains when it grows by one entry.
LEMMA ChainsGrow ==
    ASSUME ChainsReachError, pool \in Seq(Entries),
           NEW e \in Entries,
           pool' = Append(pool, e), e.succ \in 0 .. Len(pool),
           Reaches(e, pool[e.succ]), UNCHANGED <<system, options>>
    PROVE  ChainsReachError'
<1>1. Len(pool) \in Nat /\ Len(pool') = Len(pool) + 1 /\ pool'[Len(pool')] = e
  OBVIOUS
<1>2. \A h \in 1 .. Len(pool) : pool'[h] = pool[h]
  OBVIOUS
<1>3. \A s, t, x : /\ ErrorHolds(s, x)' <=> ErrorHolds(s, x)
                   /\ TransHolds(s, x, t)' <=> TransHolds(s, x, t)
  BY DEF ErrorHolds, TransHolds
<1>4. SUFFICES ASSUME NEW h \in 1 .. Len(pool')
               PROVE  pool'[h].succ < h /\ Reaches(pool'[h], pool'[pool'[h].succ])
  BY <1>3 DEF ChainsReachError, Reaches
<1>5. CASE h \in 1 .. Len(pool)
  <2>1. pool[h].succ < h /\ Reaches(pool[h], pool[pool[h].succ])
    BY <1>5 DEF ChainsReachError, Reaches
  <2>0. pool[h] \in Entries
    BY <1>5
  <2>2. pool[h].succ # 0 => pool'[pool[h].succ] = pool[pool[h].succ]
    BY <1>1, <1>2, <1>5, <2>0, <2>1 DEF Entries
  <2> QED
    BY <1>2, <1>5, <2>1, <2>2 DEF Reaches
<1>6. CASE h = Len(pool')
  <2>1. pool'[h].succ < h
    BY <1>1, <1>6
  <2>2. e.succ # 0 => pool'[e.succ] = pool[e.succ]
    BY <1>2
  <2> QED
    BY <1>1, <1>6, <2>1, <2>2 DEF Reaches
<1>7. h \in 1 .. Len(pool) \/ h = Len(pool')
  BY <1>1
<1> QED
  BY <1>5, <1>6, <1>7

-----------------------------------------------------------------------------
(***************************************************************************)
(* What propagate and is_inductive conclude.                               *)
(***************************************************************************)

\* The union of the levels up to n.
Union(n) ==
    {s \in States :
        \/ IF options.forward THEN s \in InitialStates(system)
                              ELSE \E x \in Inputs : Bad(system, s, x)
        \/ \E i \in 1 .. n : s \in R("trans", i)}

(***************************************************************************)
(* If the union of some levels holds the next one, no step of the system   *)
(* the engine runs on leaves it: forward the union proves safety, backward *)
(* its complement does, provided level 0 hides no step into a bad state.   *)
(***************************************************************************)
LEMMA ClosedUnionProvesSafe ==
    ASSUME TraceInvariant, NEW n \in 0 .. depth - 1, R("trans", n + 1) \subseteq Union(n),
           options.forward \/ ErrorStepsSeen
    PROVE  Safe(system)
<1>1. /\ TraceTypeOK /\ StepsStayInTrace /\ TraceSafe
      /\ "trans" \in Solvers /\ depth \in Nat /\ n \in Nat
      /\ system \in TransitionSystems
  BY SolversAssumption DEF TraceInvariant, TraceTypeOK
<1>2. \A s \in States, x \in Inputs : Step(system, s, x) \in States
  BY <1>1 DEF TransitionSystems, Step
<1>3. \A s \in States, x \in Inputs : InLevel("trans", 0, s, x) <=> InitHolds(s, x)
  BY <1>1, LevelZero DEF InLevel
<1>4. \A i \in 1 .. n : \A s, x : InLevel("trans", i, s, x) <=> s \in R("trans", i)
  BY <1>1 DEF InLevel
<1>5. ASSUME NEW i \in 0 .. n, NEW s \in States, NEW t \in States, NEW x \in Inputs,
             InLevel("trans", i, s, x), TransHoldsAt(i, s, x, t)
      PROVE  t \in Union(n)
  <2>1. i \in 0 .. depth - 1
    BY <1>1
  <2>2. t \in R("trans", i + 1)
    BY <1>1, <1>5, <2>1 DEF StepsStayInTrace
  <2>3. i + 1 \in 1 .. n \/ i + 1 = n + 1
    BY <1>1
  <2> QED
    BY <2>2, <2>3 DEF Union
<1>6. ASSUME NEW i \in 0 .. n, NEW s \in States, NEW x \in Inputs, InLevel("trans", i, s, x)
      PROVE  ~ ErrorHolds(s, x)
  <2>1. i \in 0 .. depth - 1
    BY <1>1
  <2> QED
    BY <1>1, <1>6, <2>1 DEF TraceSafe
<1>7. Union(n) \in SUBSET States /\ 1 .. n \subseteq 0 .. n /\ 0 \in 0 .. n
  BY <1>1 DEF Union
<1>8. CASE options.forward
  <2>1. ASSUME NEW s \in Union(n), NEW x \in Inputs
        PROVE  \E i \in 0 .. n : InLevel("trans", i, s, x)
    BY <1>3, <1>4, <1>7, <1>8 DEF Union, InitHolds, InitialStates
  <2>2. InitialStates(system) \subseteq Union(n)
    BY <1>8 DEF Union, InitialStates
  <2>3. ASSUME NEW s \in Union(n), NEW x \in Inputs
        PROVE  Step(system, s, x) \in Union(n) /\ ~ Bad(system, s, x)
    BY <1>2, <1>5, <1>6, <1>7, <1>8, <2>1 DEF TransHoldsAt, TransHolds, ErrorHolds
  <2>4. ProvesSafe(system, Union(n))
    BY <2>2, <2>3 DEF ProvesSafe
  <2> QED
    BY <1>7, <2>4 DEF Safe
<1>9. CASE ~ options.forward
  <2>1. ASSUME NEW s \in Union(n), NEW x \in Inputs
        PROVE  \E i \in 0 .. n, y \in Inputs : InLevel("trans", i, s, y)
    BY <1>3, <1>4, <1>7, <1>9 DEF Union, InitHolds
  <2> DEFINE inv == IF Inputs = {} THEN States ELSE States \ Union(n)
  <2>2. InitialStates(system) \subseteq inv
    BY <1>6, <1>9, <2>1 DEF InitialStates, ErrorHolds
  <2>3. ASSUME NEW s \in inv, NEW x \in Inputs
        PROVE  Step(system, s, x) \in inv /\ ~ Bad(system, s, x)
    <3>1. s \in States /\ s \notin Union(n)
      BY <2>3
    <3>2. ~ Bad(system, s, x)
      BY <1>9, <3>1 DEF Union
    <3>3. PICK u \in States : u = Step(system, s, x) /\ TransHolds(u, x, s)
      BY <1>2, <1>9, <3>1 DEF TransHolds
    <3>4. \A i \in 1 .. n : u \notin R("trans", i)
      <4>1. \A i \in 1 .. n : i \in 0 .. n /\ i # 0
        BY <1>1
      <4> QED
        BY <1>4, <1>5, <3>1, <3>3, <4>1 DEF TransHoldsAt
    <3>5. ~ \E y \in Inputs : Bad(system, u, y)
      <4>1. SUFFICES ASSUME NEW y \in Inputs, Bad(system, u, y) PROVE FALSE
        OBVIOUS
      <4>2. Bad(system, u, x) /\ GatesAgree(u, x, s)
        BY <1>9, <3>1, <3>3, <4>1 DEF ErrorStepsSeen
      <4>3. InLevel("trans", 0, u, x) /\ TransHoldsAt(0, u, x, s)
        BY <1>3, <1>9, <3>3, <4>2 DEF InitHolds, TransHoldsAt
      <4> QED
        BY <1>5, <1>7, <3>1, <4>3
    <3>6. u \notin Union(n)
      BY <1>9, <3>4, <3>5 DEF Union
    <3> QED
      BY <3>2, <3>3, <3>6
  <2>4. inv \in SUBSET States /\ ProvesSafe(system, inv)
    BY <2>2, <2>3 DEF ProvesSafe, InitialStates
  <2> QED
    BY <2>4 DEF Safe
<1> QED
  BY <1>8, <1>9

\* A frame all of whose cubes were pushed, or a level inside the union of the
\* ones before it, shows the system to be safe.
LEMMA InvariantFound ==
    ASSUME TraceInvariant, FramePushed \/ FindInvariant,
           options.forward \/ ErrorStepsSeen
    PROVE  Safe(system)
<1>1. TraceTypeOK /\ SolversInSync /\ FramesCovered /\ PushedCovered /\ depth \in Nat
  BY DEF TraceInvariant, TraceTypeOK
<1>2. \A i \in 1 .. depth : R("trans", i) = FrameStates(i)
  BY <1>1, FramesAgree, SolversAssumption DEF SolversAgreeWithFrames
<1>3. CASE FramePushed
  <2> DEFINE n == pushing.level
  <2>1. /\ n \in 1 .. depth - 1 /\ n + 1 \in 1 .. depth
        /\ \A c \in frames[n] : \E b \in clauses["trans"] :
               b.level = n + 1 /\ Subsumes(b.cube, c)
    BY <1>1, <1>3 DEF FramePushed, FrameDone, Propagating, PushedCovered
  <2>2. ASSUME NEW s \in R("trans", n + 1), NEW c \in frames[n] PROVE ~ Subsumes(c, s)
    <3>1. PICK b \in clauses["trans"] : b.level = n + 1 /\ Subsumes(b.cube, c)
      BY <2>1
    <3> QED
      BY <2>2, <3>1 DEF R, Subsumes
  <2>3. R("trans", n + 1) \subseteq R("trans", n)
    <3>1. n \in 1 .. depth /\ R("trans", n + 1) \subseteq States
      BY <1>1, <2>1 DEF R
    <3>2. R("trans", n) = FrameStates(n)
      BY <1>2, <3>1
    <3> QED
      BY <2>2, <3>1, <3>2 DEF FrameStates
  <2>4. R("trans", n + 1) \subseteq Union(n)
    <3>1. n \in 1 .. n
      BY <2>1
    <3> QED
      BY <2>3, <3>1 DEF Union, R
  <2>5. n \in 0 .. depth - 1
    BY <2>1
  <2> QED
    BY <2>4, <2>5, ClosedUnionProvesSafe
<1>4. CASE FindInvariant
  <2>1. PICK i \in 1 .. depth : \A s \in FrameStates(i) :
            KnownInitial(s) \/ \E j \in 1 .. i - 1 : s \in FrameStates(j)
    BY <1>4 DEF FindInvariant, IsInductive
  <2> DEFINE n == i - 1
  <2>2. n \in 0 .. depth - 1 /\ n + 1 = i /\ 1 .. n \subseteq 1 .. depth
    BY <1>1
  <2>3. R("trans", n + 1) \subseteq Union(n)
    BY <1>2, <2>1, <2>2 DEF Union, KnownInitial, InitialStates, R
  <2> QED
    BY <2>2, <2>3, ClosedUnionProvesSafe
<1> QED
  BY <1>3, <1>4

-----------------------------------------------------------------------------
(***************************************************************************)
(* The counterexample that the engines report.                             *)
(***************************************************************************)

\* Backward no cube is generalized.
BackwardStates == ~ options.forward => \A h \in 1 .. Len(pool) : pool[h].state \in States

\* A returned counterexample names an entry that lies in what level 0 stands for.
ReportStarts ==
    result.verdict = "counterexample" =>
        /\ result.handle \in 1 .. Len(pool)
        /\ IF options.forward
           THEN \E s \in InitialStates(system) : Subsumes(pool[result.handle].state, s)
           ELSE Bad(system, pool[result.handle].state, pool[result.handle].input)

CounterexampleInvariant == ChainsReachError /\ BackwardStates /\ ReportStarts

\* What a new entry of the pool is like, from an error state or a predecessor.
NewEntry(e) ==
    /\ e \in Entries /\ e.succ \in 0 .. Len(pool)
    /\ Reaches(e, pool[e.succ])
    /\ options.forward \/ e.state \in States

\* The entry of an error state, as find_error_state makes it.
LEMMA NewErrorEntry ==
    ASSUME TraceTypeOK, NEW s \in States, NEW x \in Inputs, ErrorHolds(s, x)
    PROVE  NewEntry([state |-> s, input |-> x, succ |-> 0])
<1> DEFINE e == [state |-> s, input |-> x, succ |-> 0]
<1>1. s \in Cubes /\ Reaches(e, pool[e.succ])
  BY ErrorEntry
<1>2. e \in Entries /\ e.succ = 0 /\ e.state = s
  BY <1>1 DEF Entries
<1>3. 0 \in 0 .. Len(pool)
  BY DEF TraceTypeOK
<1> HIDE DEF e
<1>4. NewEntry(e)
  BY <1>1, <1>2, <1>3 DEF NewEntry
<1> QED
  BY <1>4 DEF e

\* The entry of a predecessor, as get_predecessor makes it.
LEMMA NewPredecessorEntry ==
    ASSUME TraceInvariant, NEW h \in 1 .. Len(pool),
           NEW s \in States, NEW t \in States, NEW x \in Inputs,
           TransHolds(s, x, t), Subsumes(pool[h].state, t),
           NEW p \in PredecessorCubes(s, x, pool[h].state)
    PROVE  NewEntry([state |-> p, input |-> x, succ |-> h])
<1> DEFINE e == [state |-> p, input |-> x, succ |-> h]
<1>1. system \in TransitionSystems /\ Len(pool) \in Nat
  BY DEF TraceInvariant, TraceTypeOK
<1>2. EntrySound(pool[h].state)
  BY KnownEntry
<1>3. h \in Nat \ {0} /\ h \in 0 .. Len(pool)
  BY <1>1
<1>4. p \in Cubes /\ Reaches(e, pool[h]) /\ (options.forward \/ p = s)
  BY <1>1, <1>2, <1>3, PredecessorEntry
<1>5. e \in Entries /\ e.succ = h /\ e.state = p
  BY <1>3, <1>4 DEF Entries
<1> HIDE DEF e
<1>6. NewEntry(e)
  BY <1>3, <1>4, <1>5 DEF NewEntry
<1> QED
  BY <1>6 DEF e

\* The pool either stays as it is or gets a new entry.
PoolSteps ==
    /\ UNCHANGED <<system, options>>
    /\ UNCHANGED pool \/ \E e : NewEntry(e) /\ pool' = Append(pool, e)

\* Appending a new entry keeps the chains of the whole pool.
LEMMA PoolKeepsChains ==
    ASSUME TraceTypeOK, PoolSteps, ChainsReachError, BackwardStates
    PROVE  ChainsReachError' /\ BackwardStates'
<1>1. pool \in Seq(Entries) /\ Len(pool) \in Nat
  BY DEF TraceTypeOK
<1>2. CASE UNCHANGED pool
  BY <1>2 DEF PoolSteps, ChainsReachError, BackwardStates, ErrorHolds, TransHolds
<1>3. CASE \E e : NewEntry(e) /\ pool' = Append(pool, e)
  <2>1. PICK e \in Entries : NewEntry(e) /\ pool' = Append(pool, e)
    BY <1>3 DEF NewEntry
  <2>2. ChainsReachError'
    BY <1>1, <2>1, ChainsGrow DEF NewEntry, PoolSteps
  <2>3. /\ Len(pool') = Len(pool) + 1 /\ pool'[Len(pool) + 1] = e
        /\ \A h \in 1 .. Len(pool) : pool'[h] = pool[h]
    BY <1>1, <2>1
  <2>4. \A h \in 1 .. Len(pool) + 1 : h \in 1 .. Len(pool) \/ h = Len(pool) + 1
    BY <1>1
  <2>5. BackwardStates'
    BY <2>1, <2>3, <2>4 DEF BackwardStates, NewEntry, PoolSteps
  <2> QED
    BY <2>2, <2>5
<1> QED
  BY <1>2, <1>3 DEF PoolSteps

\* The chains of the pool as TransitionSystemProofs knows them.
LEMMA PoolIsPool ==
    ASSUME TraceTypeOK, ChainsReachError
    PROVE  pool \in Pools /\ EarlierSuccessors(pool)
BY DEF TraceTypeOK, Pools, Entries, ChainsReachError, EarlierSuccessors

\* The witness of the forward engine replays: its first state may be completed anyhow.
LEMMA ForwardReplays ==
    ASSUME TraceTypeOK, CounterexampleInvariant, options.forward,
           result.verdict = "counterexample"
    PROVE  LET initial == Completed(pool[result.handle].state) IN
           /\ ReachesBad(system, initial, InputsFrom[result.handle])
           /\ (\A l \in system.init : l < 0) => initial \in InitialStates(system)
<1> DEFINE c == pool[result.handle].state
<1>1. system \in TransitionSystems /\ pool \in Pools /\ EarlierSuccessors(pool)
  BY PoolIsPool DEF CounterexampleInvariant, TraceTypeOK
<1>2. result.handle \in 1 .. Len(pool)
  BY DEF CounterexampleInvariant, ReportStarts
<1>3. PICK s \in InitialStates(system) : Subsumes(c, s)
  BY DEF CounterexampleInvariant, ReportStarts
<1>4. c \in Cubes
  BY <1>1, <1>2, PoolEntries
<1>5. LeadsToError(system, pool)
  BY DEF CounterexampleInvariant, ChainsReachError, LeadsToError, ErrorHolds, TransHolds
<1>6. FalseIfMissing(c) \in States /\ Subsumes(c, FalseIfMissing(c))
  BY <1>4, CompletedCube
<1>7. ReachesBad(system, FalseIfMissing(c), InputsAlong(pool)[result.handle])
  BY <1>1, <1>2, <1>5, <1>6, ChainReplays
<1> HIDE DEF c
<1>8. (\A l \in system.init : l < 0) => FalseIfMissing(c) \in InitialStates(system)
  BY <1>1, <1>3, <1>4, CompletedInitial
<1>9. FalseIfMissing(c) = Completed(c) /\ InputsAlong(pool) = InputsFrom
  BY DEF FalseIfMissing, Completed, InputsAlong, InputsFrom
<1> QED
  BY <1>7, <1>8, <1>9 DEF c

\* The witness of the backward engine replays: its chain holds whole states.
LEMMA BackwardReplays ==
    ASSUME TraceTypeOK, CounterexampleInvariant, ~ options.forward,
           result.verdict = "counterexample"
    PROVE  LET chain == InputsFrom[result.handle]
               initial == Completed(pool[LastFrom[result.handle]].state)
           IN /\ initial \in InitialStates(system)
              /\ ReachesBad(system, initial, Reversed(chain, chain[1]))
<1> DEFINE h == result.handle
           chain == InputsAlong(pool)[h]
           start == pool[LastAlong(pool)[h]].state
<1>1. system \in TransitionSystems /\ pool \in Pools /\ EarlierSuccessors(pool)
  BY PoolIsPool DEF CounterexampleInvariant, TraceTypeOK
<1>2. h \in 1 .. Len(pool) /\ Bad(system, pool[h].state, pool[h].input)
  BY DEF CounterexampleInvariant, ReportStarts
<1>3. \A i \in 1 .. Len(pool) : pool[i].state \in States
  BY DEF CounterexampleInvariant, BackwardStates
<1>4. StartsAtLast(system, pool)
  <2>1. SUFFICES ASSUME NEW i \in 1 .. Len(pool)
                 PROVE  IF pool[i].succ = 0
                        THEN pool[i].state \in InitialStates(system)
                        ELSE pool[i].state = Step(system, pool[pool[i].succ].state, pool[i].input)
    BY DEF StartsAtLast
  <2>2. pool[i].state \in States /\ pool[i].input \in Inputs /\ pool[i].succ \in 0 .. i - 1
    BY <1>1, <1>3, PoolEntries
  <2>3. Subsumes(pool[i].state, pool[i].state)
    BY DEF Subsumes
  <2>4. IF pool[i].succ = 0
        THEN ErrorHolds(pool[i].state, pool[i].input)
        ELSE \E t \in States : /\ Subsumes(pool[pool[i].succ].state, t)
                               /\ TransHolds(pool[i].state, pool[i].input, t)
    BY <2>2, <2>3 DEF CounterexampleInvariant, ChainsReachError
  <2>5. CASE pool[i].succ = 0
    BY <2>2, <2>4, <2>5 DEF ErrorHolds, InitialStates
  <2>6. CASE pool[i].succ # 0
    <3>1. pool[pool[i].succ].state \in States
      <4>1. pool[i].succ \in 1 .. Len(pool)
        BY <2>2, <2>6
      <4> QED
        BY <1>3, <4>1
    <3>2. PICK t \in States : /\ Subsumes(pool[pool[i].succ].state, t)
                              /\ TransHolds(pool[i].state, pool[i].input, t)
      BY <2>4, <2>6
    <3>3. pool[pool[i].succ].state = t
      BY <3>1, <3>2, StateMaximal
    <3> QED
      BY <2>6, <3>2, <3>3 DEF TransHolds
  <2> QED
    BY <2>5, <2>6
<1>5. start \in InitialStates(system) /\ ReachesBad(system, start, Reversed(chain, chain[1]))
  BY <1>1, <1>2, <1>4, ReversedChainReplays
<1>6. Completed(start) = start
  BY <1>5, CompletedState DEF InitialStates, Completed, FalseIfMissing
<1>7. InputsAlong(pool) = InputsFrom /\ LastAlong(pool) = LastFrom
  BY DEF InputsAlong, InputsFrom, LastAlong, LastFrom
<1> HIDE DEF chain, start
<1>8. /\ Completed(start) \in InitialStates(system)
      /\ ReachesBad(system, Completed(start), Reversed(chain, chain[1]))
  BY <1>5, <1>6
<1> QED
  BY <1>7, <1>8 DEF chain, start

-----------------------------------------------------------------------------
(***************************************************************************)
(* Minimal cores.  get_minimal_core, of module MinimalCore, asks which of  *)
(* its literals a blocked cube needs.  It may be run on any query.         *)
(***************************************************************************)
\* The core that the call starts from is unsatisfiable, and nothing was tried.
LEMMA MinimizingInit == CoreInit => CoreInvariant
BY DEF CoreInit, CoreInvariant, CoreTypeOK, Queries, StaysUnsatisfiable, TriedAreNeeded

\* A literal that a larger core needs, a smaller one needs.
LEMMA NeededInPart ==
    ASSUME unsat \in Queries, NEW c \in SUBSET Lits, NEW d \in SUBSET c, NEW l,
           c \ {l} \notin unsat
    PROVE  d \ {l} \notin unsat
BY DEF Queries

\* One iteration of get_minimal_core.
LEMMA TryLiteralInvariant ==
    ASSUME CoreInvariant, TryLiteral
    PROVE  CoreInvariant'
<1>1. PICK l \in todo :
          /\ todo' = todo \ {l}
          /\ IF l \notin core THEN core' = core
             ELSE IF core \ {l} \notin unsat THEN KeepLiteral(l)
             ELSE ShrinkCore(l)
          /\ UNCHANGED <<unsat, seed>>
  BY DEF TryLiteral
<1>2. /\ core' \subseteq core /\ core' \in unsat
      /\ l \in core' => core \ {l} \notin unsat
  BY <1>1 DEF CoreInvariant, StaysUnsatisfiable, KeepLiteral, ShrinkCore, SolverCores
<1>3. CoreTypeOK'
  BY <1>1, <1>2 DEF CoreInvariant, CoreTypeOK, Queries
<1>4. TriedAreNeeded'
  <2> SUFFICES ASSUME NEW k \in core', k \notin todo'
               PROVE  core' \ {k} \notin unsat
    BY <1>1 DEF TriedAreNeeded
  <2>1. core \ {k} \notin unsat
    BY <1>1, <1>2 DEF CoreInvariant, TriedAreNeeded
  <2> QED
    BY <1>2, <2>1, NeededInPart DEF CoreInvariant, CoreTypeOK
<1> QED
  BY <1>1, <1>2, <1>3, <1>4 DEF CoreInvariant, StaysUnsatisfiable

\* Every step keeps the inductive invariant of the minimization.
THEOREM MinimizingInvariant == CoreSpec => []CoreInvariant
<1>1. CoreInvariant /\ [CoreNext]_coreVars => CoreInvariant'
  <2> SUFFICES ASSUME CoreInvariant, [CoreNext]_coreVars
               PROVE  CoreInvariant'
    OBVIOUS
  <2>1. CASE TryLiteral
    BY <2>1, TryLiteralInvariant
  <2>2. CASE UNCHANGED coreVars
    BY <2>2 DEF coreVars, CoreInvariant, CoreTypeOK, StaysUnsatisfiable, TriedAreNeeded, Queries
  <2> QED
    BY <2>1, <2>2 DEF CoreNext, CoreTerminating
<1> QED
  BY MinimizingInit, <1>1, PTL DEF CoreSpec

\* The core is an unsatisfiable one at every iteration.
THEOREM CoreIsUnsatisfiable == CoreSpec => []StaysUnsatisfiable
<1>1. CoreInvariant => StaysUnsatisfiable
  BY DEF CoreInvariant
<1> QED
  BY MinimizingInvariant, <1>1, PTL

\* The core that get_minimal_core returns is unsatisfiable and minimal.
THEOREM CoreIsMinimal == CoreSpec => []NothingToSpare
<1>1. CoreInvariant => NothingToSpare
  BY DEF CoreInvariant, StaysUnsatisfiable, TriedAreNeeded, NothingToSpare
<1> QED
  BY MinimizingInvariant, <1>1, PTL

(***************************************************************************)
(* What CAR and ICAR may block on the strength of a minimized core is what *)
(* get_minimal_core leaves of a core of the cube, when the query is for a  *)
(* predecessor of the cube in the level below.                             *)
(***************************************************************************)
LEMMA MinimizedIsBlocked ==
    ASSUME Lits = Literals, NothingToSpare, todo = {}, NEW i, NEW c \in SUBSET Literals,
           core \subseteq c, unsat = {d \in SUBSET Literals : ~ HasPredecessor(d, i)}
    PROVE  core \in BlockedCores(c, i, TRUE)
BY DEF NothingToSpare, BlockedCores
=============================================================================
