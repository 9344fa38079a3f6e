----------------------- MODULE TransitionSystemProofs -----------------------
(***************************************************************************)
(* Lemmas about cubes, states and runs that the proofs about the engines   *)
(* share, and the induction they rest on.                                  *)
(***************************************************************************)
EXTENDS TransitionSystem, WellFoundedInduction, TLAPS

\* A part of a cube is a cube.
LEMMA SubCube ==
    ASSUME NEW c \in Cubes, NEW d \in SUBSET c
    PROVE  d \in Cubes
BY DEF Cubes

\* A state decides every variable, so it subsumes no other state.
LEMMA StateMaximal ==
    ASSUME NEW s \in States, NEW t \in States, Subsumes(s, t)
    PROVE  s = t
<1>1. SUFFICES ASSUME NEW l \in t PROVE l \in s
  BY DEF Subsumes
<1>2. l \in Literals /\ -l \notin t
  BY DEF States, Cubes
<1>3. CASE l \in Vars
  BY <1>2, <1>3 DEF States, Subsumes
<1>4. CASE \E v \in Vars : l = -v
  <2>1. PICK v \in Vars : l = -v
    BY <1>4
  <2>2. v \in Int /\ -l = v
    BY <2>1, NumVarsAssumption DEF Vars
  <2>3. v \notin s
    BY <1>2, <2>2 DEF Subsumes
  <2> QED
    BY <2>1, <2>3 DEF States
<1> QED
  BY <1>2, <1>3, <1>4 DEF Literals

-----------------------------------------------------------------------------
(***************************************************************************)
(* Induction over the natural numbers.  The library states it with an      *)
(* operator as parameter, which cannot be instantiated here; that its      *)
(* order is well-founded it states without one, and the rest follows.      *)
(***************************************************************************)

\* Every set of natural numbers that is not empty has a least element.
LEMMA LeastNatural ==
    ASSUME NEW S \in SUBSET Nat, S # {}
    PROVE  \E n \in S : \A m \in S : n <= m
<1> DEFINE R == {ss \in Nat \X Nat : ss[1] < ss[2]}
<1>1. IsWellFoundedOn(R, Nat)
  BY NatLessThanWellFounded DEF OpToRel
<1>2. \A x, y \in Nat : <<x, y>> \in R <=> x < y
  OBVIOUS
<1> HIDE DEF R
<1>3. PICK x \in S : \A y \in S : ~ (<<y, x>> \in R)
  BY <1>1, WFMin
<1>4. \A y \in S : ~ (y < x)
  BY <1>2, <1>3
<1> QED
  BY <1>4

\* A set that holds n whenever it holds all that is below n holds every natural number.
LEMMA NaturalInduction ==
    ASSUME NEW S, \A n \in Nat : (\A m \in 0 .. n - 1 : m \in S) => n \in S
    PROVE  Nat \subseteq S
<1>1. SUFFICES ASSUME Nat \ S # {} PROVE FALSE
  OBVIOUS
<1>2. PICK n \in Nat \ S : \A m \in Nat \ S : n <= m
  BY <1>1, LeastNatural
<1> QED
  BY <1>2

-----------------------------------------------------------------------------
(***************************************************************************)
(* The recursive definition of RunOf has a solution, so a run is what the  *)
(* definition says.  A solution for n states is one for n - 1 extended.    *)
(***************************************************************************)
LEMMA RunSteps ==
    ASSUME NEW sys, NEW s, NEW inputs \in Seq(Inputs)
    PROVE  RunOf(sys, s, inputs) =
               [i \in 1 .. Len(inputs) |->
                   IF i = 1 THEN s
                   ELSE Step(sys, RunOf(sys, s, inputs)[i - 1], inputs[i - 1])]
<1> DEFINE Next(t, i) == Step(sys, t, inputs[i])
           IsRun(f, n) == f = [i \in 1 .. n |-> IF i = 1 THEN s ELSE Next(f[i - 1], i - 1)]
           S == {n \in Nat : \E f : IsRun(f, n)}
<1> HIDE DEF Next, S
<1>1. ASSUME NEW n \in Nat, \A m \in 0 .. n - 1 : m \in S
      PROVE  n \in S
  <2>1. CASE n = 0
    <3>1. IsRun([i \in 1 .. n |-> s], n)
      BY <2>1
    <3> QED
      BY <3>1 DEF S
  <2>2. CASE n > 0
    <3>1. n - 1 \in S
      BY <1>1, <2>2
    <3>2. PICK f : IsRun(f, n - 1)
      BY <3>1 DEF S
    <3> DEFINE g == [i \in 1 .. n |-> IF i = 1 THEN s ELSE Next(f[i - 1], i - 1)]
    <3>3. \A i \in 1 .. n - 1 : g[i] = f[i]
      BY <3>2
    <3>4. \A i \in 1 .. n : i # 1 => Next(f[i - 1], i - 1) = Next(g[i - 1], i - 1)
      BY <3>3
    <3>5. IsRun(g, n)
      BY <3>4
    <3> QED
      BY <3>5 DEF S
  <2> QED
    BY <2>1, <2>2
<1>2. Len(inputs) \in S
  BY <1>1, NaturalInduction
<1>3. IsRun(CHOOSE f : IsRun(f, Len(inputs)), Len(inputs))
  BY <1>2 DEF S
<1>4. RunOf(sys, s, inputs) = CHOOSE f : IsRun(f, Len(inputs))
  BY DEF RunOf, Next
<1> QED
  BY <1>3, <1>4 DEF Next

\* A run starts in the state it is asked to start in.
LEMMA RunStart ==
    ASSUME NEW sys, NEW s, NEW inputs \in Seq(Inputs), Len(inputs) > 0
    PROVE  RunOf(sys, s, inputs)[1] = s
<1>1. 1 \in 1 .. Len(inputs)
  OBVIOUS
<1> QED
  BY <1>1, RunSteps

\* The run of a single input is its start.
LEMMA OneStateRun ==
    ASSUME NEW sys, NEW s, NEW x \in Inputs
    PROVE  /\ <<x>> \in Seq(Inputs) /\ Len(<<x>>) = 1 /\ <<x>>[1] = x
           /\ RunOf(sys, s, <<x>>)[1] = s
<1> DEFINE one == <<x>>
<1>1. one \in Seq(Inputs) /\ Len(one) = 1 /\ Len(one) > 0 /\ one[1] = x
  OBVIOUS
<1> HIDE DEF one
<1>2. RunOf(sys, s, one)[1] = s
  BY <1>1, RunStart
<1>3. /\ one \in Seq(Inputs) /\ Len(one) = 1 /\ one[1] = x
      /\ RunOf(sys, s, one)[1] = s
  BY <1>1, <1>2
<1> QED
  BY <1>3 DEF one

\* A run stays among the states.
LEMMA RunInStates ==
    ASSUME NEW sys \in TransitionSystems, NEW s \in States, NEW inputs \in Seq(Inputs)
    PROVE  RunOf(sys, s, inputs) \in [1 .. Len(inputs) -> States]
<1> DEFINE run == RunOf(sys, s, inputs)
           S == {n \in Nat : n \in 1 .. Len(inputs) => run[n] \in States}
<1>1. run = [i \in 1 .. Len(inputs) |->
                IF i = 1 THEN s ELSE Step(sys, run[i - 1], inputs[i - 1])]
  BY RunSteps
<1> HIDE DEF run, S
<1>2. ASSUME NEW n \in Nat, \A m \in 0 .. n - 1 : m \in S
      PROVE  n \in S
  <2>1. CASE n \in 2 .. Len(inputs)
    <3>1. n - 1 \in S
      BY <1>2, <2>1
    <3>2. run[n - 1] \in States /\ inputs[n - 1] \in Inputs
      BY <2>1, <3>1 DEF S
    <3>3. run[n] = Step(sys, run[n - 1], inputs[n - 1])
      BY <1>1, <2>1
    <3> QED
      BY <3>2, <3>3 DEF S, Step, TransitionSystems
  <2>2. CASE n \notin 2 .. Len(inputs)
    <3>1. n \in 1 .. Len(inputs) => run[n] = s
      BY <1>1, <2>2
    <3> QED
      BY <3>1 DEF S
  <2> QED
    BY <2>1, <2>2
<1>3. \A n \in Nat : n \in S
  BY <1>2, NaturalInduction
<1>4. \A i \in 1 .. Len(inputs) : run[i] \in States
  BY <1>3 DEF S
<1>5. run \in [1 .. Len(inputs) -> States]
  BY <1>1, <1>4
<1> QED
  BY <1>5 DEF run

\* A state of a run depends only on the inputs before it.
LEMMA RunPrefix ==
    ASSUME NEW sys, NEW s, NEW a \in Seq(Inputs), NEW b \in Seq(Inputs),
           NEW n \in 1 .. Len(a), n <= Len(b), \A j \in 1 .. n - 1 : a[j] = b[j]
    PROVE  RunOf(sys, s, a)[n] = RunOf(sys, s, b)[n]
<1> DEFINE runA == RunOf(sys, s, a)
           runB == RunOf(sys, s, b)
           S == {k \in Nat : k \in 1 .. n => runA[k] = runB[k]}
<1>1. runA = [i \in 1 .. Len(a) |-> IF i = 1 THEN s ELSE Step(sys, runA[i - 1], a[i - 1])]
  BY RunSteps
<1>2. runB = [i \in 1 .. Len(b) |-> IF i = 1 THEN s ELSE Step(sys, runB[i - 1], b[i - 1])]
  BY RunSteps
<1> HIDE DEF runA, runB, S
<1>3. ASSUME NEW k \in Nat, \A m \in 0 .. k - 1 : m \in S
      PROVE  k \in S
  <2>1. CASE k \in 2 .. n
    <3>0. k \in 1 .. Len(a) /\ k \in 1 .. Len(b) /\ k # 1
      BY <2>1
    <3>1. runA[k - 1] = runB[k - 1]
      BY <1>3, <2>1 DEF S
    <3>2. runA[k] = Step(sys, runA[k - 1], a[k - 1])
      BY <1>1, <3>0
    <3>3. runB[k] = Step(sys, runB[k - 1], b[k - 1])
      BY <1>2, <3>0
    <3> QED
      BY <2>1, <3>1, <3>2, <3>3 DEF S
  <2>2. CASE k \notin 2 .. n
    BY <1>1, <1>2, <2>2 DEF S
  <2> QED
    BY <2>1, <2>2
<1>4. n \in S
  BY <1>3, NaturalInduction
<1> QED
  BY <1>4 DEF S, runA, runB

\* After its first input, a run is the run from the second state.
LEMMA RunTail ==
    ASSUME NEW sys, NEW s, NEW x \in Inputs, NEW rest \in Seq(Inputs),
           NEW n \in 1 .. Len(rest)
    PROVE  RunOf(sys, s, <<x>> \o rest)[n + 1] = RunOf(sys, Step(sys, s, x), rest)[n]
<1> DEFINE all == <<x>> \o rest
           runA == RunOf(sys, s, all)
           runB == RunOf(sys, Step(sys, s, x), rest)
           S == {k \in Nat : k \in 1 .. Len(rest) => runA[k + 1] = runB[k]}
<1>0. /\ all \in Seq(Inputs) /\ Len(all) = Len(rest) + 1
      /\ all[1] = x /\ \A i \in 1 .. Len(rest) : all[i + 1] = rest[i]
  OBVIOUS
<1> HIDE DEF all
<1>1. runA = [i \in 1 .. Len(all) |-> IF i = 1 THEN s ELSE Step(sys, runA[i - 1], all[i - 1])]
  BY <1>0, RunSteps
<1>2. runB = [i \in 1 .. Len(rest) |->
                 IF i = 1 THEN Step(sys, s, x) ELSE Step(sys, runB[i - 1], rest[i - 1])]
  BY RunSteps
<1> HIDE DEF runA, runB, S
<1>3. ASSUME NEW k \in Nat, \A m \in 0 .. k - 1 : m \in S
      PROVE  k \in S
  <2>1. CASE k \in 2 .. Len(rest)
    <3>1. k - 1 \in S /\ k - 1 \in 1 .. Len(rest) /\ (k - 1) + 1 = k
      BY <1>3, <2>1
    <3>2. runA[k] = runB[k - 1]
      BY <3>1 DEF S
    <3>3. runA[k + 1] = Step(sys, runA[k], all[k])
      BY <1>0, <1>1, <2>1
    <3>4. runB[k] = Step(sys, runB[k - 1], rest[k - 1])
      BY <1>2, <2>1
    <3>5. all[k] = rest[k - 1]
      BY <1>0, <3>1
    <3> QED
      BY <3>2, <3>3, <3>4, <3>5 DEF S
  <2>2. CASE k = 1
    <3>1. k \in 1 .. Len(rest) => /\ runA[1] = s /\ runA[2] = Step(sys, runA[1], all[1])
                                  /\ runB[1] = Step(sys, s, x)
      BY <1>0, <1>1, <1>2, <2>2
    <3> QED
      BY <1>0, <2>2, <3>1 DEF S
  <2>3. CASE k \notin 1 .. Len(rest)
    BY <2>3 DEF S
  <2> QED
    BY <2>1, <2>2, <2>3
<1>4. n \in S
  BY <1>3, NaturalInduction
<1> QED
  BY <1>4 DEF S, runA, runB, all

\* Each state leads to the next one under its input.
Follows(sys, states, inputs) ==
    \A i \in 1 .. Len(inputs) - 1 : states[i + 1] = Step(sys, states[i], inputs[i])

\* States of which each leads to the next one are the run from the first of them.
LEMMA RunFollows ==
    ASSUME NEW sys, NEW inputs \in Seq(Inputs), NEW states, Follows(sys, states, inputs)
    PROVE  \A i \in 1 .. Len(inputs) : RunOf(sys, states[1], inputs)[i] = states[i]
<1> DEFINE run == RunOf(sys, states[1], inputs)
           S == {n \in Nat : n \in 1 .. Len(inputs) => run[n] = states[n]}
<1>1. run = [i \in 1 .. Len(inputs) |->
                IF i = 1 THEN states[1] ELSE Step(sys, run[i - 1], inputs[i - 1])]
  BY RunSteps
<1> HIDE DEF run, S
<1>2. ASSUME NEW n \in Nat, \A m \in 0 .. n - 1 : m \in S
      PROVE  n \in S
  <2>1. CASE n \in 2 .. Len(inputs)
    <3>1. n - 1 \in S
      BY <1>2, <2>1
    <3>2. run[n - 1] = states[n - 1]
      BY <2>1, <3>1 DEF S
    <3>3. run[n] = Step(sys, run[n - 1], inputs[n - 1])
      BY <1>1, <2>1
    <3>4. n - 1 \in 1 .. Len(inputs) - 1 /\ (n - 1) + 1 = n
      BY <2>1
    <3>5. states[n] = Step(sys, states[n - 1], inputs[n - 1])
      BY <3>4 DEF Follows
    <3> QED
      BY <3>2, <3>3, <3>5 DEF S
  <2>2. CASE n \notin 2 .. Len(inputs)
    BY <1>1, <2>2 DEF S
  <2> QED
    BY <2>1, <2>2
<1>3. \A i \in Nat : i \in S
  BY <1>2, NaturalInduction
<1> QED
  BY <1>3 DEF S, run

\* A step before a run to a bad state gives a longer such run.
LEMMA LongerBadRun ==
    ASSUME NEW sys, NEW s, NEW x \in Inputs, NEW rest \in Seq(Inputs),
           ReachesBad(sys, Step(sys, s, x), rest)
    PROVE  ReachesBad(sys, s, <<x>> \o rest)
<1>1. Len(rest) \in 1 .. Len(rest)
  BY DEF ReachesBad
<1>2. /\ Len(<<x>> \o rest) = Len(rest) + 1
      /\ (<<x>> \o rest)[Len(rest) + 1] = rest[Len(rest)]
  BY <1>1
<1>3. RunOf(sys, s, <<x>> \o rest)[Len(rest) + 1] = RunOf(sys, Step(sys, s, x), rest)[Len(rest)]
  BY <1>1, RunTail
<1> QED
  BY <1>1, <1>2, <1>3 DEF ReachesBad

\* Where a state is bad under an input, that input alone reaches it.
LEMMA ShortestBadRun ==
    ASSUME NEW sys, NEW s, NEW x \in Inputs, Bad(sys, s, x)
    PROVE  ReachesBad(sys, s, <<x>>)
BY OneStateRun DEF ReachesBad

\* A run from a state of a set that proves safety stays in it, and is not bad.
LEMMA RunStaysInside ==
    ASSUME NEW sys \in TransitionSystems, NEW inv \in SUBSET States, ProvesSafe(sys, inv),
           NEW s \in inv, NEW inputs \in Seq(Inputs)
    PROVE  ~ ReachesBad(sys, s, inputs)
<1> DEFINE run == RunOf(sys, s, inputs)
           S == {k \in Nat : k \in 1 .. Len(inputs) => run[k] \in inv}
<1>1. run = [i \in 1 .. Len(inputs) |->
                IF i = 1 THEN s ELSE Step(sys, run[i - 1], inputs[i - 1])]
  BY RunSteps
<1> HIDE DEF run, S
<1>2. ASSUME NEW n \in Nat, \A m \in 0 .. n - 1 : m \in S
      PROVE  n \in S
  <2>1. CASE n \in 2 .. Len(inputs)
    <3>1. n - 1 \in S
      BY <1>2, <2>1
    <3>2. run[n - 1] \in inv /\ inputs[n - 1] \in Inputs
      BY <2>1, <3>1 DEF S
    <3>3. run[n] = Step(sys, run[n - 1], inputs[n - 1])
      BY <1>1, <2>1
    <3> QED
      BY <3>2, <3>3 DEF S, ProvesSafe
  <2>2. CASE n \notin 2 .. Len(inputs)
    <3>1. n \in 1 .. Len(inputs) => run[n] = s
      BY <1>1, <2>2
    <3> QED
      BY <3>1 DEF S
  <2> QED
    BY <2>1, <2>2
<1>3. Len(inputs) \in S
  BY <1>2, NaturalInduction
<1>4. Len(inputs) > 0 => run[Len(inputs)] \in inv /\ inputs[Len(inputs)] \in Inputs
  BY <1>3 DEF S
<1> QED
  BY <1>4 DEF ReachesBad, ProvesSafe, run

\* A system is safe, in the sense the engines certify with an invariant, if and
\* only if no run from an initial state ends in a bad one, which is what their
\* counterexamples are.  The states the runs reach are the invariant.
THEOREM SafeMeansNoBadRun ==
    ASSUME NEW sys \in TransitionSystems
    PROVE  Safe(sys) <=>
               \A s \in InitialStates(sys), inputs \in Seq(Inputs) : ~ ReachesBad(sys, s, inputs)
<1>1. ASSUME Safe(sys), NEW s \in InitialStates(sys), NEW inputs \in Seq(Inputs)
      PROVE  ~ ReachesBad(sys, s, inputs)
  BY <1>1, RunStaysInside DEF Safe, ProvesSafe
<1>2. ASSUME \A s \in InitialStates(sys), inputs \in Seq(Inputs) : ~ ReachesBad(sys, s, inputs)
      PROVE  Safe(sys)
  <2> DEFINE EndsIn(s, inputs, t) == Len(inputs) > 0 /\ t = RunOf(sys, s, inputs)[Len(inputs)]
             inv == InitialStates(sys) \cup
                        {t \in States : \E s \in InitialStates(sys), inputs \in Seq(Inputs) :
                                            EndsIn(s, inputs, t)}
  <2>1. InitialStates(sys) \subseteq inv /\ inv \subseteq States
    BY DEF InitialStates
  <2>2. ASSUME NEW t \in inv, NEW x \in Inputs
        PROVE  Step(sys, t, x) \in inv /\ ~ Bad(sys, t, x)
    <3>1. PICK s \in InitialStates(sys), inputs \in Seq(Inputs) :
              EndsIn(s, inputs, t) /\ inputs[Len(inputs)] = x
      <4>1. CASE t \in InitialStates(sys)
        <5>1. /\ <<x>> \in Seq(Inputs) /\ Len(<<x>>) = 1 /\ <<x>>[1] = x
              /\ RunOf(sys, t, <<x>>)[1] = t
          BY OneStateRun
        <5>2. EndsIn(t, <<x>>, t) /\ <<x>>[Len(<<x>>)] = x
          BY <5>1
        <5> QED
          BY <4>1, <5>1, <5>2
      <4>2. CASE t \notin InitialStates(sys)
        <5>1. PICK s \in InitialStates(sys), inputs \in Seq(Inputs) : EndsIn(s, inputs, t)
          BY <4>2
        <5> DEFINE n == Len(inputs)
                   other == [inputs EXCEPT ![n] = x]
        <5>2. /\ n \in 1 .. n /\ other \in Seq(Inputs) /\ Len(other) = n
              /\ other[n] = x /\ \A j \in 1 .. n - 1 : inputs[j] = other[j]
          BY <5>1
        <5> HIDE DEF other
        <5>3. RunOf(sys, s, inputs)[n] = RunOf(sys, s, other)[n]
          BY <5>2, RunPrefix
        <5> QED
          BY <5>1, <5>2, <5>3
      <4> QED
        BY <4>1, <4>2
    <3> DEFINE n == Len(inputs)
               longer == Append(inputs, x)
    <3>2. ~ Bad(sys, t, x)
      BY <1>2, <3>1 DEF ReachesBad
    <3>3. /\ n \in 1 .. n /\ longer \in Seq(Inputs) /\ Len(longer) = n + 1
          /\ longer[n] = x /\ \A j \in 1 .. n - 1 : inputs[j] = longer[j]
      BY <3>1
    <3> HIDE DEF longer
    <3>4. RunOf(sys, s, longer)[n] = t
      <4>1. n <= Len(longer) /\ inputs \in Seq(Inputs)
        BY <3>1, <3>3
      <4>2. RunOf(sys, s, inputs)[n] = RunOf(sys, s, longer)[n]
        BY <3>3, <4>1, RunPrefix
      <4> QED
        BY <3>1, <4>2
    <3>5. RunOf(sys, s, longer)[n + 1] = Step(sys, RunOf(sys, s, longer)[n], longer[n])
      BY <3>3, RunSteps
    <3>6. EndsIn(s, longer, Step(sys, t, x))
      BY <3>3, <3>4, <3>5
    <3>7. Step(sys, t, x) \in States
      BY <2>1, <2>2 DEF Step, TransitionSystems
    <3> QED
      BY <3>2, <3>3, <3>6, <3>7
  <2> HIDE DEF inv
  <2>3. ProvesSafe(sys, inv)
    BY <2>1, <2>2 DEF ProvesSafe
  <2> QED
    BY <2>1, <2>3 DEF Safe
<1> QED
  BY <1>1, <1>2

-----------------------------------------------------------------------------
(***************************************************************************)
(* The pools of cubes from which PDR and CAR build counterexamples: each   *)
(* entry leads to an earlier one, its successor, or has successor 0.       *)
(***************************************************************************)
Pools == Seq([state : Cubes, input : Inputs, succ : Nat])

EarlierSuccessors(pool) == \A h \in 1 .. Len(pool) : pool[h].succ < h

\* The parts of an entry of a pool: a cube, an input and an earlier handle or 0.
LEMMA PoolEntries ==
    ASSUME NEW pool \in Pools, EarlierSuccessors(pool), NEW h \in 1 .. Len(pool)
    PROVE  /\ pool[h].state \in Cubes /\ pool[h].input \in Inputs
           /\ pool[h].succ \in 0 .. h - 1
<1> DEFINE T == [state : Cubes, input : Inputs, succ : Nat]
<1>1. pool \in Seq(T)
  BY DEF Pools
<1> HIDE DEF T
<1>2. pool[h] \in T
  BY <1>1
<1>3. pool[h].state \in Cubes /\ pool[h].input \in Inputs /\ pool[h].succ \in Nat
  BY <1>2 DEF T
<1>4. pool[h].succ < h
  BY DEF EarlierSuccessors
<1> QED
  BY <1>3, <1>4

AlongChain(f, G, z, succ, n) ==
    f[0] = z /\ \A i \in 1 .. n : f[i] = G[<<i, f[succ[i]]>>]

\* What is computed for an entry from what is computed for its successor.
LEMMA ChainRecursion ==
    ASSUME NEW n \in Nat, NEW succ, \A i \in 1 .. n : succ[i] \in 0 .. i - 1,
           NEW V, NEW z \in V, NEW G \in [(1 .. n) \X V -> V]
    PROVE  \E f \in [0 .. n -> V] : AlongChain(f, G, z, succ, n)
<1> DEFINE S == {m \in Nat : m <= n => \E f \in [0 .. m -> V] : AlongChain(f, G, z, succ, m)}
<1> HIDE DEF S
<1>1. ASSUME NEW m \in Nat, \A k \in 0 .. m - 1 : k \in S
      PROVE  m \in S
  <2>1. CASE m = 0
    <3> DEFINE f == [i \in 0 .. m |-> z]
    <3>1. f \in [0 .. m -> V] /\ AlongChain(f, G, z, succ, m)
      BY <2>1 DEF AlongChain
    <3> QED
      BY <3>1 DEF S
  <2>2. CASE m > n
    BY <2>2 DEF S
  <2>3. CASE m > 0 /\ m <= n
    <3>1. m - 1 \in S /\ m - 1 \in Nat /\ m - 1 <= n
      BY <1>1, <2>3
    <3>2. PICK f \in [0 .. m - 1 -> V] : AlongChain(f, G, z, succ, m - 1)
      BY <3>1 DEF S
    <3>3. m \in 1 .. n /\ succ[m] \in 0 .. m - 1
      BY <2>3
    <3> DEFINE v == G[<<m, f[succ[m]]>>]
               g == [i \in 0 .. m |-> IF i = m THEN v ELSE f[i]]
    <3>4. v \in V
      BY <3>3
    <3> HIDE DEF v
    <3>5. g \in [0 .. m -> V]
      BY <2>3, <3>4
    <3>6. g[m] = v /\ \A i \in 0 .. m - 1 : g[i] = f[i]
      BY <2>3
    <3> HIDE DEF g
    <3>7. \A i \in 1 .. m : g[i] = G[<<i, g[succ[i]]>>]
      <4>1. SUFFICES ASSUME NEW i \in 1 .. m PROVE g[i] = G[<<i, g[succ[i]]>>]
        OBVIOUS
      <4>2. i \in 1 .. n /\ succ[i] \in 0 .. i - 1 /\ succ[i] \in 0 .. m - 1
        BY <2>3
      <4>3. g[succ[i]] = f[succ[i]]
        BY <3>6, <4>2
      <4>4. CASE i = m
        BY <3>6, <4>3, <4>4 DEF v
      <4>5. CASE i < m
        <5>1. i \in 1 .. m - 1 /\ i \in 0 .. m - 1
          BY <4>5
        <5> QED
          BY <3>2, <3>6, <4>3, <5>1 DEF AlongChain
      <4> QED
        BY <4>4, <4>5
    <3>8. g[0] = z
      BY <2>3, <3>2, <3>6 DEF AlongChain
    <3> QED
      BY <3>5, <3>7, <3>8 DEF S, AlongChain
  <2> QED
    BY <2>1, <2>2, <2>3
<1>2. n \in S
  BY <1>1, NaturalInduction
<1> QED
  BY <1>2 DEF S

\* The inputs along the successors of each entry, as build_counterexample collects them.
InputsAlong(pool) ==
    [h \in 0 .. Len(pool) |->
        LET chain[i \in 0 .. Len(pool)] ==
                IF i = 0 THEN <<>> ELSE <<pool[i].input>> \o chain[pool[i].succ]
        IN chain[h]]

IsInputs(f, pool) ==
    f = [i \in 0 .. Len(pool) |->
            IF i = 0 THEN <<>> ELSE <<pool[i].input>> \o f[pool[i].succ]]

\* The inputs that build_counterexample collects: the recursion along succ has a
\* solution for every pool, one input for each entry of the chain.
LEMMA InputsAlongChain ==
    ASSUME NEW pool \in Pools, EarlierSuccessors(pool)
    PROVE  /\ InputsAlong(pool) \in [0 .. Len(pool) -> Seq(Inputs)]
           /\ InputsAlong(pool)[0] = <<>>
           /\ \A h \in 1 .. Len(pool) :
                  InputsAlong(pool)[h] = <<pool[h].input>> \o InputsAlong(pool)[pool[h].succ]
<1> DEFINE n == Len(pool)
           succ == [i \in 1 .. n |-> pool[i].succ]
           V == Seq(Inputs)
           G == [iv \in (1 .. n) \X V |-> <<pool[iv[1]].input>> \o iv[2]]
<1>1. n \in Nat
  BY DEF Pools
<1> HIDE DEF n
<1>2. ASSUME NEW i \in 1 .. n
      PROVE  succ[i] = pool[i].succ /\ pool[i].succ \in 0 .. i - 1 /\ pool[i].input \in Inputs
  BY PoolEntries DEF n
<1> HIDE DEF succ
<1>3. \A i \in 1 .. n, v \in V : /\ <<pool[i].input>> \o v \in V
                                 /\ G[<<i, v>>] = <<pool[i].input>> \o v
  BY <1>2
<1>4. G \in [(1 .. n) \X V -> V] /\ <<>> \in V
  <2>1. \A iv \in (1 .. n) \X V : <<pool[iv[1]].input>> \o iv[2] \in V
    <3>1. SUFFICES ASSUME NEW iv \in (1 .. n) \X V
                   PROVE  <<pool[iv[1]].input>> \o iv[2] \in V
      OBVIOUS
    <3>2. iv[1] \in 1 .. n /\ iv[2] \in V
      OBVIOUS
    <3> QED
      BY <1>3, <3>2
  <2>2. <<>> \in V
    OBVIOUS
  <2> QED
    BY <2>1, <2>2
<1> HIDE DEF V, G
<1>5. \A i \in 1 .. n : succ[i] \in 0 .. i - 1
  BY <1>2
<1>6. PICK f \in [0 .. n -> V] : AlongChain(f, G, <<>>, succ, n)
  BY <1>1, <1>4, <1>5, ChainRecursion
<1>7. ASSUME NEW i \in 1 .. n PROVE f[i] = <<pool[i].input>> \o f[pool[i].succ]
  <2>1. pool[i].succ \in 0 .. n /\ succ[i] = pool[i].succ
    BY <1>1, <1>2
  <2>2. f[pool[i].succ] \in V
    BY <2>1
  <2> QED
    BY <1>3, <1>6, <2>1, <2>2 DEF AlongChain
<1>8. f[0] = <<>>
  BY <1>6 DEF AlongChain
<1>9. IsInputs(f, pool)
  <2>1. f = [i \in 0 .. n |-> f[i]]
    OBVIOUS
  <2>2. \A i \in 0 .. n : i # 0 => i \in 1 .. n
    BY <1>1
  <2> QED
    BY <1>7, <1>8, <2>1, <2>2 DEF IsInputs, n
<1> DEFINE c == CHOOSE g : IsInputs(g, pool)
<1>10. IsInputs(c, pool)
  BY <1>9
<1>11. InputsAlong(pool) = [h \in 0 .. n |-> c[h]]
  BY DEF InputsAlong, IsInputs, n
<1> HIDE DEF c
<1>12. c = [h \in 0 .. n |-> c[h]] /\ c[0] = <<>>
       /\ \A h \in 1 .. n : c[h] = <<pool[h].input>> \o c[pool[h].succ]
  <2>1. c = [i \in 0 .. n |-> IF i = 0 THEN <<>> ELSE <<pool[i].input>> \o c[pool[i].succ]]
    BY <1>10 DEF IsInputs, n
  <2>2. 0 \in 0 .. n /\ \A h \in 1 .. n : h \in 0 .. n /\ h # 0
    BY <1>1
  <2>3. c = [h \in 0 .. n |-> c[h]]
    BY <2>1
  <2>4. c[0] = <<>>
    BY <2>1, <2>2
  <2>5. ASSUME NEW h \in 1 .. n PROVE c[h] = <<pool[h].input>> \o c[pool[h].succ]
    BY <2>1, <2>2
  <2> QED
    BY <2>3, <2>4, <2>5
<1> DEFINE S == {h \in Nat : h \in 0 .. n => c[h] \in V}
<1> HIDE DEF S
<1>13. ASSUME NEW h \in Nat, \A k \in 0 .. h - 1 : k \in S
       PROVE  h \in S
  <2>1. CASE h = 0
    BY <1>4, <1>12, <2>1 DEF S
  <2>2. CASE h \in 1 .. n
    <3>1. pool[h].succ \in S /\ pool[h].succ \in 0 .. n
      BY <1>1, <1>2, <1>13, <2>2
    <3>2. c[pool[h].succ] \in V
      BY <3>1 DEF S
    <3> QED
      BY <1>3, <1>12, <2>2, <3>2 DEF S
  <2>3. CASE h > n
    BY <1>1, <2>3 DEF S
  <2> QED
    BY <1>1, <2>1, <2>2, <2>3
<1>14. \A h \in 0 .. n : c[h] \in V
  <2>1. Nat \subseteq S
    BY <1>13, NaturalInduction
  <2> QED
    BY <1>1, <2>1 DEF S
<1>15. c \in [0 .. n -> V]
  BY <1>12, <1>14
<1> QED
  BY <1>11, <1>12, <1>15 DEF n, V

\* Every state of an entry is bad under the entry's input, or steps into the successor.
LeadsToError(sys, pool) ==
    \A h \in 1 .. Len(pool) : \A s \in States : Subsumes(pool[h].state, s) =>
        IF pool[h].succ = 0
        THEN Bad(sys, s, pool[h].input)
        ELSE Subsumes(pool[pool[h].succ].state, Step(sys, s, pool[h].input))

\* From every state of an entry's cube the chain's inputs reach an error: the reason
\* why build_counterexample may pick any state of the first cube.
LEMMA ChainReplays ==
    ASSUME NEW sys \in TransitionSystems, NEW pool \in Pools, EarlierSuccessors(pool),
           LeadsToError(sys, pool), NEW h \in 1 .. Len(pool),
           NEW s \in States, Subsumes(pool[h].state, s)
    PROVE  ReachesBad(sys, s, InputsAlong(pool)[h])
<1> DEFINE chain == InputsAlong(pool)
           Replays(i) == \A t \in States :
               Subsumes(pool[i].state, t) => ReachesBad(sys, t, chain[i])
           S == {i \in Nat : i \in 1 .. Len(pool) => Replays(i)}
<1>1. /\ chain[0] = <<>> /\ \A i \in 0 .. Len(pool) : chain[i] \in Seq(Inputs)
      /\ \A i \in 1 .. Len(pool) : chain[i] = <<pool[i].input>> \o chain[pool[i].succ]
  BY InputsAlongChain
<1> HIDE DEF chain, S
<1>2. ASSUME NEW i \in Nat, \A k \in 0 .. i - 1 : k \in S
      PROVE  i \in S
  <2>1. SUFFICES ASSUME i \in 1 .. Len(pool), NEW t \in States, Subsumes(pool[i].state, t)
                 PROVE  ReachesBad(sys, t, chain[i])
    BY DEF S
  <2> DEFINE x == pool[i].input
             next == pool[i].succ
  <2>2. x \in Inputs /\ next \in 0 .. i - 1 /\ chain[i] = <<x>> \o chain[next]
    BY <1>1, <2>1, PoolEntries
  <2>3. IF next = 0 THEN Bad(sys, t, x) ELSE Subsumes(pool[next].state, Step(sys, t, x))
    BY <2>1 DEF LeadsToError
  <2> HIDE DEF x, next
  <2>4. CASE next = 0
    <3>1. chain[i] = <<x>> \o <<>>
      BY <1>1, <2>2, <2>4
    <3>2. <<x>> \o <<>> = <<x>>
      BY <2>2
    <3> QED
      BY <2>2, <2>3, <2>4, <3>1, <3>2, ShortestBadRun
  <2>5. CASE next # 0
    <3>1. next \in S /\ next \in 1 .. Len(pool) /\ next \in 0 .. Len(pool)
      BY <1>2, <2>1, <2>2, <2>5
    <3>2. Step(sys, t, x) \in States
      BY <2>2 DEF Step, TransitionSystems
    <3>3. ReachesBad(sys, Step(sys, t, x), chain[next])
      BY <2>3, <2>5, <3>1, <3>2 DEF S
    <3>4. chain[next] \in Seq(Inputs)
      BY <1>1, <3>1
    <3> QED
      BY <2>2, <3>3, <3>4, LongerBadRun
  <2> QED
    BY <2>4, <2>5
<1>3. h \in S
  <2>1. Nat \subseteq S
    BY <1>2, NaturalInduction
  <2> QED
    BY <2>1
<1> QED
  BY <1>3 DEF S, chain

\* get_vars of build_counterexample: a variable missing from a cube is false.
FalseIfMissing(c) == {IF v \in c THEN v ELSE -v : v \in Vars}

\* A literal is a variable or the negation of one.
LEMMA VariableSigns ==
    /\ \A v \in Vars : v \in Int /\ v > 0
    /\ \A l \in Literals : l \in Vars \/ -l \in Vars
BY NumVarsAssumption DEF Vars, Literals

\* get_vars turns a cube into one of the cube's states.
LEMMA CompletedCube ==
    ASSUME NEW c \in Cubes
    PROVE  FalseIfMissing(c) \in States /\ Subsumes(c, FalseIfMissing(c))
<1> DEFINE s == FalseIfMissing(c)
<1>1. \A v \in Vars : v \in Int /\ v > 0
  BY VariableSigns
<1>2. \A l \in c : l \in Literals /\ -l \notin c
  BY DEF Cubes
<1>3. s \subseteq Literals
  BY DEF FalseIfMissing, Literals
<1>4. \A v \in Vars : (v \in s <=> v \in c) /\ (-v \in s <=> v \notin c)
  BY <1>1 DEF FalseIfMissing
<1>5. \A l \in s : -l \notin s
  <2>1. SUFFICES ASSUME NEW v \in Vars
                 PROVE  ~ (v \in s /\ -v \in s) /\ - (-v) = v
    BY <1>1 DEF FalseIfMissing
  <2> QED
    BY <1>1, <1>4
<1>6. ASSUME NEW l \in c PROVE l \in s
  <2>1. CASE l \in Vars
    BY <1>4, <2>1
  <2>2. CASE l \notin Vars
    <3>1. PICK v \in Vars : l = -v
      BY <1>2, <2>2 DEF Literals
    <3>2. -l = v
      BY <1>1, <3>1
    <3> QED
      BY <1>2, <1>4, <3>1, <3>2
  <2> QED
    BY <2>1, <2>2
<1>7. s \in States
  BY <1>3, <1>4, <1>5 DEF States, Cubes
<1> QED
  BY <1>6, <1>7 DEF Subsumes

\* A cube that is a state already is left as it is.
LEMMA CompletedState ==
    ASSUME NEW s \in States
    PROVE  FalseIfMissing(s) = s
<1>1. s \in Cubes
  BY DEF States
<1> QED
  BY <1>1, CompletedCube, StateMaximal

\* Where the initial cube asks for false variables only, as the AIGER builder's does,
\* completing a cube that meets the initial states gives an initial state.
LEMMA CompletedInitial ==
    ASSUME NEW sys \in TransitionSystems, \A l \in sys.init : l < 0,
           NEW c \in Cubes, NEW s \in InitialStates(sys), Subsumes(c, s)
    PROVE  FalseIfMissing(c) \in InitialStates(sys)
<1>1. FalseIfMissing(c) \in States
  BY CompletedCube
<1>2. SUFFICES ASSUME NEW l \in sys.init PROVE l \in FalseIfMissing(c)
  BY <1>1 DEF InitialStates, Subsumes
<1>3. l \in Literals /\ l \in s /\ l < 0
  BY DEF TransitionSystems, Cubes, InitialStates, Subsumes
<1>4. PICK v \in Vars : l = -v
  BY <1>3, VariableSigns DEF Literals
<1>5. -l = v
  BY <1>4, VariableSigns
<1>6. v \notin s
  BY <1>3, <1>5 DEF InitialStates, States, Cubes
<1> QED
  BY <1>4, <1>6 DEF FalseIfMissing, Subsumes

\* The last entry along the successors of each entry.
LastAlong(pool) ==
    [h \in 1 .. Len(pool) |->
        LET last[i \in 1 .. Len(pool)] ==
                IF pool[i].succ = 0 THEN i ELSE last[pool[i].succ]
        IN last[h]]

IsLast(f, pool) ==
    f = [i \in 1 .. Len(pool) |-> IF pool[i].succ = 0 THEN i ELSE f[pool[i].succ]]

\* The last entry of a chain exists for every pool: the initial state of a backward
\* engine's counterexample.
LEMMA LastAlongChain ==
    ASSUME NEW pool \in Pools, EarlierSuccessors(pool)
    PROVE  /\ LastAlong(pool) \in [1 .. Len(pool) -> 1 .. Len(pool)]
           /\ \A h \in 1 .. Len(pool) :
                  LastAlong(pool)[h] =
                      IF pool[h].succ = 0 THEN h ELSE LastAlong(pool)[pool[h].succ]
<1> DEFINE n == Len(pool)
           succ == [i \in 1 .. n |-> pool[i].succ]
           V == 0 .. n
           G == [iv \in (1 .. n) \X V |-> IF succ[iv[1]] = 0 THEN iv[1] ELSE iv[2]]
<1>1. n \in Nat
  BY DEF Pools
<1> HIDE DEF n
<1>2. \A i \in 1 .. n : succ[i] = pool[i].succ /\ pool[i].succ \in 0 .. i - 1
  BY PoolEntries DEF n
<1> HIDE DEF succ
<1>3. G \in [(1 .. n) \X V -> V] /\ 0 \in V
  BY <1>1
<1>4. \A i \in 1 .. n, v \in V : G[<<i, v>>] = IF succ[i] = 0 THEN i ELSE v
  OBVIOUS
<1> HIDE DEF V, G
<1>5. \A i \in 1 .. n : succ[i] \in 0 .. i - 1
  BY <1>2
<1>6. PICK f \in [0 .. n -> V] : AlongChain(f, G, 0, succ, n)
  BY <1>1, <1>3, <1>5, ChainRecursion
<1> DEFINE g == [i \in 1 .. n |-> f[i]]
<1>7. ASSUME NEW i \in 1 .. n PROVE f[i] = IF pool[i].succ = 0 THEN i ELSE f[pool[i].succ]
  <2>1. pool[i].succ \in 0 .. n /\ succ[i] = pool[i].succ
    BY <1>1, <1>2
  <2>2. f[pool[i].succ] \in V
    BY <2>1
  <2>3. f[i] = G[<<i, f[succ[i]]>>]
    BY <1>6 DEF AlongChain
  <2> QED
    BY <1>4, <2>1, <2>2, <2>3
<1>8. IsLast(g, pool)
  <2>1. \A i \in 1 .. n : pool[i].succ # 0 => pool[i].succ \in 1 .. n
    BY <1>1, <1>2
  <2>2. \A i \in 1 .. n : pool[i].succ # 0 => g[pool[i].succ] = f[pool[i].succ]
    BY <2>1
  <2> QED
    BY <1>7, <2>2 DEF IsLast, n
<1> DEFINE c == CHOOSE e : IsLast(e, pool)
<1>9. IsLast(c, pool)
  BY <1>8
<1>10. LastAlong(pool) = [h \in 1 .. n |-> c[h]]
  BY DEF LastAlong, IsLast, n
<1> HIDE DEF c
<1>11. c = [i \in 1 .. n |-> IF pool[i].succ = 0 THEN i ELSE c[pool[i].succ]]
  BY <1>9 DEF IsLast, n
<1>12. c = [i \in 1 .. n |-> c[i]]
  BY <1>11
<1> DEFINE S == {h \in Nat : h \in 1 .. n => c[h] \in 1 .. n}
<1> HIDE DEF S
<1>13. ASSUME NEW h \in Nat, \A k \in 0 .. h - 1 : k \in S
       PROVE  h \in S
  <2>1. CASE h \in 1 .. n
    <3>1. pool[h].succ \in S /\ pool[h].succ \in 0 .. n
      BY <1>1, <1>2, <1>13, <2>1
    <3>2. pool[h].succ # 0 => c[pool[h].succ] \in 1 .. n
      BY <3>1 DEF S
    <3> QED
      BY <1>11, <2>1, <3>2 DEF S
  <2>2. CASE h \notin 1 .. n
    BY <2>2 DEF S
  <2> QED
    BY <2>1, <2>2
<1>14. \A h \in 1 .. n : c[h] \in 1 .. n
  <2>1. Nat \subseteq S
    BY <1>13, NaturalInduction
  <2> QED
    BY <1>1, <2>1 DEF S
<1>15. c \in [1 .. n -> 1 .. n]
  BY <1>12, <1>14
<1> QED
  BY <1>10, <1>11, <1>12, <1>15 DEF n

\* How many successors each entry has.
DistanceAlong(pool) ==
    [h \in 0 .. Len(pool) |->
        LET dist[i \in 0 .. Len(pool)] == IF i = 0 THEN -1 ELSE dist[pool[i].succ] + 1
        IN dist[h]]

IsDistance(f, pool) ==
    f = [i \in 0 .. Len(pool) |-> IF i = 0 THEN -1 ELSE f[pool[i].succ] + 1]

\* The number of steps along succ to the end of the chain, for every pool.
LEMMA DistanceAlongChain ==
    ASSUME NEW pool \in Pools, EarlierSuccessors(pool)
    PROVE  /\ DistanceAlong(pool)[0] = -1
           /\ \A h \in 1 .. Len(pool) :
                  DistanceAlong(pool)[h] = DistanceAlong(pool)[pool[h].succ] + 1
<1> DEFINE n == Len(pool)
           succ == [i \in 1 .. n |-> pool[i].succ]
           G == [iv \in (1 .. n) \X Int |-> iv[2] + 1]
<1>1. n \in Nat
  BY DEF Pools
<1> HIDE DEF n
<1>2. \A i \in 1 .. n : succ[i] = pool[i].succ /\ pool[i].succ \in 0 .. i - 1
  BY PoolEntries DEF n
<1> HIDE DEF succ
<1>3. G \in [(1 .. n) \X Int -> Int] /\ -1 \in Int
  OBVIOUS
<1>4. \A i \in 1 .. n, v \in Int : G[<<i, v>>] = v + 1
  OBVIOUS
<1> HIDE DEF G
<1>5. \A i \in 1 .. n : succ[i] \in 0 .. i - 1
  BY <1>2
<1>6. PICK f \in [0 .. n -> Int] : AlongChain(f, G, -1, succ, n)
  BY <1>1, <1>3, <1>5, ChainRecursion
<1>7. ASSUME NEW i \in 1 .. n PROVE f[i] = f[pool[i].succ] + 1
  <2>1. pool[i].succ \in 0 .. n /\ succ[i] = pool[i].succ
    BY <1>1, <1>2
  <2>2. f[pool[i].succ] \in Int
    BY <2>1
  <2>3. f[i] = G[<<i, f[succ[i]]>>]
    BY <1>6 DEF AlongChain
  <2> QED
    BY <1>4, <2>1, <2>2, <2>3
<1>8. f[0] = -1
  BY <1>6 DEF AlongChain
<1>9. IsDistance(f, pool)
  <2>1. f = [i \in 0 .. n |-> f[i]]
    OBVIOUS
  <2>2. \A i \in 0 .. n : i # 0 => i \in 1 .. n
    BY <1>1
  <2> QED
    BY <1>7, <1>8, <2>1, <2>2 DEF IsDistance, n
<1> DEFINE c == CHOOSE e : IsDistance(e, pool)
<1>10. IsDistance(c, pool)
  BY <1>9
<1>11. DistanceAlong(pool) = [h \in 0 .. n |-> c[h]]
  BY DEF DistanceAlong, IsDistance, n
<1> HIDE DEF c
<1>12. c = [i \in 0 .. n |-> IF i = 0 THEN -1 ELSE c[pool[i].succ] + 1]
  BY <1>10 DEF IsDistance, n
<1>13. c = [i \in 0 .. n |-> c[i]]
  BY <1>12
<1>14. 0 \in 0 .. n /\ \A h \in 1 .. n : h \in 0 .. n /\ h # 0
  BY <1>1
<1>15. c[0] = -1 /\ \A h \in 1 .. n : c[h] = c[pool[h].succ] + 1
  BY <1>12, <1>14
<1> QED
  BY <1>11, <1>13, <1>15 DEF n

\* Appending to a pool leaves the distances of its earlier entries as they were.
LEMMA DistancesKept ==
    ASSUME NEW pool \in Pools, EarlierSuccessors(pool),
           NEW more \in Pools, EarlierSuccessors(more),
           Len(pool) <= Len(more), \A h \in 1 .. Len(pool) : more[h] = pool[h]
    PROVE  \A h \in 0 .. Len(pool) : DistanceAlong(more)[h] = DistanceAlong(pool)[h]
<1> DEFINE D == DistanceAlong(pool)
           E == DistanceAlong(more)
           n == Len(pool)
           m == Len(more)
           S == {h \in Nat : h \in 0 .. n => E[h] = D[h]}
<1>1. D[0] = -1 /\ \A h \in 1 .. n : D[h] = D[pool[h].succ] + 1
  BY DistanceAlongChain
<1>2. E[0] = -1 /\ \A h \in 1 .. m : E[h] = E[more[h].succ] + 1
  BY DistanceAlongChain
<1>3. \A h \in 1 .. n : pool[h].succ \in 0 .. h - 1
  BY PoolEntries
<1>4. n \in Nat /\ m \in Nat /\ n <= m
  BY DEF Pools
<1>5. \A h \in 1 .. n : more[h].succ = pool[h].succ /\ h \in 1 .. m
  BY <1>4
<1> HIDE DEF D, E, S, n, m
<1>6. ASSUME NEW h \in Nat, \A k \in 0 .. h - 1 : k \in S
      PROVE  h \in S
  <2>1. CASE h \in 1 .. n
    <3>1. pool[h].succ \in S /\ pool[h].succ \in 0 .. n
      BY <1>3, <1>4, <1>6, <2>1
    <3>2. E[pool[h].succ] = D[pool[h].succ]
      BY <3>1 DEF S
    <3>3. E[h] = D[h]
      BY <1>1, <1>2, <1>5, <2>1, <3>2
    <3> QED
      BY <3>3 DEF S
  <2>2. CASE h = 0
    BY <1>1, <1>2, <2>2 DEF S
  <2>3. CASE h > n
    BY <1>4, <2>3 DEF S
  <2> QED
    BY <1>4, <2>1, <2>2, <2>3
<1>7. Nat \subseteq S
  BY <1>6, NaturalInduction
<1> QED
  BY <1>4, <1>7 DEF S, D, E, n

\* Backward, the successor of an entry steps into it, and the last one is initial.
StartsAtLast(sys, pool) ==
    \A h \in 1 .. Len(pool) :
        IF pool[h].succ = 0
        THEN pool[h].state \in InitialStates(sys)
        ELSE pool[h].state = Step(sys, pool[pool[h].succ].state, pool[h].input)

\* The inputs of a chain in the reverse order, the first one replaced by y.
Reversed(chain, y) == Append([i \in 1 .. Len(chain) - 1 |-> chain[Len(chain) - i]], y)

\* The entries of the reversed inputs of a chain.
LEMMA ReversedInputs ==
    ASSUME NEW chain \in Seq(Inputs), Len(chain) > 0, NEW y \in Inputs
    PROVE  /\ Reversed(chain, y) \in Seq(Inputs)
           /\ Len(Reversed(chain, y)) = Len(chain)
           /\ Reversed(chain, y)[Len(chain)] = y
           /\ \A i \in 1 .. Len(chain) - 1 : Reversed(chain, y)[i] = chain[Len(chain) - i]
<1> DEFINE n == Len(chain) - 1
           r == [i \in 1 .. n |-> chain[Len(chain) - i]]
<1>1. n \in Nat /\ n + 1 = Len(chain)
  OBVIOUS
<1>2. \A i \in 1 .. n : Len(chain) - i \in 1 .. Len(chain)
  BY <1>1
<1>3. \A i \in 1 .. n : chain[Len(chain) - i] \in Inputs
  BY <1>2
<1> HIDE DEF n
<1>4. r \in Seq(Inputs) /\ Len(r) = n /\ \A i \in 1 .. n : r[i] = chain[Len(chain) - i]
  BY <1>1, <1>3
<1> HIDE DEF r
<1>5. /\ Append(r, y) \in Seq(Inputs) /\ Len(Append(r, y)) = n + 1
      /\ Append(r, y)[n + 1] = y /\ \A i \in 1 .. n : Append(r, y)[i] = r[i]
  BY <1>1, <1>4
<1>6. Reversed(chain, y) = Append(r, y)
  BY DEF Reversed, r, n
<1> QED
  BY <1>1, <1>4, <1>5, <1>6 DEF n

RunsFromLast(sys, start, chain, state) ==
    \A y \in Inputs : RunOf(sys, start, Reversed(chain, y))[Len(chain)] = state

\* One more entry in front of a chain is one more step at the end of its reversed run.
LEMMA LongerReversedRun ==
    ASSUME NEW sys, NEW start, NEW rest \in Seq(Inputs), Len(rest) > 0, NEW x \in Inputs,
           NEW state, RunsFromLast(sys, start, rest, state)
    PROVE  RunsFromLast(sys, start, <<x>> \o rest, Step(sys, state, x))
<1> DEFINE chain == <<x>> \o rest
           n == Len(rest)
<1>1. /\ chain \in Seq(Inputs) /\ Len(chain) = n + 1 /\ n \in Nat /\ n > 0
      /\ chain[1] = x /\ \A i \in 1 .. n : chain[i + 1] = rest[i]
  OBVIOUS
<1> HIDE DEF chain, n
<1>2. SUFFICES ASSUME NEW y \in Inputs
               PROVE  RunOf(sys, start, Reversed(chain, y))[n + 1] = Step(sys, state, x)
  BY <1>1 DEF RunsFromLast, chain
<1> DEFINE a == Reversed(rest, x)
           b == Reversed(chain, y)
<1>3. /\ a \in Seq(Inputs) /\ Len(a) = n /\ a[n] = x
      /\ \A i \in 1 .. n - 1 : a[i] = rest[n - i]
  BY ReversedInputs DEF n
<1>4. /\ b \in Seq(Inputs) /\ Len(b) = n + 1
      /\ \A i \in 1 .. n : b[i] = chain[(n + 1) - i]
  <2>1. chain \in Seq(Inputs) /\ Len(chain) > 0
    BY <1>1
  <2>2. /\ b \in Seq(Inputs) /\ Len(b) = Len(chain)
        /\ \A i \in 1 .. Len(chain) - 1 : b[i] = chain[Len(chain) - i]
    BY <2>1, ReversedInputs
  <2>3. Len(chain) = n + 1 /\ Len(chain) - 1 = n
    BY <1>1
  <2> QED
    BY <2>2, <2>3
<1> HIDE DEF a, b
<1>5. \A i \in 1 .. n - 1 : a[i] = b[i]
  <2>1. SUFFICES ASSUME NEW i \in 1 .. n - 1 PROVE a[i] = b[i]
    OBVIOUS
  <2>2. n - i \in 1 .. n /\ (n - i) + 1 = (n + 1) - i /\ i \in 1 .. n
    BY <1>1
  <2>3. chain[(n - i) + 1] = rest[n - i]
    BY <1>1, <2>2
  <2> QED
    BY <1>3, <1>4, <2>2, <2>3
<1>6. b[n] = x
  <2>1. n \in 1 .. n /\ (n + 1) - n = 1
    BY <1>1
  <2> QED
    BY <1>1, <1>4, <2>1
<1>7. RunOf(sys, start, a)[n] = RunOf(sys, start, b)[n]
  <2>1. n \in 1 .. Len(a) /\ n <= Len(b) /\ a \in Seq(Inputs) /\ b \in Seq(Inputs)
    BY <1>1, <1>3, <1>4
  <2> QED
    BY <1>5, <2>1, RunPrefix
<1>8. RunOf(sys, start, a)[n] = state
  BY DEF RunsFromLast, a, n
<1>9. RunOf(sys, start, b)[n + 1] = Step(sys, RunOf(sys, start, b)[n], b[n])
  <2>1. n + 1 \in 1 .. Len(b) /\ n + 1 # 1 /\ (n + 1) - 1 = n
    BY <1>1, <1>4
  <2> QED
    BY <1>4, <2>1, RunSteps
<1> QED
  BY <1>6, <1>7, <1>8, <1>9 DEF b

\* A backward engine's chain leads from an initial state to the entry's state, so its
\* inputs in the reverse order reach the error that the entry's state raises.
LEMMA ReversedChainReplays ==
    ASSUME NEW sys \in TransitionSystems, NEW pool \in Pools, EarlierSuccessors(pool),
           StartsAtLast(sys, pool), NEW h \in 1 .. Len(pool),
           Bad(sys, pool[h].state, pool[h].input)
    PROVE  LET chain == InputsAlong(pool)[h]
               start == pool[LastAlong(pool)[h]].state
           IN /\ start \in InitialStates(sys)
              /\ ReachesBad(sys, start, Reversed(chain, chain[1]))
<1> DEFINE chain == InputsAlong(pool)
           last == LastAlong(pool)
           n == Len(pool)
           Facts(i) == /\ Len(chain[i]) > 0 /\ chain[i][1] = pool[i].input
                       /\ pool[last[i]].state \in InitialStates(sys)
                       /\ RunsFromLast(sys, pool[last[i]].state, chain[i], pool[i].state)
           S == {i \in Nat : i \in 1 .. n => Facts(i)}
<1>1. /\ chain[0] = <<>> /\ \A i \in 0 .. n : chain[i] \in Seq(Inputs)
      /\ \A i \in 1 .. n : chain[i] = <<pool[i].input>> \o chain[pool[i].succ]
  BY InputsAlongChain
<1>2. \A i \in 1 .. n : last[i] = IF pool[i].succ = 0 THEN i ELSE last[pool[i].succ]
  BY LastAlongChain
<1>3. \A i \in 1 .. n : /\ pool[i].state \in Cubes /\ pool[i].input \in Inputs
                        /\ pool[i].succ \in 0 .. i - 1
  BY PoolEntries
<1>4. n \in Nat
  BY DEF Pools
<1>5. \A i \in 1 .. n : IF pool[i].succ = 0
                        THEN pool[i].state \in InitialStates(sys)
                        ELSE pool[i].state = Step(sys, pool[pool[i].succ].state, pool[i].input)
  BY DEF StartsAtLast
<1> HIDE DEF chain, last, n, Facts, S
<1>6. ASSUME NEW i \in Nat, \A k \in 0 .. i - 1 : k \in S
      PROVE  i \in S
  <2>1. SUFFICES ASSUME i \in 1 .. n PROVE Facts(i)
    BY DEF S
  <2> DEFINE x == pool[i].input
             next == pool[i].succ
  <2>2. x \in Inputs /\ next \in 0 .. i - 1 /\ chain[i] = <<x>> \o chain[next]
    BY <1>1, <1>3, <2>1
  <2>3. IF next = 0 THEN pool[i].state \in InitialStates(sys)
                    ELSE pool[i].state = Step(sys, pool[next].state, x)
    BY <1>5, <2>1
  <2>4. last[i] = IF next = 0 THEN i ELSE last[next]
    BY <1>2, <2>1
  <2>5. next \in 0 .. n
    BY <1>4, <2>1, <2>2
  <2>6. chain[next] \in Seq(Inputs)
    BY <1>1, <2>5
  <2> HIDE DEF next
  <2>7. chain[i][1] = x /\ Len(chain[i]) = Len(chain[next]) + 1 /\ Len(chain[next]) \in Nat
    BY <2>2, <2>6
  <2>8. CASE next = 0
    <3>1. Len(chain[i]) = 1
      BY <1>1, <2>7, <2>8
    <3>2. chain[i] \in Seq(Inputs)
      BY <1>1, <1>4, <2>1
    <3>3. RunsFromLast(sys, pool[i].state, chain[i], pool[i].state)
      <4>1. SUFFICES ASSUME NEW y \in Inputs
                     PROVE  RunOf(sys, pool[i].state, Reversed(chain[i], y))[1] = pool[i].state
        BY <3>1 DEF RunsFromLast
      <4>2. Len(chain[i]) > 0
        BY <3>1
      <4>3. Reversed(chain[i], y) \in Seq(Inputs) /\ Len(Reversed(chain[i], y)) = Len(chain[i])
        BY <3>2, <4>2, ReversedInputs
      <4> QED
        BY <4>2, <4>3, RunStart
    <3> QED
      BY <2>3, <2>4, <2>7, <2>8, <3>1, <3>3 DEF Facts
  <2>9. CASE next # 0
    <3>1. next \in S /\ next \in 1 .. n
      BY <1>6, <2>2, <2>5, <2>9
    <3>2. Facts(next)
      BY <3>1 DEF S
    <3>3. /\ Len(chain[next]) > 0
          /\ pool[last[next]].state \in InitialStates(sys)
          /\ RunsFromLast(sys, pool[last[next]].state, chain[next], pool[next].state)
      BY <3>2 DEF Facts
    <3>4. RunsFromLast(sys, pool[last[next]].state, chain[i], Step(sys, pool[next].state, x))
      BY <2>2, <2>6, <3>3, LongerReversedRun
    <3> QED
      BY <2>3, <2>4, <2>7, <2>9, <3>3, <3>4 DEF Facts
  <2> QED
    BY <2>8, <2>9
<1>7. Facts(h)
  <2>1. Nat \subseteq S
    BY <1>6, NaturalInduction
  <2>2. h \in S /\ h \in 1 .. n
    BY <1>4, <2>1 DEF n
  <2> QED
    BY <2>2 DEF S
<1> DEFINE start == pool[last[h]].state
           inputs == Reversed(chain[h], chain[h][1])
<1>8. /\ Len(chain[h]) > 0 /\ chain[h][1] = pool[h].input /\ start \in InitialStates(sys)
      /\ RunsFromLast(sys, start, chain[h], pool[h].state)
  BY <1>7 DEF Facts
<1>9. chain[h] \in Seq(Inputs) /\ pool[h].input \in Inputs
  BY <1>1, <1>3, <1>4 DEF n
<1>10. /\ Len(inputs) = Len(chain[h]) /\ inputs[Len(chain[h])] = pool[h].input
  BY <1>8, <1>9, ReversedInputs
<1>11. RunOf(sys, start, inputs)[Len(chain[h])] = pool[h].state
  BY <1>8, <1>9 DEF RunsFromLast
<1> HIDE DEF inputs, start
<1>12. ReachesBad(sys, start, inputs)
  BY <1>8, <1>10, <1>11 DEF ReachesBad
<1> QED
  BY <1>8, <1>12 DEF start, inputs, chain, last
=============================================================================
