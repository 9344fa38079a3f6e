--------------------------- MODULE AigerBMCProofs ---------------------------
(***************************************************************************)
(* Proofs about the builder of the transition system and about BMC, and    *)
(* about the two together.                                                 *)
(*                                                                         *)
(* The builder, for every circuit of every size: what propagate_trues,     *)
(* determine_coi and clausify_subgraph have found so far is an inductive   *)
(* invariant; from it, no clause holds a constant, the formulas say what   *)
(* the circuit does, and the built system is safe if and only if the       *)
(* circuit is.                                                             *)
(*                                                                         *)
(* BMC, for every family of systems, bound and refresh rate: each query is *)
(* asked of the formula it is meant for, and what the engine concludes     *)
(* from the answers is true: its counterexamples replay and are shortest   *)
(* ones, and unknown excludes those up to the bound.                       *)
(*                                                                         *)
(* Together: what an engine that keeps the promise of engine::run answers  *)
(* for the built system is true of the circuit.                            *)
(***************************************************************************)
EXTENDS BMC, TransitionSystemProofs, AigerBuilder, TLAPS

-----------------------------------------------------------------------------
(***************************************************************************)
(* Literals of a circuit.                                                  *)
(***************************************************************************)
\* The variables of a circuit.
CircuitVars == 0 .. NumInputs + NumLatches + NumAnds

\* A literal is even if it is positive, and the variable is half of it.
LEMMA Parity ==
    ASSUME NEW l \in AigerLits
    PROVE  /\ l \in Nat
           /\ l % 2 \in {0, 1} /\ l = 2 * (l \div 2) + (l % 2)
           /\ l \div 2 \in CircuitVars
BY SizesAssumption DEF AigerLits, CircuitVars

\* The parity of twice a number, and of its successor.
LEMMA Doubled ==
    ASSUME NEW n \in Nat
    PROVE  /\ (2 * n) % 2 = 0 /\ (2 * n) \div 2 = n
           /\ (2 * n + 1) % 2 = 1 /\ (2 * n + 1) \div 2 = n
           /\ Not(2 * n) = 2 * n + 1 /\ Not(2 * n + 1) = 2 * n
BY DEF Not

\* Negation keeps the variable and changes the sign.
LEMMA NotLit ==
    ASSUME NEW l \in AigerLits
    PROVE  /\ Not(l) \in AigerLits /\ Not(Not(l)) = l /\ Not(l) # l
           /\ Not(l) \div 2 = l \div 2 /\ Not(l) % 2 = 1 - (l % 2)
<1>1. PICK n \in CircuitVars : l = 2 * n \/ l = 2 * n + 1
  <2>1. l = 2 * (l \div 2) \/ l = 2 * (l \div 2) + 1
    BY Parity
  <2> QED
    BY <2>1, Parity
<1>2. n \in Nat /\ 2 * n \in AigerLits /\ 2 * n + 1 \in AigerLits
  BY SizesAssumption DEF CircuitVars, AigerLits
<1> QED
  BY <1>1, <1>2, Doubled

\* What is below a positive literal stays below it when it is negated.
LEMMA NotBelow ==
    ASSUME NEW n \in Nat, NEW l \in AigerLits, l < 2 * n
    PROVE  Not(l) < 2 * n
BY Parity DEF Not

\* The literals of latches and gates.
LEMMA NamedLits ==
    /\ 0 \in AigerLits /\ 1 \in AigerLits /\ Not(0) = 1 /\ Not(1) = 0
    /\ \A i \in 1 .. NumInputs : 2 * i \in AigerLits
    /\ \A i \in Latches : LatchLit(i) \in AigerLits /\ LatchLit(i) > 2 * NumInputs
    /\ \A g \in Gates : GateLit(g) \in AigerLits /\ GateLit(g) > 2 * (NumInputs + NumLatches)
<1>1. 0 \in AigerLits /\ 1 \in AigerLits
  BY SizesAssumption DEF AigerLits
<1>2. Not(0) = 1 /\ Not(1) = 0
  BY DEF Not
<1>3. \A i \in 1 .. NumInputs : 2 * i \in AigerLits
  BY SizesAssumption DEF AigerLits
<1>4. \A i \in Latches : LatchLit(i) \in AigerLits /\ LatchLit(i) > 2 * NumInputs
  BY SizesAssumption DEF AigerLits, Latches, LatchLit
<1>5. \A g \in Gates : GateLit(g) \in AigerLits /\ GateLit(g) > 2 * (NumInputs + NumLatches)
  BY SizesAssumption DEF AigerLits, Gates, GateLit
<1> QED
  BY <1>1, <1>2, <1>3, <1>4, <1>5

\* Every literal is a constant, or the literal of an input, latch or gate, or its negation.
LEMMA LitCases ==
    ASSUME NEW l \in AigerLits
    PROVE  \E p \in {l, Not(l)} :
               \/ p = 0
               \/ \E i \in 1 .. NumInputs : p = 2 * i
               \/ \E i \in Latches : p = LatchLit(i)
               \/ \E g \in Gates : p = GateLit(g)
<1> DEFINE v == l \div 2
<1>1. v \in CircuitVars /\ (l = 2 * v \/ Not(l) = 2 * v)
  <2>1. l = 2 * v \/ l = 2 * v + 1
    BY Parity
  <2>2. v \in CircuitVars /\ v \in Nat
    BY Parity, SizesAssumption DEF CircuitVars
  <2> QED
    BY <2>1, <2>2, Doubled
<1> HIDE DEF v
<1>2. \/ v = 0
      \/ v \in 1 .. NumInputs
      \/ \E i \in Latches : v = NumInputs + i
      \/ \E g \in Gates : v = NumInputs + NumLatches + g
  <2>1. v \notin 1 .. NumInputs /\ v # 0 =>
            (v - NumInputs \in Latches \/ v - NumInputs - NumLatches \in Gates)
    BY <1>1, SizesAssumption DEF CircuitVars, Latches, Gates
  <2>2. v = NumInputs + (v - NumInputs) /\ v = NumInputs + NumLatches + (v - NumInputs - NumLatches)
    BY <1>1, SizesAssumption DEF CircuitVars
  <2> QED
    BY <2>1, <2>2
<1>3. 2 * 0 = 0
  OBVIOUS
<1> QED
  BY <1>1, <1>2, <1>3 DEF LatchLit, GateLit

\* The literals that hold in a state under an input.
Holding(s, x) == {l \in AigerLits : LitHolds(l, Values(s, x))}

\* The circuits are well formed.
LEMMA CircuitTypes ==
    ASSUME circuit \in Circuits
    PROVE  /\ circuit.error \in AigerLits
           /\ \A g \in Gates :
                  /\ circuit.rhs0[g] \in AigerLits /\ circuit.rhs0[g] < GateLit(g)
                  /\ circuit.rhs1[g] \in AigerLits /\ circuit.rhs1[g] < GateLit(g)
           /\ \A i \in Latches :
                  /\ circuit.next[i] \in AigerLits
                  /\ circuit.reset[i] \in {0, 1, LatchLit(i)}
BY CircuitsAssumption DEF ReEncoded, AllCircuits

\* The value of a variable, given those of the variables below it.
ValueOf(s, x, f, v) ==
    LET g == v - NumInputs - NumLatches
        Holds(l) == IF l % 2 = 0 THEN f[l \div 2] ELSE ~ f[l \div 2]
    IN CASE v = 0 -> FALSE
         [] v \in 1 .. NumInputs -> v \in x
         [] v - NumInputs \in Latches -> v - NumInputs \in s
         [] OTHER -> Holds(circuit.rhs0[g]) /\ Holds(circuit.rhs1[g])

\* What the value of an input, a latch or a gate is made of.
LEMMA ValueCases ==
    ASSUME NEW s, NEW x, NEW f, NEW v \in CircuitVars
    PROVE  /\ v = 0 => ~ ValueOf(s, x, f, v)
           /\ v \in 1 .. NumInputs => (ValueOf(s, x, f, v) <=> v \in x)
           /\ v - NumInputs \in Latches => (ValueOf(s, x, f, v) <=> v - NumInputs \in s)
<1>1. CASE v = 0
  <2>1. v \notin 1 .. NumInputs /\ v - NumInputs \notin Latches
    BY <1>1, SizesAssumption DEF Latches
  <2> QED
    BY <1>1, <2>1 DEF ValueOf
<1>2. CASE v \in 1 .. NumInputs
  <2>1. v # 0 /\ v - NumInputs \notin Latches
    BY <1>2, SizesAssumption DEF Latches
  <2> QED
    BY <1>2, <2>1 DEF ValueOf
<1>3. CASE v - NumInputs \in Latches
  <2>1. v # 0 /\ v \notin 1 .. NumInputs
    BY <1>3, SizesAssumption DEF Latches, CircuitVars
  <2> QED
    BY <1>3, <2>1 DEF ValueOf
<1> QED
  BY <1>1, <1>2, <1>3

\* A gate is the conjunction of its operands.
LEMMA ValueOfGate ==
    ASSUME NEW s, NEW x, NEW f, NEW v \in CircuitVars, v - NumInputs - NumLatches \in Gates
    PROVE  ValueOf(s, x, f, v) <=>
               (/\ LitHolds(circuit.rhs0[v - NumInputs - NumLatches], f)
                /\ LitHolds(circuit.rhs1[v - NumInputs - NumLatches], f))
<1>1. v # 0 /\ v \notin 1 .. NumInputs /\ v - NumInputs \notin Latches
  BY SizesAssumption DEF Latches, Gates, CircuitVars
<1> QED
  BY <1>1 DEF ValueOf, LitHolds

\* Every variable is true or false.
LEMMA ValueBoolean ==
    ASSUME NEW s, NEW x, NEW f, NEW v \in CircuitVars
    PROVE  ValueOf(s, x, f, v) \in BOOLEAN
<1>1. CASE v = 0
  <2>1. v \notin 1 .. NumInputs /\ v - NumInputs \notin Latches
    BY <1>1, SizesAssumption DEF Latches
  <2> QED
    BY <1>1, <2>1 DEF ValueOf
<1>2. CASE v \in 1 .. NumInputs
  <2>1. v # 0 /\ v - NumInputs \notin Latches
    BY <1>2, SizesAssumption DEF Latches
  <2> QED
    BY <1>2, <2>1 DEF ValueOf
<1>3. CASE v - NumInputs \in Latches
  <2>1. v # 0 /\ v \notin 1 .. NumInputs
    BY <1>3, SizesAssumption DEF Latches, CircuitVars
  <2> QED
    BY <1>3, <2>1 DEF ValueOf
<1>4. CASE ~ (v = 0 \/ v \in 1 .. NumInputs \/ v - NumInputs \in Latches)
  BY <1>4 DEF ValueOf
<1> QED
  BY <1>1, <1>2, <1>3, <1>4

\* A value depends only on those of the variables below.
LEMMA ValueDepends ==
    ASSUME circuit \in Circuits, NEW s, NEW x, NEW f, NEW h, NEW v \in CircuitVars,
           \A w \in 0 .. v - 1 : f[w] = h[w]
    PROVE  ValueOf(s, x, f, v) = ValueOf(s, x, h, v)
<1> DEFINE g == v - NumInputs - NumLatches
<1>1. CASE v = 0 \/ v \in 1 .. NumInputs \/ v - NumInputs \in Latches
  <2>1. ValueOf(s, x, f, v) <=> ValueOf(s, x, h, v)
    BY <1>1, ValueCases
  <2> QED
    BY <2>1, ValueBoolean
<1>2. CASE ~ (v = 0 \/ v \in 1 .. NumInputs \/ v - NumInputs \in Latches)
  <2>1. g \in Gates /\ GateLit(g) = 2 * v /\ v \in Nat
    BY <1>2, SizesAssumption DEF CircuitVars, Latches, Gates, GateLit
  <2> HIDE DEF g
  <2>2. /\ circuit.rhs0[g] \in AigerLits /\ circuit.rhs0[g] < 2 * v
        /\ circuit.rhs1[g] \in AigerLits /\ circuit.rhs1[g] < 2 * v
    BY <2>1, CircuitTypes
  <2>3. ASSUME NEW l \in AigerLits, l < 2 * v
        PROVE  f[l \div 2] = h[l \div 2]
    <3>1. l \div 2 \in 0 .. v - 1
      BY <2>1, <2>3 DEF AigerLits
    <3> QED
      BY <3>1
  <2>4. /\ f[circuit.rhs0[g] \div 2] = h[circuit.rhs0[g] \div 2]
        /\ f[circuit.rhs1[g] \div 2] = h[circuit.rhs1[g] \div 2]
    BY <2>2, <2>3
  <2>5. ValueOf(s, x, f, v) <=> ValueOf(s, x, h, v)
    <3>1. LitHolds(circuit.rhs0[g], f) <=> LitHolds(circuit.rhs0[g], h)
      BY <2>4 DEF LitHolds
    <3>2. LitHolds(circuit.rhs1[g], f) <=> LitHolds(circuit.rhs1[g], h)
      BY <2>4 DEF LitHolds
    <3> QED
      BY <2>1, <3>1, <3>2, ValueOfGate DEF g
  <2> QED
    BY <2>5, ValueBoolean
<1> QED
  BY <1>1, <1>2

\* The recursion of Values is well founded.
LEMMA ValuesRecursion ==
    ASSUME circuit \in Circuits, NEW s, NEW x
    PROVE  Values(s, x) = [v \in CircuitVars |-> ValueOf(s, x, Values(s, x), v)]
<1> DEFINE N == NumInputs + NumLatches + NumAnds
           IsValue(f, n) == f = [v \in 0 .. n |-> ValueOf(s, x, f, v)]
           S == {n \in Nat : n <= N => \E f : IsValue(f, n)}
<1> HIDE DEF S
<1>1. ASSUME NEW n \in Nat, \A m \in 0 .. n - 1 : m \in S
      PROVE  n \in S
  <2>1. CASE n > N
    BY <2>1, SizesAssumption DEF S
  <2>2. CASE n <= N
    <3>1. PICK f : n = 0 \/ IsValue(f, n - 1)
      <4>1. n = 0 \/ n - 1 \in S
        BY <1>1
      <4>2. n - 1 <= N
        BY <2>2, SizesAssumption
      <4> QED
        BY <4>1, <4>2 DEF S
    <3> DEFINE h == [v \in 0 .. n |-> ValueOf(s, x, f, v)]
    <3>2. \A w \in 0 .. n - 1 : f[w] = h[w]
      BY <3>1
    <3>3. ASSUME NEW v \in 0 .. n
          PROVE  ValueOf(s, x, f, v) = ValueOf(s, x, h, v)
      <4>1. v \in CircuitVars /\ \A w \in 0 .. v - 1 : w \in 0 .. n - 1
        BY <2>2, SizesAssumption DEF CircuitVars
      <4> HIDE DEF h
      <4> QED
        BY <3>2, <4>1, ValueDepends
    <3>4. IsValue(h, n)
      BY <3>3
    <3> QED
      BY <3>4 DEF S
  <2> QED
    BY <2>1, <2>2, SizesAssumption
<1>2. N \in S
  BY <1>1, NaturalInduction, SizesAssumption
<1>3. IsValue(CHOOSE f : IsValue(f, N), N)
  BY <1>2, SizesAssumption DEF S
<1>4. Values(s, x) = CHOOSE f : IsValue(f, N)
  BY DEF Values, ValueOf
<1> QED
  BY <1>3, <1>4 DEF CircuitVars

\* What holds is closed under the gates, and decides every literal.
LEMMA HoldingLits ==
    ASSUME circuit \in Circuits, NEW s, NEW x
    PROVE  /\ Holding(s, x) \subseteq AigerLits
           /\ 0 \notin Holding(s, x) /\ 1 \in Holding(s, x)
           /\ \A l \in AigerLits : Not(l) \in Holding(s, x) <=> l \notin Holding(s, x)
           /\ \A i \in 1 .. NumInputs : 2 * i \in Holding(s, x) <=> i \in x
           /\ \A i \in Latches : LatchLit(i) \in Holding(s, x) <=> i \in s
           /\ \A g \in Gates :
                  GateLit(g) \in Holding(s, x) <=> Operands(g) \subseteq Holding(s, x)
<1> DEFINE f == Values(s, x)
           H == Holding(s, x)
<1>1. \A v \in CircuitVars : f[v] = ValueOf(s, x, f, v)
  BY ValuesRecursion
<1> HIDE DEF f
<1>2. H \subseteq AigerLits
  BY DEF Holding
<1>3. \A v \in CircuitVars : 2 * v \in AigerLits /\ (2 * v) % 2 = 0 /\ (2 * v) \div 2 = v
  BY Doubled, SizesAssumption DEF CircuitVars, AigerLits
<1>4. \A v \in CircuitVars : 2 * v \in H <=> f[v]
  BY <1>3 DEF Holding, LitHolds, f
<1>5. ASSUME NEW l \in AigerLits
      PROVE  Not(l) \in H <=> l \notin H
  <2>1. /\ Not(l) \in AigerLits /\ Not(l) \div 2 = l \div 2
        /\ l % 2 \in {0, 1} /\ Not(l) % 2 = 1 - (l % 2)
    BY NotLit, Parity
  <2>2. CASE l % 2 = 0
    <3>1. Not(l) % 2 # 0
      BY <2>1, <2>2
    <3> QED
      BY <2>1, <2>2, <3>1 DEF Holding, LitHolds
  <2>3. CASE l % 2 = 1
    <3>1. Not(l) % 2 = 0 /\ l % 2 # 0
      BY <2>1, <2>3
    <3> QED
      BY <2>1, <3>1 DEF Holding, LitHolds
  <2> QED
    BY <2>1, <2>2, <2>3
<1>6. 0 \notin H /\ 1 \in H
  <2>1. 0 \in CircuitVars /\ 2 * 0 = 0
    BY SizesAssumption DEF CircuitVars
  <2>2. ~ ValueOf(s, x, f, 0)
    BY ValueCases, <2>1
  <2>3. ~ f[0]
    BY <1>1, <2>1, <2>2
  <2> QED
    BY <1>4, <1>5, <2>1, <2>3, NamedLits
<1>7. ASSUME NEW i \in 1 .. NumInputs
      PROVE  2 * i \in H <=> i \in x
  <2>1. i \in CircuitVars /\ i # 0
    BY SizesAssumption DEF CircuitVars
  <2>2. ValueOf(s, x, f, i) <=> i \in x
    BY <2>1, ValueCases
  <2> QED
    BY <1>1, <1>4, <2>1, <2>2
<1>8. ASSUME NEW i \in Latches
      PROVE  LatchLit(i) \in H <=> i \in s
  <2> DEFINE v == NumInputs + i
  <2>1. v \in CircuitVars /\ v - NumInputs = i
    BY SizesAssumption DEF CircuitVars, Latches
  <2>2. LatchLit(i) = 2 * v
    BY DEF LatchLit
  <2> HIDE DEF v
  <2>3. ValueOf(s, x, f, v) <=> i \in s
    BY <2>1, ValueCases
  <2> QED
    BY <1>1, <1>4, <2>1, <2>2, <2>3
<1>9. ASSUME NEW g \in Gates
      PROVE  GateLit(g) \in H <=> Operands(g) \subseteq H
  <2> DEFINE v == NumInputs + NumLatches + g
  <2>1. /\ v \in CircuitVars /\ v # 0 /\ v \notin 1 .. NumInputs
        /\ v - NumInputs \notin Latches /\ v - NumInputs - NumLatches = g
    BY SizesAssumption DEF CircuitVars, Latches, Gates
  <2>2. GateLit(g) = 2 * v
    BY DEF GateLit
  <2> HIDE DEF v
  <2>3. ValueOf(s, x, f, v) <=> LitHolds(circuit.rhs0[g], f) /\ LitHolds(circuit.rhs1[g], f)
    BY <2>1, ValueOfGate
  <2>4. circuit.rhs0[g] \in AigerLits /\ circuit.rhs1[g] \in AigerLits
    BY CircuitTypes
  <2>5. /\ circuit.rhs0[g] \in H <=> LitHolds(circuit.rhs0[g], f)
        /\ circuit.rhs1[g] \in H <=> LitHolds(circuit.rhs1[g], f)
    BY <2>4 DEF Holding, f
  <2> QED
    BY <1>1, <1>4, <2>1, <2>2, <2>3, <2>5 DEF Operands
<1> QED
  BY <1>2, <1>5, <1>6, <1>7, <1>8, <1>9

-----------------------------------------------------------------------------
(***************************************************************************)
(* The states of the built systems, by the latches that are set.           *)
(***************************************************************************)
StateOf(P) == {IF i \in P THEN i ELSE -i : i \in Latches}

\* Any latches may be set.
LEMMA StateOfLatches ==
    ASSUME NEW P
    PROVE  /\ StateOf(P) \in System!States
           /\ \A i \in Latches : i \in StateOf(P) <=> i \in P
<1>1. Latches \subseteq Int /\ (\A i \in Latches : i > 0)
  BY SizesAssumption DEF Latches
<1>2. \A i \in Latches : i \in StateOf(P) <=> i \in P
  BY <1>1 DEF StateOf
<1>3. \A i \in Latches : -i \in StateOf(P) <=> i \notin P
  <2>1. ASSUME NEW i \in Latches, NEW j \in Latches, -i = -j
        PROVE  i = j
    BY <1>1, <2>1
  <2>2. ASSUME NEW i \in Latches, NEW j \in Latches
        PROVE  -i # j
    BY <1>1
  <2> QED
    BY <2>1, <2>2 DEF StateOf
<1>4. StateOf(P) \subseteq System!Literals
  BY DEF StateOf, System!Literals, System!Vars, Latches
<1>5. \A l \in StateOf(P) : -l \notin StateOf(P)
  <2>1. \A i \in Latches : -(-i) = i
    BY <1>1
  <2> QED
    BY <1>2, <1>3, <2>1 DEF StateOf
<1>6. \A i \in Latches : i \in StateOf(P) \/ -i \in StateOf(P)
  BY <1>2, <1>3
<1> QED
  BY <1>2, <1>4, <1>5, <1>6 DEF System!States, System!Cubes, System!Vars, Latches

\* A state is what it says of the latches.
LEMMA StateLits ==
    ASSUME NEW s \in System!States
    PROVE  /\ \A i \in Latches : -i \in s <=> i \notin s
           /\ \A l \in s : l \in Latches \/ -l \in Latches
<1>1. Latches \subseteq Int
  BY DEF Latches
<1>2. \A i \in Latches : -(-i) = i
  BY <1>1
<1> QED
  BY <1>1, <1>2 DEF System!States, System!Cubes, System!Vars, System!Literals, Latches

\* A state is known by its latches.
LEMMA SameState ==
    ASSUME NEW s \in System!States, NEW t \in System!States,
           \A i \in Latches : i \in s <=> i \in t
    PROVE  s = t
<1>1. ASSUME NEW a \in System!States, NEW b \in System!States,
             \A i \in Latches : i \in a <=> i \in b
      PROVE  a \subseteq b
  <2>1. ASSUME NEW l \in a
        PROVE  l \in b
    <3>1. CASE l \in Latches
      BY <1>1, <2>1, <3>1
    <3>2. CASE -l \in Latches
      <4>1. -(-l) = l
        <5>1. l \in System!Literals
          BY <2>1 DEF System!States, System!Cubes
        <5> QED
          BY <5>1 DEF System!Literals, System!Vars
      <4>2. -l \notin a
        BY <2>1, <3>2, <4>1, StateLits
      <4> QED
        BY <1>1, <3>2, <4>1, <4>2, StateLits
    <3> QED
      BY <2>1, <3>1, <3>2, StateLits
  <2> QED
    BY <2>1
<1> QED
  BY <1>1

-----------------------------------------------------------------------------
(***************************************************************************)
(* Constants: what propagate_trues has found so far.                       *)
(***************************************************************************)
Loops == {"trues", "gates", "latches", "init", "trans", "error", "done"}

\* The types of what the loops work on, and the range of their index.
LoopTyped ==
    /\ circuit \in Circuits
    /\ trueLits \subseteq AigerLits
    /\ required \subseteq AigerLits
    /\ coi \subseteq Latches
    /\ formulas \in [init : SUBSET SUBSET Int, trans : SUBSET SUBSET Int,
                     error : SUBSET SUBSET Int]
    /\ loop \in Loops
    /\ at \in Int
    /\ loop = "trues" => at \in 1 .. NumAnds + 1
    /\ loop = "latches" => at \in 1 .. NumLatches + 1
    /\ loop \notin {"trues", "latches", "init"} => at \in 0 .. NumAnds

\* The gates that propagate_trues has been at.
Passed(g) == loop = "trues" => g < at

\* A decided gate follows from its operands, and every gate that does is decided.
Propagated ==
    /\ 1 \in trueLits
    /\ TruesAreConstant
    /\ \A g \in Gates : IsDecided(GateLit(g)) => Passed(g)
    /\ \A g \in Gates : Passed(g) =>
           /\ (\A l \in Operands(g) : IsTrue(l)) => IsTrue(GateLit(g))
           /\ (\E l \in Operands(g) : IsFalse(l)) => IsFalse(GateLit(g))

\* Constants hold in every state under every input.
LEMMA TruesHold ==
    ASSUME LoopTyped
    PROVE  TruesAreConstant <=> \A s \in System!States, x \in InputSets : trueLits \subseteq Holding(s, x)
BY DEF TruesAreConstant, Holding, LoopTyped

\* No literal is constant both ways.
LEMMA ConstantOneWay ==
    ASSUME LoopTyped, Propagated, NEW l \in AigerLits, IsTrue(l), IsFalse(l)
    PROVE  FALSE
<1>1. StateOf({}) \in System!States /\ {} \in InputSets
  BY StateOfLatches DEF InputSets
<1>2. trueLits \subseteq Holding(StateOf({}), {})
  BY <1>1, TruesHold DEF Propagated
<1>3. circuit \in Circuits
  BY DEF LoopTyped
<1> QED
  BY <1>2, <1>3, HoldingLits DEF IsTrue, IsFalse

\* The operands of a gate are literals below it.
LEMMA OperandLits ==
    ASSUME LoopTyped, NEW g \in Gates, NEW l \in Operands(g)
    PROVE  /\ l \in AigerLits /\ l < GateLit(g)
           /\ Not(l) \in AigerLits /\ Not(l) < GateLit(g) /\ Not(Not(l)) = l
<1>1. l \in AigerLits /\ l < GateLit(g)
  BY CircuitTypes DEF LoopTyped, Operands
<1>2. NumInputs + NumLatches + g \in Nat /\ GateLit(g) = 2 * (NumInputs + NumLatches + g)
  BY SizesAssumption DEF Gates, GateLit
<1> QED
  BY <1>1, <1>2, NotLit, NotBelow

\* An operand of a gate is not a later gate, nor the negation of one.
LEMMA OperandOrder ==
    ASSUME LoopTyped, NEW g \in Gates, NEW h \in Gates, g <= h
    PROVE  GateLit(h) \notin Operands(g) /\ Not(GateLit(h)) \notin Operands(g)
<1>1. GateLit(g) <= GateLit(h) /\ GateLit(g) \in Int /\ GateLit(h) \in AigerLits
  BY NamedLits, SizesAssumption DEF Gates, GateLit
<1>2. Not(Not(GateLit(h))) = GateLit(h)
  BY <1>1, NotLit
<1>3. AigerLits \subseteq Int
  BY DEF AigerLits
<1>4. \A l \in Operands(g) : l # GateLit(h) /\ Not(l) # GateLit(h)
  <2>1. ASSUME NEW l \in Operands(g)
        PROVE  l # GateLit(h) /\ Not(l) # GateLit(h)
    <3>1. /\ l \in AigerLits /\ l < GateLit(g)
          /\ Not(l) \in AigerLits /\ Not(l) < GateLit(g)
      BY OperandLits
    <3>2. l \in Int /\ Not(l) \in Int /\ GateLit(h) \in Int
      BY <1>1, <1>3, <3>1
    <3> QED
      BY <1>1, <3>1, <3>2
  <2> QED
    BY <2>1
<1> QED
  BY <1>2, <1>4

\* Gates have literals of their own.
LEMMA GateLitsDiffer ==
    ASSUME NEW g \in Gates, NEW h \in Gates
    PROVE  /\ GateLit(g) = GateLit(h) => g = h
           /\ Not(GateLit(g)) # GateLit(h) /\ GateLit(g) # Not(GateLit(h))
           /\ Not(GateLit(g)) = Not(GateLit(h)) => g = h
<1>1. GateLit(g) = 2 * (NumInputs + NumLatches + g) /\ GateLit(h) = 2 * (NumInputs + NumLatches + h)
  BY DEF GateLit
<1>2. NumInputs + NumLatches + g \in Nat /\ NumInputs + NumLatches + h \in Nat
  BY SizesAssumption DEF Gates
<1>3. /\ Not(GateLit(g)) = 2 * (NumInputs + NumLatches + g) + 1
      /\ Not(GateLit(h)) = 2 * (NumInputs + NumLatches + h) + 1
  BY <1>1, <1>2, Doubled
<1> QED
  BY <1>1, <1>2, <1>3, SizesAssumption DEF Gates

\* Of an undecided gate no operand is false and some operand is undecided.
LEMMA UndecidedGate ==
    ASSUME LoopTyped, Propagated, loop # "trues", NEW g \in Gates, ~ IsDecided(GateLit(g))
    PROVE  /\ \A l \in Operands(g) : ~ IsFalse(l)
           /\ \E l \in Operands(g) : ~ IsTrue(l)
BY DEF Propagated, Passed, IsDecided

\* The loops keep the types.
LEMMA LoopTypedInit == BuilderInit => LoopTyped
<1> SUFFICES ASSUME BuilderInit PROVE LoopTyped
  OBVIOUS
<1>1. {} \in SUBSET SUBSET Int
  OBVIOUS
<1>2. 1 \in AigerLits
  BY NamedLits
<1>3. 1 \in 1 .. NumAnds + 1
  BY SizesAssumption
<1> QED
  BY <1>1, <1>2, <1>3 DEF BuilderInit, LoopTyped, Loops

\* Clauses are made of integers.
LEMMA FromAigerInt ==
    ASSUME NEW l \in AigerLits
    PROVE  FromAiger(l) \in Int
BY Parity, SizesAssumption DEF FromAiger, AndVar, CircuitVars

\* clausify_and makes clauses.
LEMMA ClausifiedAndTyped ==
    ASSUME LoopTyped, NEW g \in Gates
    PROVE  ClausifiedAnd(g) \in SUBSET SUBSET Int
<1>1. /\ FromAiger(GateLit(g)) \in Int
      /\ FromAiger(circuit.rhs0[g]) \in Int /\ FromAiger(circuit.rhs1[g]) \in Int
  BY CircuitTypes, NamedLits, FromAigerInt DEF LoopTyped
<1> QED
  BY <1>1 DEF ClausifiedAnd, Equivalence

\* build_trans makes clauses of a latch.
LEMMA LatchClausesTyped ==
    ASSUME LoopTyped, NEW i \in Latches
    PROVE  LatchClauses(i) \in SUBSET SUBSET Int
<1>1. FromAiger(circuit.next[i]) \in Int /\ NextVar(i) \in Int
  BY CircuitTypes, FromAigerInt, SizesAssumption DEF LoopTyped, NextVar, Latches
<1> QED
  BY <1>1 DEF LatchClauses, Equivalence

\* Every step of the builder keeps the types.
LEMMA LoopTypedStep ==
    ASSUME LoopTyped, [BuilderNext]_builderVars
    PROVE  LoopTyped'
<1>0. NumAnds \in Nat /\ NumLatches \in Nat
  BY SizesAssumption
<1>1. CASE PropagateGate
  <2>1. at \in Gates
    BY <1>0, <1>1 DEF PropagateGate, LoopTyped, Gates
  <2>2. GateLit(at) \in AigerLits /\ Not(GateLit(at)) \in AigerLits
    BY <2>1, NamedLits, NotLit
  <2>3. trueLits' \subseteq AigerLits
    BY <1>1, <2>2 DEF PropagateGate, LoopTyped
  <2>4. at' \in 1 .. NumAnds + 1
    BY <1>0, <1>1, <2>1 DEF PropagateGate, Gates
  <2> QED
    BY <1>1, <2>3, <2>4 DEF PropagateGate, LoopTyped
<1>2. CASE StartCoi
  <2>1. circuit.error \in AigerLits
    BY CircuitTypes DEF LoopTyped
  <2> QED
    BY <1>0, <1>2, <2>1 DEF StartCoi, LoopTyped, Loops
<1>3. CASE RequireGate
  <2>1. at \in Gates
    BY <1>0, <1>3 DEF RequireGate, LoopTyped, Gates
  <2>2. Operands(at) \subseteq AigerLits
    BY <2>1, OperandLits
  <2>3. required' \subseteq AigerLits
    BY <1>3, <2>2 DEF RequireGate, Require, LoopTyped
  <2>4. at' \in 0 .. NumAnds
    BY <1>0, <1>3, <2>1 DEF RequireGate, Gates
  <2> QED
    BY <1>3, <2>3, <2>4 DEF RequireGate, LoopTyped
<1>4. CASE GatesRequired
  BY <1>0, <1>4 DEF GatesRequired, LoopTyped, Loops
<1>5. CASE RequireLatch
  <2>1. at \in Latches
    BY <1>0, <1>5 DEF RequireLatch, LoopTyped, Latches
  <2>2. circuit.next[at] \in AigerLits
    BY <2>1, CircuitTypes DEF LoopTyped
  <2>3. required' \subseteq AigerLits
    BY <1>5, <2>2 DEF RequireLatch, Require, LoopTyped
  <2>4. at' \in 1 .. NumLatches + 1
    BY <1>0, <1>5, <2>1 DEF RequireLatch, Latches
  <2> QED
    BY <1>5, <2>3, <2>4 DEF RequireLatch, LoopTyped
<1>6. CASE RequireAgain
  BY <1>0, <1>6 DEF RequireAgain, LoopTyped, Loops
<1>7. CASE CoiFound
  BY <1>7 DEF CoiFound, LoopTyped, Loops
<1>8. CASE BuildInit
  <2>1. {circuit.next[i] : i \in {j \in coi : ~ IsDecided(circuit.next[j])}} \subseteq AigerLits
    BY CircuitTypes DEF LoopTyped
  <2>2. {{IF circuit.reset[i] = 0 THEN -StateVar(i) ELSE StateVar(i)} :
               i \in {j \in Latches : circuit.reset[j] \in {0, 1}}} \in SUBSET SUBSET Int
    BY SizesAssumption DEF StateVar, Latches
  <2>3. formulas' \in [init : SUBSET SUBSET Int, trans : SUBSET SUBSET Int, error : SUBSET SUBSET Int]
    BY <1>8, <2>2 DEF BuildInit, LoopTyped
  <2> QED
    BY <1>0, <1>8, <2>1, <2>3 DEF BuildInit, LoopTyped, Loops
<1>9. CASE ClausifyGate
  <2>1. at \in Gates
    BY <1>0, <1>9 DEF ClausifyGate, LoopTyped, Gates
  <2>2. Operands(at) \subseteq AigerLits /\ ClausifiedAnd(at) \in SUBSET SUBSET Int
    BY <2>1, OperandLits, ClausifiedAndTyped
  <2>3. required' \subseteq AigerLits
    BY <1>9, <2>2 DEF ClausifyGate, LoopTyped
  <2>4. formulas' \in [init : SUBSET SUBSET Int, trans : SUBSET SUBSET Int, error : SUBSET SUBSET Int]
    BY <1>9, <2>2 DEF ClausifyGate, LoopTyped
  <2>5. at' \in 0 .. NumAnds
    BY <1>0, <1>9, <2>1 DEF ClausifyGate, Gates
  <2>6. UNCHANGED <<circuit, trueLits, coi, loop>> /\ loop \in {"trans", "error"}
    BY <1>9 DEF ClausifyGate
  <2> QED
    BY <1>9, <2>3, <2>4, <2>5, <2>6 DEF LoopTyped
<1>10. CASE BuildTrans
  <2>1. circuit.error \in AigerLits
    BY CircuitTypes DEF LoopTyped
  <2>2. UNION {LatchClauses(i) : i \in Latches} \in SUBSET SUBSET Int
    BY LatchClausesTyped
  <2>3. formulas' \in [init : SUBSET SUBSET Int, trans : SUBSET SUBSET Int, error : SUBSET SUBSET Int]
    BY <1>10, <2>2 DEF BuildTrans, LoopTyped
  <2>4. loop' \in {"done", "error"} /\ required' = {circuit.error} /\ at' = NumAnds
        /\ UNCHANGED <<circuit, trueLits, coi>>
    BY <1>10 DEF BuildTrans
  <2> QED
    BY <1>0, <2>1, <2>3, <2>4 DEF LoopTyped, Loops
<1>11. CASE BuildError
  <2>1. FromAiger(circuit.error) \in Int
    BY CircuitTypes, FromAigerInt DEF LoopTyped
  <2>2. formulas' \in [init : SUBSET SUBSET Int, trans : SUBSET SUBSET Int, error : SUBSET SUBSET Int]
    BY <1>11, <2>1 DEF BuildError, LoopTyped
  <2> QED
    BY <1>11, <2>2 DEF BuildError, LoopTyped, Loops
<1>12. CASE UNCHANGED builderVars
  BY <1>12 DEF builderVars, LoopTyped
<1> QED
  BY <1>1, <1>2, <1>3, <1>4, <1>5, <1>6, <1>7, <1>8, <1>9, <1>10, <1>11, <1>12
     DEF BuilderNext, BuilderTerminating

\* Before its first gate, propagate_trues knows only the constant.
LEMMA PropagatedInit == BuilderInit => Propagated
<1> SUFFICES ASSUME BuilderInit PROVE Propagated
  OBVIOUS
<1>0. LoopTyped
  BY LoopTypedInit
<1>1. TruesAreConstant
  BY <1>0, HoldingLits, TruesHold DEF BuilderInit, LoopTyped
<1>2. \A g \in Gates : ~ Passed(g)
  BY SizesAssumption DEF BuilderInit, Passed, Gates
<1>3. \A g \in Gates : ~ IsDecided(GateLit(g))
  <2>1. ASSUME NEW g \in Gates
        PROVE  GateLit(g) # 1 /\ Not(GateLit(g)) # 1
    <3>1. GateLit(g) = 2 * (NumInputs + NumLatches + g) /\ NumInputs + NumLatches + g \in Nat \ {0}
      BY SizesAssumption DEF Gates, GateLit
    <3> QED
      BY <3>1, Doubled
  <2> QED
    BY <2>1 DEF BuilderInit, IsDecided, IsTrue, IsFalse
<1> QED
  BY <1>1, <1>2, <1>3 DEF Propagated, BuilderInit

\* A gate is a constant if its operands are true, or one of them is false.
LEMMA PropagatedGate ==
    ASSUME LoopTyped, Propagated, PropagateGate
    PROVE  Propagated'
<1>0. LoopTyped'
  BY LoopTypedStep DEF BuilderNext
<1>1. at \in Gates /\ loop = "trues" /\ loop' = "trues" /\ at' = at + 1 /\ circuit' = circuit
  BY SizesAssumption DEF PropagateGate, LoopTyped, Gates
<1>2. circuit \in Circuits /\ GateLit(at) \in AigerLits /\ Not(GateLit(at)) \in AigerLits
  BY <1>1, NamedLits, NotLit DEF LoopTyped
<1>3. \A s, x : Holding(s, x)' = Holding(s, x)
  BY <1>1 DEF Holding, LitHolds, Values
<1>4. \A g : Operands(g)' = Operands(g)
  BY <1>1 DEF Operands
<1>5. PICK new \in SUBSET {GateLit(at), Not(GateLit(at))} :
          /\ trueLits' = trueLits \cup new
          /\ (\A l \in Operands(at) : IsTrue(l)) => new = {GateLit(at)}
          /\ ~ (\A l \in Operands(at) : IsTrue(l)) /\ (\E l \in Operands(at) : IsFalse(l)) =>
                 new = {Not(GateLit(at))}
          /\ ~ (\A l \in Operands(at) : IsTrue(l)) /\ ~ (\E l \in Operands(at) : IsFalse(l)) =>
                 new = {}
  BY DEF PropagateGate
<1>6. \A s \in System!States, x \in InputSets : trueLits' \subseteq Holding(s, x)
  <2>1. ASSUME NEW s \in System!States, NEW x \in InputSets
        PROVE  new \subseteq Holding(s, x)
    <3>1. trueLits \subseteq Holding(s, x)
      BY TruesHold DEF Propagated
    <3>2. GateLit(at) \in Holding(s, x) <=> Operands(at) \subseteq Holding(s, x)
      BY <1>1, <1>2, HoldingLits
    <3>3. \A l \in AigerLits : Not(l) \in Holding(s, x) <=> l \notin Holding(s, x)
      BY <1>2, HoldingLits
    <3>4. \A l \in Operands(at) : l \in AigerLits
      BY <1>1, OperandLits
    <3>5. CASE \A l \in Operands(at) : IsTrue(l)
      BY <1>5, <3>1, <3>2, <3>5 DEF IsTrue
    <3>6. CASE ~ (\A l \in Operands(at) : IsTrue(l)) /\ (\E l \in Operands(at) : IsFalse(l))
      BY <1>2, <1>5, <3>1, <3>2, <3>3, <3>4, <3>6 DEF IsFalse
    <3> QED
      BY <1>5, <3>5, <3>6
  <2> QED
    BY <1>5, <2>1, TruesHold DEF Propagated
<1>7. TruesAreConstant'
  <2>1. TruesAreConstant' <=> \A s \in System!States, x \in InputSets : trueLits' \subseteq Holding(s, x)
    <3>1. (TruesAreConstant <=> \A s \in System!States, x \in InputSets : trueLits \subseteq Holding(s, x))'
      BY <1>0, TruesHold, PTL
    <3> QED
      BY <1>3, <3>1
  <2> QED
    BY <1>6, <2>1
<1>8. \A g \in Gates : Passed(g)' <=> (Passed(g) \/ g = at)
  BY <1>1 DEF Passed, Gates
<1>9. \A l : IsTrue(l)' <=> IsTrue(l) \/ l \in new
  BY <1>5 DEF IsTrue
<1>10. \A l : IsFalse(l)' <=> IsFalse(l) \/ Not(l) \in new
  BY <1>5 DEF IsFalse, Not
<1>11. \A g \in Gates : IsDecided(GateLit(g))' => Passed(g)'
  BY <1>1, <1>5, <1>8, <1>9, <1>10, GateLitsDiffer DEF Propagated, IsDecided
<1>12. ASSUME NEW g \in Gates, Passed(g)'
       PROVE  /\ (\A l \in Operands(g)' : IsTrue(l)') => IsTrue(GateLit(g))'
              /\ (\E l \in Operands(g)' : IsFalse(l)') => IsFalse(GateLit(g))'
  <2>1. g <= at
    BY <1>1, <1>12 DEF Passed, Gates
  <2>2. \A l \in Operands(g) : l \notin new /\ Not(l) \notin new
    <3>1. ASSUME NEW l \in Operands(g)
          PROVE  l \notin new /\ Not(l) \notin new
      <4>1. GateLit(at) \notin Operands(g) /\ Not(GateLit(at)) \notin Operands(g)
        BY <1>1, <2>1, OperandOrder
      <4>2. Not(l) = GateLit(at) => l = Not(GateLit(at))
        BY OperandLits
      <4>3. Not(l) = Not(GateLit(at)) => l = GateLit(at)
        BY <1>2, OperandLits, NotLit
      <4> QED
        BY <1>5, <4>1, <4>2, <4>3
    <3> QED
      BY <3>1
  <2>3. \A l \in Operands(g) : (IsTrue(l)' <=> IsTrue(l)) /\ (IsFalse(l)' <=> IsFalse(l))
    BY <1>9, <1>10, <2>2
  <2>4. CASE g = at
    <3>1. ASSUME \A l \in Operands(at) : IsTrue(l), \E l \in Operands(at) : IsFalse(l)
          PROVE  FALSE
      <4>1. PICK l \in Operands(at) : IsFalse(l) /\ IsTrue(l)
        BY <3>1
      <4> QED
        BY <1>1, <4>1, ConstantOneWay, OperandLits
    <3> QED
      BY <1>4, <1>5, <1>9, <1>10, <2>3, <2>4, <3>1
  <2>5. CASE g # at
    <3>1. Passed(g)
      BY <1>8, <1>12, <2>5
    <3> QED
      BY <1>4, <1>9, <1>10, <2>3, <3>1 DEF Propagated
  <2> QED
    BY <2>4, <2>5
<1> QED
  BY <1>5, <1>7, <1>11, <1>12 DEF Propagated

\* A step of propagate_trues decides its gate if its operands do, and later
\* steps change nothing.
LEMMA PropagatedStep ==
    ASSUME LoopTyped, Propagated, [BuilderNext]_builderVars
    PROVE  Propagated'
<1>1. CASE PropagateGate
  BY <1>1, PropagatedGate
<1>2. CASE ~ PropagateGate
  <2>1. UNCHANGED <<circuit, trueLits>>
    BY <1>2 DEF BuilderNext, StartCoi, RequireGate, GatesRequired, RequireLatch, RequireAgain,
           CoiFound, BuildInit, ClausifyGate, BuildTrans, BuildError, BuilderTerminating, builderVars
  <2>2. loop = "trues" => (loop' = "trues" /\ at' = at) \/ at > NumAnds
    BY <1>2 DEF BuilderNext, StartCoi, RequireGate, GatesRequired, RequireLatch, RequireAgain,
           CoiFound, BuildInit, ClausifyGate, BuildTrans, BuildError, BuilderTerminating, builderVars
  <2>3. loop # "trues" => loop' # "trues"
    BY <1>2 DEF BuilderNext, StartCoi, RequireGate, GatesRequired, RequireLatch, RequireAgain,
           CoiFound, BuildInit, ClausifyGate, BuildTrans, BuildError, BuilderTerminating, builderVars
  <2>4. \A g \in Gates : Passed(g)' <=> Passed(g)
    <3>1. at > NumAnds /\ loop = "trues" => \A g \in Gates : Passed(g) /\ (loop' = "trues" => at' = at)
      BY <2>2, SizesAssumption, <1>2
         DEF BuilderNext, StartCoi, RequireGate, GatesRequired, RequireLatch, RequireAgain,
           CoiFound, BuildInit, ClausifyGate, BuildTrans, BuildError, BuilderTerminating, builderVars,
           Passed, Gates, LoopTyped
    <3> QED
      BY <2>2, <2>3, <3>1 DEF Passed
  <2>5. TruesAreConstant'
    <3>1. UNCHANGED TruesAreConstant
      BY <2>1 DEF TruesAreConstant, Values, LitHolds
    <3> QED
      BY <3>1 DEF Propagated
  <2>6. \A l : /\ IsTrue(l)' <=> IsTrue(l)
               /\ IsFalse(l)' <=> IsFalse(l)
               /\ IsDecided(l)' <=> IsDecided(l)
    BY <2>1 DEF IsTrue, IsFalse, IsDecided, Not
  <2>7. \A g : Operands(g)' = Operands(g)
    BY <2>1 DEF Operands
  <2> QED
    BY <2>1, <2>4, <2>5, <2>6, <2>7 DEF Propagated
<1> QED
  BY <1>1, <1>2

-----------------------------------------------------------------------------
(***************************************************************************)
(* The cone of influence: what determine_coi has required so far.          *)
(***************************************************************************)
\* A set of required literals needs l, and is closed at a gate or a latch.
NeededIn(l, R) == l \in R \/ Not(l) \in R

GateClosed(g, R)  == NeededIn(GateLit(g), R) /\ ~ IsDecided(GateLit(g)) => Operands(g) \subseteq R
LatchClosed(i, R) == NeededIn(LatchLit(i), R) => circuit.next[i] \in R

\* R holds the error and what it depends on, and coi are the latches in R.
Cone(R) ==
    /\ R \subseteq AigerLits /\ circuit.error \in R
    /\ \A g \in Gates : GateClosed(g, R)
    /\ \A i \in Latches : LatchClosed(i, R)
    /\ coi = {i \in Latches : NeededIn(LatchLit(i), R)}

\* What a pass has been at is closed, unless the pass has changed something.
ConeSought ==
    loop \in {"gates", "latches"} =>
        /\ circuit.error \in required
        /\ ~ changed =>
               /\ \A g \in Gates : (loop = "gates" => g > at) => GateClosed(g, required)
               /\ \A i \in Latches : loop = "latches" /\ i < at => LatchClosed(i, required)

\* When the passes have ended, the cone is closed.
ConeFound == loop \notin {"trues", "gates", "latches"} => \E R \in SUBSET AigerLits : Cone(R)

\* Before their time, there is neither a cone nor a clause.
NothingBuilt ==
    /\ loop \in {"trues", "gates", "latches"} => coi = {}
    /\ loop \in {"trues", "gates", "latches", "init"} =>
           formulas = [init |-> {}, trans |-> {}, error |-> {}]

\* A latch is not a constant.
LEMMA LatchUndecided ==
    ASSUME LoopTyped, Propagated, NEW i \in Latches
    PROVE  ~ IsDecided(LatchLit(i))
<1>1. /\ StateOf({}) \in System!States /\ i \notin StateOf({})
      /\ StateOf({i}) \in System!States /\ i \in StateOf({i})
      /\ {} \in InputSets
  BY StateOfLatches DEF InputSets
<1>2. trueLits \subseteq Holding(StateOf({}), {}) /\ trueLits \subseteq Holding(StateOf({i}), {})
  BY <1>1, TruesHold DEF Propagated
<1>3. circuit \in Circuits /\ LatchLit(i) \in AigerLits
  BY NamedLits DEF LoopTyped
<1>4. LatchLit(i) \notin Holding(StateOf({}), {}) /\ LatchLit(i) \in Holding(StateOf({i}), {})
  BY <1>1, <1>3, HoldingLits
<1>5. Not(LatchLit(i)) \notin Holding(StateOf({i}), {})
  BY <1>3, <1>4, HoldingLits
<1> QED
  BY <1>2, <1>4, <1>5 DEF IsDecided, IsTrue, IsFalse

\* An error that is a constant depends on nothing.
LEMMA ConstantCone ==
    ASSUME LoopTyped, Propagated, IsDecided(circuit.error), coi = {}
    PROVE  Cone({circuit.error})
<1>1. circuit.error \in AigerLits
  BY CircuitTypes DEF LoopTyped
<1>2. \A l \in AigerLits : NeededIn(l, {circuit.error}) => IsDecided(l)
  BY NotLit DEF NeededIn, IsDecided, IsTrue, IsFalse
<1>3. \A i \in Latches : ~ NeededIn(LatchLit(i), {circuit.error})
  BY <1>2, LatchUndecided, NamedLits
<1>4. \A g \in Gates : GateClosed(g, {circuit.error})
  BY <1>2, NamedLits DEF GateClosed
<1> QED
  BY <1>1, <1>3, <1>4 DEF Cone, LatchClosed

\* What is closed stays so while nothing is required.
LEMMA ClosedStays ==
    ASSUME UNCHANGED <<circuit, trueLits>>, NEW R
    PROVE  /\ \A g : GateClosed(g, R)' <=> GateClosed(g, R)
           /\ \A i : LatchClosed(i, R)' <=> LatchClosed(i, R)
           /\ coi' = coi => (Cone(R)' <=> Cone(R))
BY DEF GateClosed, LatchClosed, Cone, NeededIn, Not, IsDecided, IsTrue, IsFalse, Operands

\* What closes a set does not depend on where the loops are.
LEMMA RequiredStays ==
    ASSUME UNCHANGED <<circuit, trueLits, required>>
    PROVE  /\ \A g : GateClosed(g, required)' <=> GateClosed(g, required)
           /\ \A i : LatchClosed(i, required)' <=> LatchClosed(i, required)
BY DEF GateClosed, LatchClosed, NeededIn, Not, IsDecided, IsTrue, IsFalse, Operands

\* Nothing is built before its loop.
LEMMA NothingBuiltStep ==
    ASSUME NothingBuilt, [BuilderNext]_builderVars
    PROVE  NothingBuilt'
BY DEF NothingBuilt, BuilderNext, PropagateGate, StartCoi, RequireGate, GatesRequired, RequireLatch,
       RequireAgain, CoiFound, BuildInit, ClausifyGate, BuildTrans, BuildError, BuilderTerminating,
       builderVars

\* A pass that changes nothing has found everything closed.
LEMMA ConeSoughtStep ==
    ASSUME LoopTyped, ConeSought, [BuilderNext]_builderVars
    PROVE  ConeSought'
<1>0. NumAnds \in Nat /\ NumLatches \in Nat
  BY SizesAssumption
<1>1. CASE PropagateGate
  BY <1>1 DEF PropagateGate, ConeSought
<1>2. CASE StartCoi
  <2>1. circuit' = circuit /\ required' = {circuit.error} /\ loop' \in {"init", "gates"} /\ at' = NumAnds
    BY <1>2 DEF StartCoi
  <2>2. \A g \in Gates : ~ (g > NumAnds)
    BY <1>0 DEF Gates
  <2> QED
    BY <2>1, <2>2 DEF ConeSought
<1>3. CASE RequireGate
  <2>1. /\ at \in Gates /\ loop = "gates" /\ loop' = "gates" /\ at' = at - 1
        /\ UNCHANGED <<circuit, trueLits>> /\ required \subseteq required'
    BY <1>0, <1>3 DEF RequireGate, Require, LoopTyped, Gates
  <2>2. ASSUME ~ changed'
        PROVE  ~ changed /\ required' = required /\ GateClosed(at, required)
    BY <1>3, <2>2 DEF RequireGate, Require, GateClosed, NeededIn, Needed
  <2>3. \A g \in Gates : g > at' => g > at \/ g = at
    BY <2>1 DEF Gates
  <2>4. ~ changed' => \A g \in Gates : g > at' => GateClosed(g, required)
    BY <2>1, <2>2, <2>3 DEF ConeSought
  <2>5. ~ changed' => \A g \in Gates : g > at' => GateClosed(g, required)'
    BY <2>1, <2>2, <2>4, RequiredStays
  <2> QED
    BY <2>1, <2>5 DEF ConeSought
<1>4. CASE GatesRequired
  <2>1. /\ loop = "gates" /\ at = 0 /\ loop' = "latches" /\ at' = 1
        /\ UNCHANGED <<circuit, trueLits, required, changed>>
    BY <1>4 DEF GatesRequired
  <2>2. (\A g \in Gates : g > 0) /\ (\A i \in Latches : ~ (i < 1))
    BY DEF Gates, Latches
  <2>3. ~ changed => \A g \in Gates : GateClosed(g, required)'
    BY <2>1, <2>2, RequiredStays DEF ConeSought
  <2> QED
    BY <2>1, <2>2, <2>3 DEF ConeSought
<1>5. CASE RequireLatch
  <2>1. /\ at \in Latches /\ loop = "latches" /\ loop' = "latches" /\ at' = at + 1
        /\ UNCHANGED <<circuit, trueLits>> /\ required \subseteq required'
    BY <1>0, <1>5 DEF RequireLatch, Require, LoopTyped, Latches
  <2>2. ASSUME ~ changed'
        PROVE  ~ changed /\ required' = required /\ LatchClosed(at, required)
    BY <1>5, <2>2 DEF RequireLatch, Require, LatchClosed, NeededIn, Needed
  <2>3. \A i \in Latches : i < at' => i < at \/ i = at
    BY <2>1 DEF Latches
  <2>4. ~ changed' => /\ \A i \in Latches : i < at' => LatchClosed(i, required)
                      /\ \A g \in Gates : GateClosed(g, required)
    BY <2>1, <2>2, <2>3 DEF ConeSought
  <2>5. ~ changed' => /\ \A i \in Latches : i < at' => LatchClosed(i, required)'
                      /\ \A g \in Gates : GateClosed(g, required)'
    BY <2>1, <2>2, <2>4, RequiredStays
  <2> QED
    BY <2>1, <2>5 DEF ConeSought
<1>6. CASE RequireAgain
  <2>1. /\ circuit' = circuit /\ required' = required /\ loop = "latches"
        /\ loop' = "gates" /\ at' = NumAnds
    BY <1>6 DEF RequireAgain
  <2>2. \A g \in Gates : ~ (g > NumAnds)
    BY <1>0 DEF Gates
  <2> QED
    BY <2>1, <2>2 DEF ConeSought
<1>7. CASE CoiFound \/ BuildInit \/ ClausifyGate \/ BuildTrans \/ BuildError \/ BuilderTerminating
  BY <1>7 DEF CoiFound, BuildInit, ClausifyGate, BuildTrans, BuildError, BuilderTerminating,
              builderVars, ConeSought
<1>8. CASE UNCHANGED builderVars
  <2>1. UNCHANGED <<circuit, trueLits, required, changed, loop, at>>
    BY <1>8 DEF builderVars
  <2>2. /\ \A g : GateClosed(g, required)' <=> GateClosed(g, required)
        /\ \A i : LatchClosed(i, required)' <=> LatchClosed(i, required)
    BY <2>1, RequiredStays
  <2> QED
    BY <2>1, <2>2 DEF ConeSought
<1> QED
  BY <1>1, <1>2, <1>3, <1>4, <1>5, <1>6, <1>7, <1>8 DEF BuilderNext

\* The passes end with a cone, and the later loops keep it.
LEMMA ConeFoundStep ==
    ASSUME LoopTyped, Propagated, NothingBuilt, ConeSought, ConeFound, [BuilderNext]_builderVars
    PROVE  ConeFound'
<1>1. CASE StartCoi
  <2>1. /\ UNCHANGED <<circuit, trueLits, coi>> /\ loop = "trues"
        /\ loop' = IF IsDecided(circuit.error) THEN "init" ELSE "gates"
    BY <1>1 DEF StartCoi
  <2>2. circuit.error \in AigerLits
    BY CircuitTypes DEF LoopTyped
  <2>3. IsDecided(circuit.error) => Cone({circuit.error})'
    BY <2>1, ConstantCone, ClosedStays DEF NothingBuilt
  <2> QED
    BY <2>1, <2>2, <2>3 DEF ConeFound
<1>2. CASE CoiFound
  <2>1. /\ UNCHANGED <<circuit, trueLits, required>> /\ loop = "latches" /\ ~ changed
        /\ at > NumLatches
        /\ coi' = {i \in Latches : Needed(LatchLit(i))}
    BY <1>2 DEF CoiFound
  <2>2. \A i \in Latches : i < at
    BY <2>1, SizesAssumption DEF Latches, LoopTyped
  <2>3. /\ \A g \in Gates : GateClosed(g, required)
        /\ \A i \in Latches : LatchClosed(i, required)
        /\ circuit.error \in required /\ required \subseteq AigerLits
    BY <2>1, <2>2 DEF ConeSought, LoopTyped
  <2>4. /\ \A g \in Gates : GateClosed(g, required)'
        /\ \A i \in Latches : LatchClosed(i, required)'
    BY <2>1, <2>3, RequiredStays
  <2>5. Cone(required)'
    BY <2>1, <2>3, <2>4 DEF Cone, NeededIn, Needed, Not
  <2> QED
    BY <2>1, <2>3, <2>5 DEF ConeFound
<1>3. CASE ~ StartCoi /\ ~ CoiFound
  <2>1. loop' \notin {"trues", "gates", "latches"} =>
            loop \notin {"trues", "gates", "latches"} /\ UNCHANGED <<circuit, trueLits, coi>>
    BY <1>3 DEF BuilderNext, PropagateGate, RequireGate, GatesRequired, RequireLatch,
         RequireAgain, BuildInit, ClausifyGate, BuildTrans, BuildError, BuilderTerminating,
         builderVars
  <2> QED
    BY <2>1, ClosedStays DEF ConeFound
<1> QED
  BY <1>1, <1>2, <1>3

-----------------------------------------------------------------------------
(***************************************************************************)
(* The clauses: what clausify_subgraph has translated so far.              *)
(***************************************************************************)
\* The undecided gates after n that a set of literals needs.
Collected(R, n) == {g \in Gates : g > n /\ NeededIn(GateLit(g), R) /\ ~ IsDecided(GateLit(g))}

\* What clausify_subgraph makes of a set of gates, and what those gates need.
GateClauses(D) == UNION {ClausifiedAnd(g) : g \in D}

GateOperands(D) == UNION {Operands(g) : g \in D}

\* D holds every undecided gate that the roots and its own gates depend on.
Supported(D, roots) ==
    /\ \A g \in D : ~ IsDecided(GateLit(g))
    /\ \A h \in Gates : NeededIn(GateLit(h), roots \cup GateOperands(D)) /\ ~ IsDecided(GateLit(h)) => h \in D

\* What build_trans starts from, and what build_init makes.
TransRoots == {circuit.next[i] : i \in {j \in coi : ~ IsDecided(circuit.next[j])}}

InitClauses ==
    {{IF circuit.reset[i] = 0 THEN -StateVar(i) ELSE StateVar(i)} :
        i \in {j \in Latches : circuit.reset[j] \in {0, 1}}}

\* What each formula is once its loop has ended, and while the loop runs.
InitBuilt == loop \in {"trans", "error", "done"} => formulas.init = InitClauses

\* The gates that clausify_subgraph has been at are translated if they are needed.
GatesTranslated(roots, clauses) ==
    /\ roots \subseteq required
    /\ GateOperands(Collected(required, at)) \subseteq required
    /\ clauses = GateClauses(Collected(required, at))

TransSought ==
    loop = "trans" => GatesTranslated(TransRoots, formulas.trans) /\ formulas.error = {}

TransBuilt ==
    loop \in {"error", "done"} =>
        \E D \in SUBSET Gates :
            /\ Supported(D, TransRoots)
            /\ formulas.trans = GateClauses(D) \cup UNION {LatchClauses(i) : i \in Latches}

ErrorSought ==
    loop = "error" => /\ ~ IsDecided(circuit.error)
                      /\ GatesTranslated({circuit.error}, formulas.error)

ErrorBuilt ==
    loop = "done" =>
        \/ IsTrue(circuit.error) /\ formulas.error = {}
        \/ IsFalse(circuit.error) /\ formulas.error = {{}}
        \/ /\ ~ IsDecided(circuit.error)
           /\ \E D \in SUBSET Gates :
                  /\ Supported(D, {circuit.error})
                  /\ formulas.error = GateClauses(D) \cup {{FromAiger(circuit.error)}}

\* Nothing is translated before the first gate.
LEMMA TranslationStarts ==
    ASSUME at = NumAnds, NEW roots, roots \subseteq required
    PROVE  GatesTranslated(roots, {})
<1>1. Collected(required, at) = {}
  BY SizesAssumption DEF Collected, Gates
<1> QED
  BY <1>1 DEF GatesTranslated, GateClauses, GateOperands

\* The gate at hand is translated if it is needed, and requires its operands then.
LEMMA TranslationGoesOn ==
    ASSUME LoopTyped, ClausifyGate, NEW roots, NEW clauses, NEW more,
           GatesTranslated(roots, clauses),
           IF Needed(GateLit(at)) /\ ~ IsDecided(GateLit(at))
           THEN more = clauses \cup ClausifiedAnd(at) ELSE more = clauses
    PROVE  GatesTranslated(roots, more)'
<1>1. /\ at \in Gates /\ at' = at - 1 /\ UNCHANGED <<circuit, trueLits>>
      /\ required \subseteq required'
  BY SizesAssumption DEF ClausifyGate, LoopTyped, Gates
<1>2. \A g \in Gates : /\ IsDecided(GateLit(g))' <=> IsDecided(GateLit(g))
                       /\ Operands(g)' = Operands(g)
                       /\ ClausifiedAnd(g)' = ClausifiedAnd(g)
  BY <1>1 DEF IsDecided, IsTrue, IsFalse, Operands, ClausifiedAnd
<1>3. \A g \in Gates : g > at' <=> g > at \/ g = at
  BY <1>1 DEF Gates
<1>4. ASSUME NEW g \in Gates, g >= at
      PROVE  NeededIn(GateLit(g), required') <=> NeededIn(GateLit(g), required)
  <2>1. GateLit(g) \notin Operands(at) /\ Not(GateLit(g)) \notin Operands(at)
    BY <1>1, <1>4, OperandOrder DEF Gates
  <2>2. required' = required \/ required' = required \cup Operands(at)
    BY DEF ClausifyGate
  <2> QED
    BY <2>1, <2>2 DEF NeededIn
<1>5. \A g \in Gates : g > at \/ g = at => g >= at
  BY <1>1 DEF Gates
<1>6. Collected(required, at)' =
          {g \in Gates : g > at' /\ NeededIn(GateLit(g), required') /\ ~ IsDecided(GateLit(g))}
  BY <1>2 DEF Collected, NeededIn, Not
<1>7. PICK C \in SUBSET Gates : C = Collected(required, at)
  BY DEF Collected
<1>8. PICK D \in SUBSET Gates : D = Collected(required, at)'
  BY <1>6
<1>9. GatesTranslated(roots, more)' <=>
          /\ roots \subseteq required'
          /\ GateOperands(D) \subseteq required'
          /\ more = GateClauses(D)
  <2>1. GateOperands(D)' = GateOperands(D) /\ GateClauses(D)' = GateClauses(D)
    BY <1>2 DEF GateOperands, GateClauses
  <2> QED
    BY <1>8, <2>1 DEF GatesTranslated
<1>10. CASE Needed(GateLit(at)) /\ ~ IsDecided(GateLit(at))
  <2>1. D = C \cup {at}
    BY <1>1, <1>3, <1>4, <1>5, <1>6, <1>7, <1>8, <1>10 DEF Collected, Needed, NeededIn
  <2>2. required' = required \cup Operands(at) /\ more = clauses \cup ClausifiedAnd(at)
    BY <1>10 DEF ClausifyGate
  <2>3. GateOperands(D) = GateOperands(C) \cup Operands(at)
    BY <2>1 DEF GateOperands
  <2>4. GateClauses(D) = GateClauses(C) \cup ClausifiedAnd(at)
    BY <2>1 DEF GateClauses
  <2> QED
    BY <1>7, <1>9, <2>2, <2>3, <2>4 DEF GatesTranslated
<1>11. CASE ~ (Needed(GateLit(at)) /\ ~ IsDecided(GateLit(at)))
  <2>1. D = C
    BY <1>1, <1>3, <1>4, <1>5, <1>6, <1>7, <1>8, <1>11 DEF Collected, Needed, NeededIn
  <2>2. required' = required /\ more = clauses
    BY <1>11 DEF ClausifyGate
  <2> QED
    BY <1>7, <1>9, <2>1, <2>2 DEF GatesTranslated
<1> QED
  BY <1>10, <1>11

\* When all gates have been looked at, all that matter are translated.
LEMMA TranslationEnds ==
    ASSUME LoopTyped, at = 0, NEW roots, NEW clauses, GatesTranslated(roots, clauses)
    PROVE  \E D \in SUBSET Gates : Supported(D, roots) /\ clauses = GateClauses(D)
<1> DEFINE D == Collected(required, at)
<1>1. \A g \in Gates : g > at
  BY DEF Gates
<1>2. D \subseteq Gates
  BY DEF Collected
<1>3. \A g \in D : ~ IsDecided(GateLit(g))
  BY DEF Collected
<1>4. \A h \in Gates : NeededIn(GateLit(h), roots \cup GateOperands(D)) /\ ~ IsDecided(GateLit(h)) => h \in D
  BY <1>1 DEF Collected, NeededIn, GatesTranslated
<1> QED
  BY <1>2, <1>3, <1>4 DEF Supported, GatesTranslated

\* What the invariants of the clauses speak of depends on circuit, trueLits and coi only.
LEMMA ClausesStay ==
    ASSUME UNCHANGED <<circuit, trueLits, coi>>
    PROVE  /\ TransRoots' = TransRoots /\ InitClauses' = InitClauses
           /\ \A l : (IsTrue(l)' <=> IsTrue(l)) /\ (IsFalse(l)' <=> IsFalse(l))
                     /\ (IsDecided(l)' <=> IsDecided(l))
           /\ \A D, R : Supported(D, R)' <=> Supported(D, R)
           /\ \A D : GateClauses(D)' = GateClauses(D)
           /\ \A i : LatchClauses(i)' = LatchClauses(i)
<1>1. \A l : (IsTrue(l)' <=> IsTrue(l)) /\ (IsFalse(l)' <=> IsFalse(l))
             /\ (IsDecided(l)' <=> IsDecided(l))
  BY DEF IsTrue, IsFalse, IsDecided, Not
<1>2. TransRoots' = TransRoots
  BY <1>1 DEF TransRoots
<1>3. InitClauses' = InitClauses
  BY DEF InitClauses, StateVar
<1>4. \A D, R : Supported(D, R)' <=> Supported(D, R)
  BY <1>1 DEF Supported, GateOperands, Operands, NeededIn, GateLit, Not
<1>5. \A D : GateClauses(D)' = GateClauses(D)
  <2>1. \A g : ClausifiedAnd(g)' = ClausifiedAnd(g)
    BY <1>1 DEF ClausifiedAnd
  <2> QED
    BY <2>1 DEF GateClauses
<1>6. \A i : LatchClauses(i)' = LatchClauses(i)
  BY <1>1 DEF LatchClauses
<1> QED
  BY <1>1, <1>2, <1>3, <1>4, <1>5, <1>6

\* What is known of all three formulas.
Translated == InitBuilt /\ TransSought /\ TransBuilt /\ ErrorSought /\ ErrorBuilt

\* Each clausify_subgraph ends with the gates that its roots depend on translated.
LEMMA TranslatedStep ==
    ASSUME LoopTyped, Propagated, NothingBuilt, Translated, [BuilderNext]_builderVars
    PROVE  Translated'
<1>0. NumAnds \in Nat /\ NumLatches \in Nat
  BY SizesAssumption
<1>1. CASE PropagateGate \/ StartCoi \/ RequireGate \/ GatesRequired \/ RequireLatch
           \/ RequireAgain \/ CoiFound
  <2>1. loop' \notin {"trans", "error", "done"}
    BY <1>1 DEF PropagateGate, StartCoi, RequireGate, GatesRequired, RequireLatch,
                RequireAgain, CoiFound
  <2> QED
    BY <2>1 DEF Translated, InitBuilt, TransSought, TransBuilt, ErrorSought, ErrorBuilt
<1>2. CASE BuildInit
  <2>1. /\ UNCHANGED <<circuit, trueLits, coi>> /\ loop = "init" /\ loop' = "trans"
        /\ at' = NumAnds /\ required' = TransRoots
        /\ formulas' = [formulas EXCEPT !.init = InitClauses]
    BY <1>2 DEF BuildInit, TransRoots, InitClauses
  <2>2. formulas'.init = InitClauses /\ formulas'.trans = {} /\ formulas'.error = {}
    BY <2>1 DEF NothingBuilt
  <2>3. GatesTranslated(TransRoots, {})'
    <3>1. PICK roots : roots = TransRoots
      OBVIOUS
    <3>2. roots = TransRoots'
      BY <2>1, <3>1, ClausesStay
    <3>3. (at = NumAnds /\ roots \subseteq required => GatesTranslated(roots, {}))'
      BY TranslationStarts, PTL
    <3>4. GatesTranslated(roots, {})'
      BY <2>1, <3>1, <3>3
    <3> QED
      BY <3>2, <3>4 DEF GatesTranslated
  <2>4. InitClauses' = InitClauses
    BY <2>1, ClausesStay
  <2> QED
    BY <2>1, <2>2, <2>3, <2>4
       DEF Translated, InitBuilt, TransSought, TransBuilt, ErrorSought, ErrorBuilt
<1>3. CASE ClausifyGate
  <2>1. UNCHANGED <<circuit, trueLits, coi, loop>> /\ loop \in {"trans", "error"}
    BY <1>3 DEF ClausifyGate
  <2>2. IF Needed(GateLit(at)) /\ ~ IsDecided(GateLit(at))
        THEN formulas' = [formulas EXCEPT ![loop] = @ \cup ClausifiedAnd(at)]
        ELSE formulas' = formulas
    BY <1>3 DEF ClausifyGate
  <2>3. formulas'.init = formulas.init
    BY <2>1, <2>2 DEF LoopTyped
  <2>4. PICK roots : roots = IF loop = "trans" THEN TransRoots ELSE {circuit.error}
    OBVIOUS
  <2>5. roots = IF loop' = "trans" THEN TransRoots' ELSE {circuit'.error}
    BY <2>1, <2>4, ClausesStay
  <2>6. PICK clauses, more : clauses = formulas[loop] /\ more = formulas'[loop]
    OBVIOUS
  <2>7. GatesTranslated(roots, clauses)
    BY <2>1, <2>4, <2>6 DEF Translated, TransSought, ErrorSought
  <2>8. IF Needed(GateLit(at)) /\ ~ IsDecided(GateLit(at))
        THEN more = clauses \cup ClausifiedAnd(at) ELSE more = clauses
    BY <2>1, <2>2, <2>6 DEF LoopTyped
  <2>9. GatesTranslated(roots, more)'
    BY <1>3, <2>7, <2>8, TranslationGoesOn
  <2>10. IF loop = "trans" THEN formulas'.error = formulas.error ELSE formulas'.trans = formulas.trans
    BY <2>1, <2>2 DEF LoopTyped
  <2>11. CASE loop = "trans"
    BY <2>1, <2>3, <2>5, <2>6, <2>9, <2>10, <2>11, ClausesStay
       DEF Translated, InitBuilt, TransSought, TransBuilt, ErrorSought, ErrorBuilt, GatesTranslated
  <2>12. CASE loop = "error"
    <3>1. InitBuilt' /\ TransSought' /\ ErrorBuilt'
      BY <2>1, <2>3, <2>12, ClausesStay DEF Translated, InitBuilt, TransSought, ErrorBuilt
    <3>2. TransBuilt'
      BY <2>1, <2>10, <2>12, ClausesStay DEF Translated, TransBuilt
    <3>3. ErrorSought'
      BY <2>1, <2>5, <2>6, <2>9, <2>12, ClausesStay DEF Translated, ErrorSought, GatesTranslated
    <3> QED
      BY <3>1, <3>2, <3>3 DEF Translated
  <2> QED
    BY <2>1, <2>11, <2>12
<1>4. CASE BuildTrans
  <2>1. /\ UNCHANGED <<circuit, trueLits, coi>> /\ loop = "trans" /\ at = 0
        /\ required' = {circuit.error} /\ at' = NumAnds
        /\ loop' = IF IsDecided(circuit.error) THEN "done" ELSE "error"
    BY <1>4 DEF BuildTrans
  <2>2. /\ formulas'.init = formulas.init
        /\ formulas'.trans = formulas.trans \cup UNION {LatchClauses(i) : i \in Latches}
        /\ formulas'.error = IF IsFalse(circuit.error) THEN {{}} ELSE {}
    BY <1>4 DEF BuildTrans, LoopTyped
  <2>3. PICK D \in SUBSET Gates : Supported(D, TransRoots) /\ formulas.trans = GateClauses(D)
    <3>1. PICK roots, clauses : roots = TransRoots /\ clauses = formulas.trans
      OBVIOUS
    <3> QED
      BY <2>1, <3>1, TranslationEnds DEF Translated, TransSought
  <2>4. InitBuilt' /\ TransSought'
    BY <2>1, <2>2, ClausesStay DEF Translated, InitBuilt, TransSought
  <2>5. TransBuilt'
    <3>1. formulas'.trans = GateClauses(D)' \cup UNION {LatchClauses(i)' : i \in Latches}
      BY <2>1, <2>2, <2>3, ClausesStay
    <3>2. Supported(D, TransRoots)'
      BY <2>1, <2>3, ClausesStay
    <3> QED
      BY <3>1, <3>2 DEF TransBuilt
  <2>6. ErrorSought'
    <3>1. PICK roots : roots = {circuit.error}
      OBVIOUS
    <3>2. (at = NumAnds /\ roots \subseteq required => GatesTranslated(roots, {}))'
      BY TranslationStarts, PTL
    <3>3. GatesTranslated(roots, {})'
      BY <2>1, <3>1, <3>2
    <3>4. loop' = "error" => formulas'.error = {} /\ ~ IsDecided(circuit.error)'
      BY <2>1, <2>2, ClausesStay DEF IsDecided
    <3> QED
      BY <2>1, <3>1, <3>3, <3>4 DEF ErrorSought, GatesTranslated
  <2>7. ErrorBuilt'
    <3>1. IsTrue(circuit.error) => ~ IsFalse(circuit.error)
      BY ConstantOneWay, CircuitTypes DEF LoopTyped
    <3>2. /\ IsTrue(circuit.error)' <=> IsTrue(circuit.error)
          /\ IsFalse(circuit.error)' <=> IsFalse(circuit.error)
      BY <2>1 DEF IsTrue, IsFalse, Not
    <3> QED
      BY <2>1, <2>2, <3>1, <3>2 DEF ErrorBuilt, IsDecided
  <2> QED
    BY <2>4, <2>5, <2>6, <2>7 DEF Translated
<1>5. CASE BuildError
  <2>1. /\ UNCHANGED <<circuit, trueLits, coi>> /\ loop = "error" /\ at = 0 /\ loop' = "done"
    BY <1>5 DEF BuildError
  <2>2. /\ formulas'.init = formulas.init /\ formulas'.trans = formulas.trans
        /\ formulas'.error = formulas.error \cup {{FromAiger(circuit.error)}}
    BY <1>5 DEF BuildError, LoopTyped
  <2>3. PICK D \in SUBSET Gates : Supported(D, {circuit.error}) /\ formulas.error = GateClauses(D)
    <3>1. PICK roots, clauses : roots = {circuit.error} /\ clauses = formulas.error
      OBVIOUS
    <3> QED
      BY <2>1, <3>1, TranslationEnds DEF Translated, ErrorSought
  <2>4. InitBuilt' /\ TransSought' /\ ErrorSought'
    BY <2>1, <2>2, ClausesStay DEF Translated, InitBuilt, TransSought, ErrorSought
  <2>5. TransBuilt'
    BY <2>1, <2>2, ClausesStay DEF Translated, TransBuilt
  <2>6. ErrorBuilt'
    <3>1. Supported(D, {circuit.error})'
      BY <2>1, <2>3 DEF Supported, GateOperands, Operands, NeededIn, IsDecided, IsTrue, IsFalse
    <3>2. formulas'.error = GateClauses(D)' \cup {{FromAiger(circuit.error)}}
      BY <2>1, <2>2, <2>3, ClausesStay
    <3>3. ~ IsDecided(circuit.error)'
      BY <2>1 DEF Translated, ErrorSought, IsDecided, IsTrue, IsFalse
    <3> QED
      BY <2>1, <3>1, <3>2, <3>3 DEF ErrorBuilt
  <2> QED
    BY <2>4, <2>5, <2>6 DEF Translated
<1>6. CASE UNCHANGED builderVars
  <2>1. UNCHANGED <<circuit, trueLits, coi, required, at, formulas, loop>>
    BY <1>6 DEF builderVars
  <2>2. InitBuilt' /\ TransBuilt'
    BY <2>1, ClausesStay DEF Translated, InitBuilt, TransBuilt
  <2>3. Collected(required, at)' = Collected(required, at)
    BY <2>1 DEF Collected, NeededIn, IsDecided, IsTrue, IsFalse, Not
  <2>4. \A D : GateOperands(D)' = GateOperands(D)
    BY <2>1 DEF GateOperands, Operands
  <2>5. PICK C : C = Collected(required, at)
    OBVIOUS
  <2>6. TransSought' /\ ErrorSought'
    <3>1. IsDecided(circuit.error)' <=> IsDecided(circuit.error)
      BY <2>1 DEF IsDecided, IsTrue, IsFalse
    <3>2. \A roots, clauses : GatesTranslated(roots, clauses)' <=> GatesTranslated(roots, clauses)
      BY <2>1, <2>3, <2>4, <2>5, ClausesStay DEF GatesTranslated
    <3> QED
      BY <2>1, <3>1, <3>2, ClausesStay DEF Translated, TransSought, ErrorSought, GatesTranslated
  <2>7. ErrorBuilt'
    <3>1. \A R : R = {circuit.error} => R = {circuit.error}'
      BY <2>1
    <3>2. \A l : l = circuit.error => l = circuit'.error
      BY <2>1
    <3> QED
      BY <2>1, <3>1, <3>2, ClausesStay DEF Translated, ErrorBuilt
  <2> QED
    BY <2>2, <2>6, <2>7 DEF Translated
<1> QED
  BY <1>1, <1>2, <1>3, <1>4, <1>5, <1>6 DEF BuilderNext, BuilderTerminating

-----------------------------------------------------------------------------
(***************************************************************************)
(* The invariant of the loops of the builder.                              *)
(***************************************************************************)
BuilderInvariant == LoopTyped /\ Propagated /\ NothingBuilt /\ ConeSought /\ ConeFound /\ Translated

\* All of it holds before the first loop.
LEMMA BuilderInvariantInit == BuilderInit => BuilderInvariant
<1> SUFFICES ASSUME BuilderInit PROVE BuilderInvariant
  OBVIOUS
<1>1. LoopTyped /\ Propagated
  BY LoopTypedInit, PropagatedInit
<1>2. NothingBuilt /\ ConeSought /\ ConeFound /\ Translated
  BY DEF BuilderInit, NothingBuilt, ConeSought, ConeFound, Translated, InitBuilt, TransSought,
         TransBuilt, ErrorSought, ErrorBuilt
<1> QED
  BY <1>1, <1>2 DEF BuilderInvariant

\* Every part is kept, given the ones before it.
LEMMA BuilderInvariantStep ==
    ASSUME BuilderInvariant, [BuilderNext]_builderVars
    PROVE  BuilderInvariant'
BY LoopTypedStep, PropagatedStep, NothingBuiltStep, ConeSoughtStep, ConeFoundStep, TranslatedStep
   DEF BuilderInvariant

\* What is said of the builder's variables in each loop holds throughout.
THEOREM BuilderInvariantHolds == BuilderSpec => []BuilderInvariant
<1>1. BuilderInit => BuilderInvariant
  BY BuilderInvariantInit
<1>2. BuilderInvariant /\ [BuilderNext]_builderVars => BuilderInvariant'
  BY BuilderInvariantStep
<1> QED
  BY <1>1, <1>2, PTL DEF BuilderSpec

-----------------------------------------------------------------------------
(***************************************************************************)
(* From the circuit's literals to those of the formulas.                   *)
(***************************************************************************)
LEMMA FromAigerNames ==
    /\ \A i \in 1 .. NumInputs : FromAiger(2 * i) = i
    /\ \A i \in Latches : FromAiger(LatchLit(i)) = StateVar(i)
    /\ \A g \in Gates : FromAiger(GateLit(g)) = AndVar(g)
<1>2. ASSUME NEW v \in CircuitVars
      PROVE  FromAiger(2 * v) =
                 IF v <= NumInputs + NumLatches THEN v ELSE AndVar(v - NumInputs - NumLatches)
  <2>1. (2 * v) % 2 = 0 /\ (2 * v) \div 2 = v
    BY SizesAssumption, Doubled DEF CircuitVars
  <2> QED
    BY <2>1 DEF FromAiger
<1>3. ASSUME NEW i \in 1 .. NumInputs
      PROVE  FromAiger(2 * i) = i
  <2>1. i \in CircuitVars /\ i <= NumInputs + NumLatches
    BY SizesAssumption DEF CircuitVars
  <2> QED
    BY <1>2, <2>1
<1>4. ASSUME NEW i \in Latches
      PROVE  FromAiger(LatchLit(i)) = StateVar(i)
  <2>1. NumInputs + i \in CircuitVars /\ NumInputs + i <= NumInputs + NumLatches
    BY SizesAssumption DEF CircuitVars, Latches
  <2> QED
    BY <1>2, <2>1 DEF LatchLit, StateVar
<1>5. ASSUME NEW g \in Gates
      PROVE  FromAiger(GateLit(g)) = AndVar(g)
  <2> DEFINE v == NumInputs + NumLatches + g
  <2>1. v \in CircuitVars /\ ~ (v <= NumInputs + NumLatches) /\ v - NumInputs - NumLatches = g
    BY SizesAssumption DEF CircuitVars, Gates
  <2>2. GateLit(g) = 2 * v
    BY DEF GateLit
  <2> HIDE DEF v
  <2> QED
    BY <1>2, <2>1, <2>2
<1> QED
  BY <1>3, <1>4, <1>5

\* from_aiger_lit respects negation.
LEMMA FromAigerNot ==
    ASSUME NEW l \in AigerLits
    PROVE  FromAiger(Not(l)) = -FromAiger(l)
<1> DEFINE v   == l \div 2
           var == IF v <= NumInputs + NumLatches THEN v ELSE AndVar(v - NumInputs - NumLatches)
<1>1. var \in Int
  BY Parity, SizesAssumption DEF CircuitVars, AndVar
<1>2. Not(l) \div 2 = v /\ Not(l) % 2 = 1 - (l % 2) /\ l % 2 \in {0, 1}
  BY NotLit, Parity
<1> HIDE DEF v
<1>3. FromAiger(l) = IF l % 2 = 0 THEN var ELSE -var
  BY DEF FromAiger, v
<1>4. FromAiger(Not(l)) = IF Not(l) % 2 = 0 THEN var ELSE -var
  BY <1>2 DEF FromAiger
<1> HIDE DEF var
<1>5. CASE l % 2 = 0
  <2>1. Not(l) % 2 # 0
    BY <1>2, <1>5
  <2> QED
    BY <1>3, <1>4, <1>5, <2>1
<1>6. CASE l % 2 = 1
  <2>1. Not(l) % 2 = 0 /\ l % 2 # 0 /\ -(-var) = var
    BY <1>1, <1>2, <1>6
  <2> QED
    BY <1>3, <1>4, <2>1
<1> QED
  BY <1>2, <1>5, <1>6

\* The variables of the formulas.
LEMMA FormulaVars ==
    /\ \A i \in Latches : StateVar(i) \in Nat \ {0} /\ NextVar(i) \in Nat \ {0}
    /\ \A g \in Gates : AndVar(g) \in Nat \ {0}
BY SizesAssumption DEF StateVar, NextVar, AndVar, Latches, Gates

\* Only a constant becomes a zero.
LEMMA FromAigerNonzero ==
    ASSUME NEW l \in AigerLits, l \notin {0, 1}
    PROVE  FromAiger(l) # 0 /\ -FromAiger(l) # 0
<1>1. PICK p \in {l, Not(l)} :
          \/ p = 0
          \/ \E i \in 1 .. NumInputs : p = 2 * i
          \/ \E i \in Latches : p = LatchLit(i)
          \/ \E g \in Gates : p = GateLit(g)
  BY LitCases
<1>2. p # 0
  BY <1>1, NamedLits, NotLit
<1>3. FromAiger(p) # 0
  BY <1>1, <1>2, FromAigerNames, FormulaVars
<1>4. FromAiger(l) \in Int /\ FromAiger(Not(l)) = -FromAiger(l)
  BY FromAigerInt, FromAigerNot
<1> QED
  BY <1>1, <1>3, <1>4

\* An undecided literal is not a constant.
LEMMA UndecidedLit ==
    ASSUME LoopTyped, Propagated, NEW l \in AigerLits, ~ IsDecided(l)
    PROVE  FromAiger(l) # 0 /\ -FromAiger(l) # 0
<1>1. IsDecided(0) /\ IsDecided(1)
  BY NamedLits DEF Propagated, IsDecided, IsTrue, IsFalse
<1> QED
  BY <1>1, FromAigerNonzero

\* The clauses of an undecided gate hold no constant: a decided operand would
\* decide the gate or is left out.
LEMMA NoConstantInGates ==
    ASSUME LoopTyped, Propagated, loop # "trues", NEW g \in Gates, ~ IsDecided(GateLit(g)),
           NEW c \in ClausifiedAnd(g)
    PROVE  0 \notin c
<1>1. \A l \in Operands(g) : l \in AigerLits /\ (~ IsTrue(l) => ~ IsDecided(l))
  BY UndecidedGate, OperandLits DEF IsDecided
<1>2. FromAiger(GateLit(g)) # 0 /\ -FromAiger(GateLit(g)) # 0
  BY UndecidedLit, NamedLits
<1>3. \A l \in Operands(g) : ~ IsTrue(l) => FromAiger(l) # 0 /\ -FromAiger(l) # 0
  BY <1>1, UndecidedLit
<1>4. ~ (IsTrue(circuit.rhs0[g]) /\ IsTrue(circuit.rhs1[g]))
  BY UndecidedGate DEF Operands
<1> QED
  BY <1>2, <1>3, <1>4 DEF ClausifiedAnd, Equivalence, Operands

\* Nor do those of a latch.
LEMMA NoConstantInLatches ==
    ASSUME LoopTyped, Propagated, NEW i \in Latches, NEW c \in LatchClauses(i)
    PROVE  0 \notin c
<1>1. NextVar(i) # 0 /\ -NextVar(i) # 0
  BY FormulaVars
<1>2. circuit.next[i] \in AigerLits
  BY CircuitTypes DEF LoopTyped
<1>3. ~ IsTrue(circuit.next[i]) /\ ~ IsFalse(circuit.next[i]) =>
          FromAiger(circuit.next[i]) # 0 /\ -FromAiger(circuit.next[i]) # 0
  BY <1>2, UndecidedLit DEF IsDecided
<1> QED
  BY <1>1, <1>3 DEF LatchClauses, Equivalence

\* The invariant excludes constants in clauses.
LEMMA ClausesWithoutConstants ==
    ASSUME BuilderInvariant
    PROVE  NoConstantInClauses
<1>1. LoopTyped /\ Propagated
  BY DEF BuilderInvariant
<1>2. ASSUME NEW D \in SUBSET Gates, \A g \in D : ~ IsDecided(GateLit(g)), loop # "trues"
      PROVE  \A c \in GateClauses(D) : 0 \notin c
  BY <1>1, <1>2, NoConstantInGates DEF GateClauses
<1>3. \A c \in formulas.init : 0 \notin c
  <2>1. \A c \in InitClauses : 0 \notin c
    BY FormulaVars DEF InitClauses
  <2> QED
    BY <1>1, <2>1 DEF BuilderInvariant, NothingBuilt, Translated, InitBuilt, LoopTyped, Loops
<1>4. \A n : \A g \in Collected(required, n) : g \in Gates /\ ~ IsDecided(GateLit(g))
  BY DEF Collected
<1>5. \A c \in formulas.trans : 0 \notin c
  <2>1. CASE loop = "trans"
    <3>1. formulas.trans = GateClauses(Collected(required, at))
      BY <2>1 DEF BuilderInvariant, Translated, TransSought, GatesTranslated
    <3> QED
      BY <1>2, <1>4, <2>1, <3>1
  <2>2. CASE loop \in {"error", "done"}
    <3>1. PICK D \in SUBSET Gates :
              /\ Supported(D, TransRoots)
              /\ formulas.trans = GateClauses(D) \cup UNION {LatchClauses(i) : i \in Latches}
      BY <2>2 DEF BuilderInvariant, Translated, TransBuilt
    <3>2. \A c \in GateClauses(D) : 0 \notin c
      BY <1>2, <2>2, <3>1 DEF Supported
    <3> QED
      BY <1>1, <3>1, <3>2, NoConstantInLatches
  <2>3. CASE loop \notin {"trans", "error", "done"}
    BY <1>1, <2>3 DEF BuilderInvariant, NothingBuilt, LoopTyped, Loops
  <2> QED
    BY <2>1, <2>2, <2>3
<1>6. \A c \in formulas.error : 0 \notin c
  <2>1. CASE loop = "error"
    <3>1. formulas.error = GateClauses(Collected(required, at))
      BY <2>1 DEF BuilderInvariant, Translated, ErrorSought, GatesTranslated
    <3> QED
      BY <1>2, <1>4, <2>1, <3>1
  <2>2. CASE loop = "done"
    <3>1. CASE ~ IsDecided(circuit.error)
      <4>1. PICK D \in SUBSET Gates :
                /\ Supported(D, {circuit.error})
                /\ formulas.error = GateClauses(D) \cup {{FromAiger(circuit.error)}}
        BY <2>2, <3>1 DEF BuilderInvariant, Translated, ErrorBuilt, IsDecided
      <4>2. \A c \in GateClauses(D) : 0 \notin c
        BY <1>2, <2>2, <4>1 DEF Supported
      <4>3. FromAiger(circuit.error) # 0
        BY <1>1, <3>1, UndecidedLit, CircuitTypes DEF LoopTyped
      <4> QED
        BY <4>1, <4>2, <4>3
    <3>2. CASE IsDecided(circuit.error)
      BY <2>2, <3>2 DEF BuilderInvariant, Translated, ErrorBuilt
    <3> QED
      BY <3>1, <3>2
  <2>3. CASE loop \notin {"error", "done"}
    BY <1>1, <2>3 DEF BuilderInvariant, NothingBuilt, Translated, TransSought, LoopTyped, Loops
  <2> QED
    BY <2>1, <2>2, <2>3
<1> QED
  BY <1>3, <1>5, <1>6 DEF NoConstantInClauses

(***************************************************************************)
(* from_aiger_lit's assertion: no constant gets into a clause.             *)
(***************************************************************************)
THEOREM ClausesHaveNoConstants == BuilderSpec => []NoConstantInClauses
<1>1. BuilderInvariant => NoConstantInClauses
  BY ClausesWithoutConstants
<1> QED
  BY <1>1, BuilderInvariantHolds, PTL

-----------------------------------------------------------------------------
(***************************************************************************)
(* What the clauses say of a valuation of their variables.                 *)
(***************************************************************************)
\* The literals that hold when the auxiliary variables in on do.
AllLits(s, x, u, on) == Fixed(s, x, u) \cup on \cup {-v : v \in AndVars \ on}

\* A valuation has a literal or its negation, and says what it is made of.
LEMMA ValuationLits ==
    ASSUME NEW s, NEW x, NEW u, NEW on \in SUBSET AndVars
    PROVE  LET all == AllLits(s, x, u, on) IN
           /\ \A i \in 1 .. NumInputs : (i \in all <=> i \in x) /\ (-i \in all <=> i \notin x)
           /\ \A i \in Latches : /\ StateVar(i) \in all <=> i \in s
                                 /\ -StateVar(i) \in all <=> i \notin s
           /\ \A i \in Latches : /\ NextVar(i) \in all <=> i \in u
                                 /\ -NextVar(i) \in all <=> i \notin u
           /\ \A g \in Gates : /\ AndVar(g) \in all <=> AndVar(g) \in on
                               /\ -AndVar(g) \in all <=> AndVar(g) \notin on
<1> DEFINE all == AllLits(s, x, u, on)
           I == {IF i \in x THEN i ELSE -i : i \in 1 .. NumInputs}
           S == {IF i \in s THEN StateVar(i) ELSE -StateVar(i) : i \in Latches}
           U == {IF i \in u THEN NextVar(i) ELSE -NextVar(i) : i \in Latches}
           A == on \cup {-v : v \in AndVars \ on}
<1>0. NumInputs \in Nat /\ NumLatches \in Nat
  BY SizesAssumption
<1>1. \A l : l \in all <=> l \in I \/ l \in S \/ l \in U \/ l \in A
  BY DEF AllLits, Fixed
<1>2. \A i \in Latches : /\ StateVar(i) > NumInputs /\ StateVar(i) <= NumInputs + NumLatches
                         /\ NextVar(i) > NumInputs + NumLatches
                         /\ NextVar(i) <= NumInputs + 2 * NumLatches
                         /\ StateVar(i) \in Int /\ NextVar(i) \in Int
  BY <1>0 DEF StateVar, NextVar, Latches
<1>3. \A g \in Gates : AndVar(g) \in Int /\ AndVar(g) > NumInputs + 2 * NumLatches
  BY <1>0 DEF AndVar, Gates
<1>4. \A v \in AndVars : v \in Int /\ v > NumInputs + 2 * NumLatches
  BY <1>3 DEF AndVars
<1>5. \A l \in I : l \in Int /\ \/ l >= 1 /\ l <= NumInputs
                                \/ l <= -1 /\ l >= -NumInputs
  BY <1>0
<1>6. \A l \in S : l \in Int /\ \/ l > NumInputs /\ l <= NumInputs + NumLatches
                                \/ l < -NumInputs /\ l >= -(NumInputs + NumLatches)
  BY <1>0, <1>2
<1>7. \A l \in U : l \in Int /\ \/ l > NumInputs + NumLatches /\ l <= NumInputs + 2 * NumLatches
                                \/ /\ l < -(NumInputs + NumLatches)
                                   /\ l >= -(NumInputs + 2 * NumLatches)
  BY <1>0, <1>2
<1>8. \A l \in A : l \in Int /\ \/ l > NumInputs + 2 * NumLatches
                                \/ l < -(NumInputs + 2 * NumLatches)
  BY <1>0, <1>4
<1>9. ASSUME NEW i \in 1 .. NumInputs
      PROVE  (i \in all <=> i \in x) /\ (-i \in all <=> i \notin x)
  <2>1. /\ i \notin S /\ i \notin U /\ i \notin A
        /\ -i \notin S /\ -i \notin U /\ -i \notin A
    <3> HIDE DEF S, U, A
    <3> QED
      BY <1>0, <1>6, <1>7, <1>8
  <2>2. (i \in I <=> i \in x) /\ (-i \in I <=> i \notin x)
    <3>1. \A j \in 1 .. NumInputs : (i = j <=> -i = -j) /\ i # -j /\ -i # j
      OBVIOUS
    <3> QED
      BY <3>1
  <2> QED
    BY <1>1, <2>1, <2>2
<1>10. ASSUME NEW i \in Latches
       PROVE  (StateVar(i) \in all <=> i \in s) /\ (-StateVar(i) \in all <=> i \notin s)
  <2>1. /\ StateVar(i) \notin I /\ StateVar(i) \notin U /\ StateVar(i) \notin A
        /\ -StateVar(i) \notin I /\ -StateVar(i) \notin U /\ -StateVar(i) \notin A
    <3> HIDE DEF I, U, A
    <3> QED
      BY <1>0, <1>2, <1>5, <1>7, <1>8
  <2>2. (StateVar(i) \in S <=> i \in s) /\ (-StateVar(i) \in S <=> i \notin s)
    <3>1. \A j \in Latches : /\ StateVar(i) = StateVar(j) <=> i = j
                             /\ -StateVar(i) = -StateVar(j) <=> i = j
                             /\ StateVar(i) # -StateVar(j) /\ -StateVar(i) # StateVar(j)
      BY <1>0 DEF StateVar, Latches
    <3> QED
      BY <3>1
  <2> QED
    BY <1>1, <2>1, <2>2
<1>11. ASSUME NEW i \in Latches
       PROVE  (NextVar(i) \in all <=> i \in u) /\ (-NextVar(i) \in all <=> i \notin u)
  <2>1. /\ NextVar(i) \notin I /\ NextVar(i) \notin S /\ NextVar(i) \notin A
        /\ -NextVar(i) \notin I /\ -NextVar(i) \notin S /\ -NextVar(i) \notin A
    <3> HIDE DEF I, S, A
    <3> QED
      BY <1>0, <1>2, <1>5, <1>6, <1>8
  <2>2. (NextVar(i) \in U <=> i \in u) /\ (-NextVar(i) \in U <=> i \notin u)
    <3>1. \A j \in Latches : /\ NextVar(i) = NextVar(j) <=> i = j
                             /\ -NextVar(i) = -NextVar(j) <=> i = j
                             /\ NextVar(i) # -NextVar(j) /\ -NextVar(i) # NextVar(j)
      BY <1>0 DEF NextVar, Latches
    <3> QED
      BY <3>1
  <2> QED
    BY <1>1, <2>1, <2>2
<1>12. ASSUME NEW g \in Gates
       PROVE  /\ AndVar(g) \in all <=> AndVar(g) \in on
              /\ -AndVar(g) \in all <=> AndVar(g) \notin on
  <2>1. /\ AndVar(g) \notin I /\ AndVar(g) \notin S /\ AndVar(g) \notin U
        /\ -AndVar(g) \notin I /\ -AndVar(g) \notin S /\ -AndVar(g) \notin U
    <3> HIDE DEF I, S, U
    <3> QED
      BY <1>0, <1>3, <1>5, <1>6, <1>7
  <2>2. /\ AndVar(g) \in A <=> AndVar(g) \in on
        /\ -AndVar(g) \in A <=> AndVar(g) \notin on
    <3>1. \A v \in AndVars : /\ -AndVar(g) = -v <=> AndVar(g) = v
                             /\ AndVar(g) # -v /\ -AndVar(g) # v
      BY <1>0, <1>3, <1>4
    <3>2. AndVar(g) \in AndVars
      BY DEF AndVars
    <3> QED
      BY <3>1, <3>2
  <2> QED
    BY <1>1, <2>1, <2>2
<1> QED
  BY <1>9, <1>10, <1>11, <1>12

\* The literals of the circuit that a valuation makes true.
Told(all) == {l \in AigerLits : FromAiger(l) \in all}

\* What is told of the circuit's literals other than the constants.
LEMMA ToldLits ==
    ASSUME NEW s, NEW x, NEW u, NEW on \in SUBSET AndVars
    PROVE  LET all == AllLits(s, x, u, on) IN
           /\ \A l \in AigerLits : l \notin {0, 1} =>
                  /\ -FromAiger(l) \in all <=> FromAiger(l) \notin all
                  /\ Not(l) \in Told(all) <=> l \notin Told(all)
           /\ \A i \in 1 .. NumInputs : 2 * i \in Told(all) <=> i \in x
           /\ \A i \in Latches : LatchLit(i) \in Told(all) <=> i \in s
           /\ \A g \in Gates : GateLit(g) \in Told(all) <=> AndVar(g) \in on
<1> DEFINE all == AllLits(s, x, u, on)
<1>1. /\ \A i \in 1 .. NumInputs : (i \in all <=> i \in x) /\ (-i \in all <=> i \notin x)
      /\ \A i \in Latches : (StateVar(i) \in all <=> i \in s) /\ (-StateVar(i) \in all <=> i \notin s)
      /\ \A g \in Gates : (AndVar(g) \in all <=> AndVar(g) \in on) /\ (-AndVar(g) \in all <=> AndVar(g) \notin on)
  BY ValuationLits
<1> HIDE DEF all
<1>2. ASSUME NEW l \in AigerLits, l \notin {0, 1}
      PROVE  -FromAiger(l) \in all <=> FromAiger(l) \notin all
  <2>1. PICK p \in {l, Not(l)} :
            \/ p = 0
            \/ \E i \in 1 .. NumInputs : p = 2 * i
            \/ \E i \in Latches : p = LatchLit(i)
            \/ \E g \in Gates : p = GateLit(g)
    BY LitCases
  <2>2. p # 0
    BY <1>2, <2>1, NamedLits, NotLit
  <2>3. -FromAiger(p) \in all <=> FromAiger(p) \notin all
    BY <1>1, <2>1, <2>2, FromAigerNames
  <2>4. FromAiger(l) \in Int /\ FromAiger(Not(l)) = -FromAiger(l) /\ -(-FromAiger(l)) = FromAiger(l)
    BY FromAigerInt, FromAigerNot
  <2> QED
    BY <2>1, <2>3, <2>4
<1>3. \A l \in AigerLits : l \notin {0, 1} => (Not(l) \in Told(all) <=> l \notin Told(all))
  BY <1>2, NotLit, FromAigerNot DEF Told
<1> QED
  BY <1>1, <1>2, <1>3, NamedLits, FromAigerNames DEF Told, all

\* A valuation satisfies a set of clauses.
Holds(clauses, all) == \A c \in clauses : c \cap all # {}

\* Clauses are satisfiable by some choice of auxiliary variables.
LEMMA SatisfiableBy ==
    ASSUME NEW clauses, NEW s, NEW x, NEW u
    PROVE  Satisfiable(clauses, Fixed(s, x, u)) <=>
               \E on \in SUBSET AndVars : Holds(clauses, AllLits(s, x, u, on))
BY DEF Satisfiable, Holds, AllLits

\* An equivalence says that two literals agree.
LEMMA EquivalenceHolds ==
    ASSUME NEW a, NEW b, NEW all, -a \in all <=> a \notin all, -b \in all <=> b \notin all
    PROVE  Holds(Equivalence(a, b), all) <=> (a \in all <=> b \in all)
BY DEF Holds, Equivalence

\* The clauses of a gate say that it is the conjunction of its operands.
LEMMA GateMeaning ==
    ASSUME LoopTyped, Propagated, loop # "trues", NEW g \in Gates, ~ IsDecided(GateLit(g)),
           NEW s, NEW x, NEW u, NEW on \in SUBSET AndVars
    PROVE  LET all == AllLits(s, x, u, on) IN
           Holds(ClausifiedAnd(g), all) <=>
               (GateLit(g) \in Told(all) <=> \A l \in Operands(g) : IsTrue(l) \/ l \in Told(all))
<1> DEFINE all == AllLits(s, x, u, on)
           lhs == FromAiger(GateLit(g))
           rhs0 == FromAiger(circuit.rhs0[g])
           rhs1 == FromAiger(circuit.rhs1[g])
<1>1. 1 \in trueLits /\ Not(0) = 1
  BY NamedLits DEF Propagated
<1>2. ASSUME NEW l \in AigerLits, ~ IsDecided(l)
      PROVE  -FromAiger(l) \in all <=> FromAiger(l) \notin all
  <2>1. l \notin {0, 1}
    BY <1>1, <1>2 DEF IsDecided, IsTrue, IsFalse
  <2> QED
    BY <2>1, ToldLits
<1>3. \A l \in Operands(g) : l \in AigerLits /\ (~ IsTrue(l) => ~ IsDecided(l))
  BY UndecidedGate, OperandLits DEF IsDecided
<1>4. -lhs \in all <=> lhs \notin all
  BY <1>2, NamedLits
<1>5. ~ IsTrue(circuit.rhs0[g]) => (-rhs0 \in all <=> rhs0 \notin all)
  BY <1>2, <1>3 DEF Operands
<1>6. ~ IsTrue(circuit.rhs1[g]) => (-rhs1 \in all <=> rhs1 \notin all)
  BY <1>2, <1>3 DEF Operands
<1>7. ~ (IsTrue(circuit.rhs0[g]) /\ IsTrue(circuit.rhs1[g]))
  BY UndecidedGate DEF Operands
<1>8. /\ GateLit(g) \in Told(all) <=> lhs \in all
      /\ circuit.rhs0[g] \in Told(all) <=> rhs0 \in all
      /\ circuit.rhs1[g] \in Told(all) <=> rhs1 \in all
  BY <1>3, NamedLits DEF Told, Operands
<1> HIDE DEF all, lhs, rhs0, rhs1
<1>9. (\A l \in Operands(g) : IsTrue(l) \/ l \in Told(all)) <=>
          /\ IsTrue(circuit.rhs0[g]) \/ rhs0 \in all
          /\ IsTrue(circuit.rhs1[g]) \/ rhs1 \in all
  BY <1>8 DEF Operands
<1>10. CASE IsTrue(circuit.rhs0[g])
  <2>1. ClausifiedAnd(g) = Equivalence(lhs, rhs1)
    BY <1>10 DEF ClausifiedAnd, lhs, rhs1
  <2>2. Holds(Equivalence(lhs, rhs1), all) <=> (lhs \in all <=> rhs1 \in all)
    BY <1>4, <1>6, <1>7, <1>10, EquivalenceHolds
  <2> QED
    BY <1>7, <1>8, <1>9, <1>10, <2>1, <2>2 DEF all
<1>11. CASE ~ IsTrue(circuit.rhs0[g]) /\ IsTrue(circuit.rhs1[g])
  <2>1. ClausifiedAnd(g) = Equivalence(lhs, rhs0)
    BY <1>11 DEF ClausifiedAnd, lhs, rhs0
  <2>2. Holds(Equivalence(lhs, rhs0), all) <=> (lhs \in all <=> rhs0 \in all)
    BY <1>4, <1>5, <1>11, EquivalenceHolds
  <2> QED
    BY <1>8, <1>9, <1>11, <2>1, <2>2 DEF all
<1>12. CASE ~ IsTrue(circuit.rhs0[g]) /\ ~ IsTrue(circuit.rhs1[g])
  <2>1. ClausifiedAnd(g) = {{-lhs, rhs0}, {-lhs, rhs1}, {-rhs0, -rhs1, lhs}}
    BY <1>12 DEF ClausifiedAnd, lhs, rhs0, rhs1
  <2>2. Holds(ClausifiedAnd(g), all) <=> (lhs \in all <=> rhs0 \in all /\ rhs1 \in all)
    BY <1>4, <1>5, <1>6, <1>12, <2>1 DEF Holds
  <2> QED
    BY <1>8, <1>9, <1>12, <2>2 DEF all
<1> QED
  BY <1>10, <1>11, <1>12

\* The clauses of a latch fix its next state.
LEMMA LatchMeaning ==
    ASSUME LoopTyped, Propagated, NEW i \in Latches,
           NEW s, NEW x, NEW u, NEW on \in SUBSET AndVars
    PROVE  LET all  == AllLits(s, x, u, on)
               next == circuit.next[i]
           IN Holds(LatchClauses(i), all) <=>
                  (i \in u <=> \/ IsTrue(next)
                               \/ i \in coi /\ ~ IsFalse(next) /\ next \in Told(all))
<1> DEFINE all == AllLits(s, x, u, on)
           next == circuit.next[i]
<1>1. (NextVar(i) \in all <=> i \in u) /\ (-NextVar(i) \in all <=> i \notin u)
  BY ValuationLits
<1>2. next \in AigerLits
  BY CircuitTypes DEF LoopTyped
<1>3. ~ IsDecided(next) => (-FromAiger(next) \in all <=> FromAiger(next) \notin all)
  <2>1. IsDecided(0) /\ IsDecided(1)
    BY NamedLits DEF Propagated, IsDecided, IsTrue, IsFalse
  <2> QED
    BY <1>2, <2>1, ToldLits
<1>4. next \in Told(all) <=> FromAiger(next) \in all
  BY <1>2 DEF Told
<1> HIDE DEF all, next
<1>5. CASE IsTrue(next)
  <2>1. LatchClauses(i) = {{NextVar(i)}}
    BY <1>5 DEF LatchClauses, next
  <2> QED
    BY <1>1, <1>5, <2>1 DEF Holds, all, next
<1>6. CASE ~ IsTrue(next) /\ (IsFalse(next) \/ i \notin coi)
  <2>1. LatchClauses(i) = {{-NextVar(i)}}
    BY <1>6 DEF LatchClauses, next
  <2> QED
    BY <1>1, <1>6, <2>1 DEF Holds, all, next
<1>7. CASE ~ IsTrue(next) /\ ~ IsFalse(next) /\ i \in coi
  <2>1. LatchClauses(i) = Equivalence(NextVar(i), FromAiger(next))
    BY <1>7 DEF LatchClauses, next
  <2>2. Holds(LatchClauses(i), all) <=> (NextVar(i) \in all <=> FromAiger(next) \in all)
    BY <1>1, <1>3, <1>7, <2>1, EquivalenceHolds DEF IsDecided
  <2> QED
    BY <1>1, <1>4, <1>7, <2>2 DEF all, next
<1> QED
  BY <1>5, <1>6, <1>7

\* Sets that agree on inputs, latches and gates agree on a literal.
LEMMA LitsAgree ==
    ASSUME NEW T, NEW H, NEW l \in AigerLits, l \notin {0, 1},
           Not(l) \in T <=> l \notin T, Not(l) \in H <=> l \notin H,
           \A i \in 1 .. NumInputs : 2 * i \in T <=> 2 * i \in H,
           \A i \in Latches : NeededIn(LatchLit(i), {l}) => (LatchLit(i) \in T <=> LatchLit(i) \in H),
           \A g \in Gates : NeededIn(GateLit(g), {l}) => (GateLit(g) \in T <=> GateLit(g) \in H)
    PROVE  l \in T <=> l \in H
<1>1. PICK p \in {l, Not(l)} :
          \/ p = 0
          \/ \E i \in 1 .. NumInputs : p = 2 * i
          \/ \E i \in Latches : p = LatchLit(i)
          \/ \E g \in Gates : p = GateLit(g)
  BY LitCases
<1>2. p # 0
  BY <1>1, NamedLits, NotLit
<1>3. NeededIn(p, {l})
  BY <1>1, NotLit DEF NeededIn
<1>4. p \in T <=> p \in H
  BY <1>1, <1>2, <1>3
<1> QED
  BY <1>1, <1>4

\* A literal that no constant decides is not a constant.
LEMMA ConstantsDecided ==
    ASSUME Propagated, NEW l, ~ IsDecided(l)
    PROVE  l \notin {0, 1}
BY NamedLits DEF Propagated, IsDecided, IsTrue, IsFalse

\* Whether a constant holds does not depend on the state.
LEMMA DecidedHolds ==
    ASSUME LoopTyped, Propagated, NEW s \in System!States, NEW x \in InputSets, NEW l \in AigerLits
    PROVE  /\ IsTrue(l) => l \in Holding(s, x)
           /\ IsFalse(l) => l \notin Holding(s, x)
<1>1. trueLits \subseteq Holding(s, x)
  BY TruesHold DEF Propagated
<1>2. Not(l) \in Holding(s, x) <=> l \notin Holding(s, x)
  BY HoldingLits DEF LoopTyped
<1> QED
  BY <1>1, <1>2 DEF IsTrue, IsFalse

\* A valuation that satisfies the clauses of a supported set of gates tells the
\* truth about the roots.
LEMMA GateClausesExact ==
    ASSUME LoopTyped, Propagated, loop # "trues",
           NEW s \in System!States, NEW x \in InputSets, NEW u, NEW on \in SUBSET AndVars,
           NEW D \in SUBSET Gates, NEW roots, Supported(D, roots),
           Holds(GateClauses(D), AllLits(s, x, u, on)),
           NEW l \in AigerLits, l \in roots, ~ IsDecided(l)
    PROVE  l \in Told(AllLits(s, x, u, on)) <=> l \in Holding(s, x)
<1> DEFINE T == Told(AllLits(s, x, u, on))
           H == Holding(s, x)
           S == {n \in Nat : n \in D => (GateLit(n) \in T <=> GateLit(n) \in H)}
<1>0. circuit \in Circuits
  BY DEF LoopTyped
<1>1. /\ \A k \in AigerLits : k \notin {0, 1} => (Not(k) \in T <=> k \notin T)
      /\ \A k \in AigerLits : Not(k) \in H <=> k \notin H
      /\ \A i \in 1 .. NumInputs : 2 * i \in T <=> 2 * i \in H
      /\ \A i \in Latches : LatchLit(i) \in T <=> LatchLit(i) \in H
  BY <1>0, ToldLits, HoldingLits
<1>2. \A g \in Gates : GateLit(g) \in H <=> Operands(g) \subseteq H
  BY <1>0, HoldingLits
<1>3. ASSUME NEW g \in D
      PROVE  GateLit(g) \in T <=> \A k \in Operands(g) : IsTrue(k) \/ k \in T
  <2>1. Holds(ClausifiedAnd(g), AllLits(s, x, u, on))
    BY DEF Holds, GateClauses
  <2>2. ~ IsDecided(GateLit(g))
    BY DEF Supported
  <2> QED
    BY <2>1, <2>2, GateMeaning
<1> HIDE DEF T, H, S
<1>4. ASSUME NEW k \in AigerLits, ~ IsDecided(k),
             \A h \in Gates : NeededIn(GateLit(h), {k}) => (GateLit(h) \in T <=> GateLit(h) \in H)
      PROVE  k \in T <=> k \in H
  <2>1. k \notin {0, 1}
    BY <1>4, ConstantsDecided
  <2> QED
    BY <1>1, <1>4, <2>1, LitsAgree
<1>5. ASSUME NEW k \in AigerLits, ~ IsDecided(k), NEW h \in Gates, NeededIn(GateLit(h), {k})
      PROVE  ~ IsDecided(GateLit(h))
  BY <1>5, NamedLits, NotLit DEF NeededIn, IsDecided, IsTrue, IsFalse
<1>6. ASSUME NEW n \in Nat, \A m \in 0 .. n - 1 : m \in S
      PROVE  n \in S
  <2>1. CASE n \in D
    <3>1. ASSUME NEW k \in Operands(n), ~ IsTrue(k)
          PROVE  k \in T <=> k \in H
      <4>1. k \in AigerLits /\ ~ IsDecided(k)
        BY <2>1, <3>1, OperandLits, UndecidedGate DEF Supported, IsDecided
      <4>2. ASSUME NEW h \in Gates, NeededIn(GateLit(h), {k})
            PROVE  GateLit(h) \in T <=> GateLit(h) \in H
        <5>1. h \in D
          <6>1. NeededIn(GateLit(h), roots \cup GateOperands(D))
            BY <2>1, <3>1, <4>2 DEF NeededIn, GateOperands
          <6> QED
            BY <1>5, <4>1, <4>2, <6>1 DEF Supported
        <5>2. h < n
          <6>1. GateLit(h) \in Operands(n) \/ Not(GateLit(h)) \in Operands(n)
            BY <3>1, <4>2 DEF NeededIn
          <6>2. ~ (n <= h)
            BY <2>1, <6>1, OperandOrder
          <6> QED
            BY <6>2 DEF Gates
        <5>3. h \in S
          BY <1>6, <5>2 DEF Gates
        <5> QED
          BY <5>1, <5>3 DEF S
      <4> QED
        BY <1>4, <4>1, <4>2
    <3>2. \A k \in Operands(n) : IsTrue(k) => k \in H
      BY <2>1, DecidedHolds, OperandLits DEF H
    <3>3. GateLit(n) \in T <=> GateLit(n) \in H
      BY <1>2, <1>3, <2>1, <3>1, <3>2
    <3> QED
      BY <3>3 DEF S
  <2>2. CASE n \notin D
    BY <2>2 DEF S
  <2> QED
    BY <2>1, <2>2
<1>7. \A n \in Nat : n \in S
  BY <1>6, NaturalInduction
<1>8. ASSUME NEW h \in Gates, NeededIn(GateLit(h), {l})
      PROVE  GateLit(h) \in T <=> GateLit(h) \in H
  <2>1. NeededIn(GateLit(h), roots \cup GateOperands(D))
    BY <1>8 DEF NeededIn
  <2>2. h \in D
    BY <1>5, <1>8, <2>1 DEF Supported
  <2>3. h \in S
    BY <1>7 DEF Gates
  <2> QED
    BY <2>2, <2>3 DEF S
<1>9. l \in T <=> l \in H
  BY <1>4, <1>8
<1> QED
  BY <1>9 DEF T, H

\* The auxiliary variables, valued as their gates are.
GatesOn(s, x) == {AndVar(g) : g \in {h \in Gates : GateLit(h) \in Holding(s, x)}}

\* That valuation tells the truth, and satisfies the clauses of undecided gates.
LEMMA ValuesSatisfy ==
    ASSUME LoopTyped, Propagated, loop # "trues",
           NEW s \in System!States, NEW x \in InputSets, NEW u
    PROVE  LET all == AllLits(s, x, u, GatesOn(s, x)) IN
           /\ GatesOn(s, x) \in SUBSET AndVars
           /\ \A l \in AigerLits : l \notin {0, 1} => (l \in Told(all) <=> l \in Holding(s, x))
           /\ \A g \in Gates : ~ IsDecided(GateLit(g)) => Holds(ClausifiedAnd(g), all)
<1> DEFINE on == GatesOn(s, x)
           T == Told(AllLits(s, x, u, on))
           H == Holding(s, x)
<1>0. circuit \in Circuits
  BY DEF LoopTyped
<1>1. on \in SUBSET AndVars
  BY DEF GatesOn, AndVars
<1>2. \A g \in Gates : AndVar(g) \in on <=> GateLit(g) \in H
  <2>1. \A g, h \in Gates : AndVar(g) = AndVar(h) => g = h
    BY SizesAssumption DEF AndVar, Gates
  <2> QED
    BY <2>1 DEF GatesOn
<1> HIDE DEF on
<1>3. /\ \A k \in AigerLits : k \notin {0, 1} => (Not(k) \in T <=> k \notin T)
      /\ \A k \in AigerLits : Not(k) \in H <=> k \notin H
      /\ \A i \in 1 .. NumInputs : 2 * i \in T <=> 2 * i \in H
      /\ \A i \in Latches : LatchLit(i) \in T <=> LatchLit(i) \in H
      /\ \A g \in Gates : GateLit(g) \in T <=> GateLit(g) \in H
  BY <1>0, <1>1, <1>2, ToldLits, HoldingLits
<1>4. \A g \in Gates : GateLit(g) \in H <=> Operands(g) \subseteq H
  BY <1>0, HoldingLits
<1> HIDE DEF T, H
<1>5. \A l \in AigerLits : l \notin {0, 1} => (l \in T <=> l \in H)
  BY <1>3, LitsAgree
<1>6. ASSUME NEW g \in Gates, ~ IsDecided(GateLit(g))
      PROVE  Holds(ClausifiedAnd(g), AllLits(s, x, u, on))
  <2>1. \A k \in Operands(g) : k \in AigerLits /\ (~ IsTrue(k) => k \notin {0, 1})
    <3>1. ASSUME NEW k \in Operands(g), ~ IsTrue(k)
          PROVE  ~ IsDecided(k)
      BY <1>6, <3>1, UndecidedGate DEF IsDecided
    <3> QED
      BY <3>1, ConstantsDecided, OperandLits
  <2>2. \A k \in Operands(g) : IsTrue(k) => k \in H
    BY DecidedHolds, OperandLits DEF H
  <2>3. (\A k \in Operands(g) : IsTrue(k) \/ k \in T) <=> Operands(g) \subseteq H
    BY <1>5, <2>1, <2>2
  <2> QED
    BY <1>1, <1>3, <1>4, <1>6, <2>3, GateMeaning DEF T
<1> QED
  BY <1>1, <1>5, <1>6 DEF on, T, H

\* What the circuit does and what is bad, by the literals that hold.
LEMMA CircuitMeaning ==
    ASSUME LoopTyped, NEW s \in System!States, NEW x \in InputSets
    PROVE  /\ System!Step(CircuitSystem, s, x) \in System!States
           /\ \A i \in Latches : i \in System!Step(CircuitSystem, s, x)
                                     <=> circuit.next[i] \in Holding(s, x)
           /\ System!Bad(CircuitSystem, s, x) <=> circuit.error \in Holding(s, x)
<1>1. /\ circuit.error \in AigerLits
      /\ \A i \in Latches : circuit.next[i] \in AigerLits
  BY CircuitTypes DEF LoopTyped
<1>2. \A l \in AigerLits : LitHolds(l, Values(s, x)) <=> l \in Holding(s, x)
  BY DEF Holding
<1> DEFINE P == {i \in Latches : circuit.next[i] \in Holding(s, x)}
<1>3. System!Step(CircuitSystem, s, x) = StateOf(P)
  <2>1. System!Step(CircuitSystem, s, x) =
            {IF LitHolds(circuit.next[i], Values(s, x)) THEN i ELSE -i : i \in Latches}
    BY DEF System!Step, CircuitSystem
  <2>2. \A i \in Latches : LitHolds(circuit.next[i], Values(s, x)) <=> i \in P
    BY <1>1, <1>2
  <2> HIDE DEF P
  <2> QED
    BY <2>1, <2>2 DEF StateOf
<1>4. System!Bad(CircuitSystem, s, x) <=> LitHolds(circuit.error, Values(s, x))
  BY DEF System!Bad, CircuitSystem
<1> HIDE DEF P
<1>5. System!Step(CircuitSystem, s, x) \in System!States
  BY <1>3, StateOfLatches
<1>6. \A i \in Latches : i \in System!Step(CircuitSystem, s, x) <=> i \in P
  BY <1>3, StateOfLatches
<1> QED
  BY <1>1, <1>2, <1>4, <1>5, <1>6 DEF P

\* The latches whose next state the formulas keep.
Kept(i) == i \in coi \/ IsTrue(circuit.next[i])

\* u is the next state in which kept latches have their values and the others are false.
IsNext(s, x, u) ==
    \A i \in Latches : i \in u <=> Kept(i) /\ circuit.next[i] \in Holding(s, x)

\* What makes trans true makes u the next state.
LEMMA TransTells ==
    ASSUME BuilderInvariant, loop = "done",
           NEW s \in System!States, NEW x \in InputSets, NEW u, NEW on \in SUBSET AndVars,
           Holds(formulas.trans, AllLits(s, x, u, on))
    PROVE  IsNext(s, x, u)
<1> DEFINE all == AllLits(s, x, u, on)
           H == Holding(s, x)
<1>1. LoopTyped /\ Propagated /\ loop # "trues"
  BY DEF BuilderInvariant
<1>2. PICK D \in SUBSET Gates :
          /\ Supported(D, TransRoots)
          /\ formulas.trans = GateClauses(D) \cup UNION {LatchClauses(i) : i \in Latches}
  BY DEF BuilderInvariant, Translated, TransBuilt
<1>3. Holds(GateClauses(D), all)
  BY <1>2 DEF Holds
<1>4. ASSUME NEW i \in Latches
      PROVE  i \in u <=> Kept(i) /\ circuit.next[i] \in H
  <2>1. Holds(LatchClauses(i), all)
    BY <1>2 DEF Holds
  <2>2. circuit.next[i] \in AigerLits
    BY <1>1, CircuitTypes DEF LoopTyped
  <2>3. i \in u <=> \/ IsTrue(circuit.next[i])
                    \/ i \in coi /\ ~ IsFalse(circuit.next[i]) /\ circuit.next[i] \in Told(all)
    BY <1>1, <2>1, LatchMeaning
  <2>4. i \in coi /\ ~ IsDecided(circuit.next[i]) =>
            (circuit.next[i] \in Told(all) <=> circuit.next[i] \in H)
    <3>1. i \in coi /\ ~ IsDecided(circuit.next[i]) => circuit.next[i] \in TransRoots
      BY DEF TransRoots
    <3> QED
      BY <1>1, <1>2, <1>3, <2>2, <3>1, GateClausesExact
  <2>5. /\ IsTrue(circuit.next[i]) => circuit.next[i] \in H
        /\ IsFalse(circuit.next[i]) => circuit.next[i] \notin H
    BY <1>1, <2>2, DecidedHolds
  <2> QED
    BY <2>3, <2>4, <2>5 DEF Kept, IsDecided
<1> QED
  BY <1>4 DEF IsNext

\* The values of the gates make trans true if u is the next state.
LEMMA TransHolds ==
    ASSUME BuilderInvariant, loop = "done",
           NEW s \in System!States, NEW x \in InputSets, NEW u, IsNext(s, x, u)
    PROVE  Holds(formulas.trans, AllLits(s, x, u, GatesOn(s, x)))
<1> DEFINE all == AllLits(s, x, u, GatesOn(s, x))
           H == Holding(s, x)
<1>1. LoopTyped /\ Propagated /\ loop # "trues"
  BY DEF BuilderInvariant
<1>2. PICK D \in SUBSET Gates :
          /\ Supported(D, TransRoots)
          /\ formulas.trans = GateClauses(D) \cup UNION {LatchClauses(i) : i \in Latches}
  BY DEF BuilderInvariant, Translated, TransBuilt
<1>3. /\ GatesOn(s, x) \in SUBSET AndVars
      /\ \A l \in AigerLits : l \notin {0, 1} => (l \in Told(all) <=> l \in H)
      /\ \A g \in Gates : ~ IsDecided(GateLit(g)) => Holds(ClausifiedAnd(g), all)
  BY <1>1, ValuesSatisfy
<1>4. Holds(GateClauses(D), all)
  BY <1>2, <1>3 DEF Holds, GateClauses, Supported
<1>5. ASSUME NEW i \in Latches
      PROVE  Holds(LatchClauses(i), all)
  <2>1. circuit.next[i] \in AigerLits
    BY <1>1, CircuitTypes DEF LoopTyped
  <2>2. ~ IsDecided(circuit.next[i]) => (circuit.next[i] \in Told(all) <=> circuit.next[i] \in H)
    BY <1>1, <1>3, <2>1, ConstantsDecided
  <2>3. /\ IsTrue(circuit.next[i]) => circuit.next[i] \in H
        /\ IsFalse(circuit.next[i]) => circuit.next[i] \notin H
    BY <1>1, <2>1, DecidedHolds
  <2>4. i \in u <=> \/ IsTrue(circuit.next[i])
                    \/ i \in coi /\ ~ IsFalse(circuit.next[i]) /\ circuit.next[i] \in Told(all)
    BY <2>2, <2>3 DEF IsNext, Kept, IsDecided
  <2> QED
    BY <1>1, <1>3, <2>4, LatchMeaning
<1> QED
  BY <1>2, <1>4, <1>5 DEF Holds

\* What makes error true is bad.
LEMMA ErrorTells ==
    ASSUME BuilderInvariant, loop = "done",
           NEW s \in System!States, NEW x \in InputSets, NEW u, NEW on \in SUBSET AndVars,
           Holds(formulas.error, AllLits(s, x, u, on))
    PROVE  circuit.error \in Holding(s, x)
<1> DEFINE all == AllLits(s, x, u, on)
<1>1. LoopTyped /\ Propagated /\ loop # "trues" /\ circuit.error \in AigerLits
  BY CircuitTypes DEF BuilderInvariant, LoopTyped
<1>2. CASE IsTrue(circuit.error)
  BY <1>1, <1>2, DecidedHolds
<1>3. CASE formulas.error = {{}}
  BY <1>3 DEF Holds
<1>4. CASE ~ IsDecided(circuit.error)
  <2>1. PICK D \in SUBSET Gates :
            /\ Supported(D, {circuit.error})
            /\ formulas.error = GateClauses(D) \cup {{FromAiger(circuit.error)}}
    BY <1>4 DEF BuilderInvariant, Translated, ErrorBuilt, IsDecided
  <2>2. Holds(GateClauses(D), all)
    BY <2>1 DEF Holds
  <2>3. circuit.error \in Told(all)
    <3>1. {FromAiger(circuit.error)} \cap all # {}
      BY <2>1 DEF Holds
    <3> QED
      BY <1>1, <3>1 DEF Told
  <2> QED
    BY <1>1, <1>4, <2>1, <2>2, <2>3, GateClausesExact
<1> QED
  BY <1>2, <1>3, <1>4 DEF BuilderInvariant, Translated, ErrorBuilt

\* The values of the gates make error true where the circuit is bad.
LEMMA ErrorHoldsIfBad ==
    ASSUME BuilderInvariant, loop = "done",
           NEW s \in System!States, NEW x \in InputSets, NEW u, circuit.error \in Holding(s, x)
    PROVE  Holds(formulas.error, AllLits(s, x, u, GatesOn(s, x)))
<1> DEFINE all == AllLits(s, x, u, GatesOn(s, x))
<1>1. LoopTyped /\ Propagated /\ loop # "trues" /\ circuit.error \in AigerLits
  BY CircuitTypes DEF BuilderInvariant, LoopTyped
<1>2. ~ IsFalse(circuit.error)
  BY <1>1, DecidedHolds
<1>3. CASE formulas.error = {}
  BY <1>3 DEF Holds
<1>4. CASE ~ IsDecided(circuit.error)
  <2>1. PICK D \in SUBSET Gates :
            /\ Supported(D, {circuit.error})
            /\ formulas.error = GateClauses(D) \cup {{FromAiger(circuit.error)}}
    BY <1>4 DEF BuilderInvariant, Translated, ErrorBuilt, IsDecided
  <2>2. /\ \A l \in AigerLits : l \notin {0, 1} => (l \in Told(all) <=> l \in Holding(s, x))
        /\ \A g \in Gates : ~ IsDecided(GateLit(g)) => Holds(ClausifiedAnd(g), all)
    BY <1>1, ValuesSatisfy
  <2>3. Holds(GateClauses(D), all)
    BY <2>1, <2>2 DEF Holds, GateClauses, Supported
  <2>4. FromAiger(circuit.error) \in all
    <3>1. circuit.error \notin {0, 1}
      BY <1>1, <1>4, ConstantsDecided
    <3> QED
      BY <1>1, <2>2, <3>1 DEF Told
  <2> QED
    BY <2>1, <2>3, <2>4 DEF Holds
<1> QED
  BY <1>2, <1>3, <1>4 DEF BuilderInvariant, Translated, ErrorBuilt

\* What the built formulas say, of any next state.
LEMMA BuiltMeaning ==
    ASSUME BuilderInvariant, loop = "done",
           NEW s \in System!States, NEW x \in InputSets, NEW u
    PROVE  /\ Satisfiable(formulas.trans, Fixed(s, x, u)) <=> IsNext(s, x, u)
           /\ Satisfiable(formulas.error, Fixed(s, x, u)) <=> circuit.error \in Holding(s, x)
           /\ Satisfiable(formulas.trans \cup formulas.error, Fixed(s, x, u)) <=>
                  IsNext(s, x, u) /\ circuit.error \in Holding(s, x)
<1>1. GatesOn(s, x) \in SUBSET AndVars
  BY DEF GatesOn, AndVars
<1>2. Satisfiable(formulas.trans, Fixed(s, x, u)) <=> IsNext(s, x, u)
  BY <1>1, TransTells, TransHolds, SatisfiableBy
<1>3. Satisfiable(formulas.error, Fixed(s, x, u)) <=> circuit.error \in Holding(s, x)
  BY <1>1, ErrorTells, ErrorHoldsIfBad, SatisfiableBy
<1>4. \A all : Holds(formulas.trans \cup formulas.error, all) <=>
                   Holds(formulas.trans, all) /\ Holds(formulas.error, all)
  BY DEF Holds
<1>5. Satisfiable(formulas.trans \cup formulas.error, Fixed(s, x, u)) =>
          IsNext(s, x, u) /\ circuit.error \in Holding(s, x)
  BY <1>4, TransTells, ErrorTells, SatisfiableBy
<1>6. IsNext(s, x, u) /\ circuit.error \in Holding(s, x) =>
          Satisfiable(formulas.trans \cup formulas.error, Fixed(s, x, u))
  BY <1>1, <1>4, TransHolds, ErrorHoldsIfBad, SatisfiableBy
<1> QED
  BY <1>2, <1>3, <1>5, <1>6

\* What the invariant says of the clauses makes the formulas exact.
LEMMA ExactIfBuilt ==
    ASSUME BuilderInvariant
    PROVE  FormulasAreExact
<1> SUFFICES ASSUME loop = "done", NEW s \in System!States, NEW x \in InputSets
             PROVE  LET next == System!Step(CircuitSystem, s, x)
                        kept == {i \in Latches : i \in coi \/ IsTrue(circuit.next[i])}
                        t    == {IF i \in kept \cap next THEN i ELSE -i : i \in Latches}
                        bad  == System!Bad(CircuitSystem, s, x)
                    IN /\ \A u \in System!States :
                              Satisfiable(formulas.trans, Fixed(s, x, u)) <=> u = t
                       /\ Satisfiable(formulas.error, Fixed(s, x, t)) <=> bad
                       /\ Satisfiable(formulas.trans \cup formulas.error, Fixed(s, x, t)) <=> bad
  BY DEF FormulasAreExact
<1> DEFINE next == System!Step(CircuitSystem, s, x)
           kept == {i \in Latches : i \in coi \/ IsTrue(circuit.next[i])}
           t    == {IF i \in kept \cap next THEN i ELSE -i : i \in Latches}
           bad  == System!Bad(CircuitSystem, s, x)
<1>1. /\ bad <=> circuit.error \in Holding(s, x)
      /\ \A i \in Latches : i \in next <=> circuit.next[i] \in Holding(s, x)
  BY CircuitMeaning DEF BuilderInvariant
<1>2. t = StateOf(kept \cap next)
  BY DEF StateOf
<1> HIDE DEF t
<1>3. t \in System!States /\ \A i \in Latches : i \in t <=> i \in kept \cap next
  BY <1>2, StateOfLatches
<1>4. IsNext(s, x, t)
  BY <1>1, <1>3 DEF IsNext, Kept
<1>5. ASSUME NEW u \in System!States
      PROVE  IsNext(s, x, u) <=> u = t
  <2>1. IsNext(s, x, u) => \A i \in Latches : i \in u <=> i \in t
    BY <1>4 DEF IsNext
  <2> QED
    BY <1>3, <1>4, <2>1, SameState
<1>6. \A u \in System!States : Satisfiable(formulas.trans, Fixed(s, x, u)) <=> u = t
  BY <1>5, BuiltMeaning
<1>7. /\ Satisfiable(formulas.error, Fixed(s, x, t)) <=> bad
      /\ Satisfiable(formulas.trans \cup formulas.error, Fixed(s, x, t)) <=> bad
  BY <1>1, <1>4, BuiltMeaning
<1> QED
  BY <1>6, <1>7 DEF t

(***************************************************************************)
(* The built formulas say what the circuit does: trans is a function, the  *)
(* latches that matter keep their next state, error is the circuit's, and  *)
(* sharing auxiliary variables takes nothing from the two together.        *)
(***************************************************************************)
THEOREM BuiltFormulasAreExact == BuilderSpec => []FormulasAreExact
<1>1. BuilderInvariant => FormulasAreExact
  BY ExactIfBuilt
<1> QED
  BY <1>1, BuilderInvariantHolds, PTL

-----------------------------------------------------------------------------
(***************************************************************************)
(* Safety: the built system differs from the circuit in latches outside    *)
(* the cone of influence, and they do not matter.                          *)
(***************************************************************************)
\* Two states that the cone of influence does not tell apart.
Agree(r, s) == \A i \in coi : i \in r <=> i \in s

\* What is in the cone has the same value in such states.
LEMMA ConeDetermines ==
    ASSUME LoopTyped, Propagated, NEW R \in SUBSET AigerLits, Cone(R),
           NEW r \in System!States, NEW s \in System!States, Agree(r, s), NEW x \in InputSets,
           NEW l \in R
    PROVE  l \in Holding(r, x) <=> l \in Holding(s, x)
<1> DEFINE A == Holding(r, x)
           B == Holding(s, x)
           S == {n \in Nat : n \in Gates /\ NeededIn(GateLit(n), R) => (GateLit(n) \in A <=> GateLit(n) \in B)}
<1>0. circuit \in Circuits
  BY DEF LoopTyped
<1>1. /\ \A k \in AigerLits : Not(k) \in A <=> k \notin A
      /\ \A k \in AigerLits : Not(k) \in B <=> k \notin B
      /\ \A i \in 1 .. NumInputs : 2 * i \in A <=> 2 * i \in B
      /\ \A i \in Latches : LatchLit(i) \in A <=> i \in r
      /\ \A i \in Latches : LatchLit(i) \in B <=> i \in s
      /\ \A g \in Gates : GateLit(g) \in A <=> Operands(g) \subseteq A
      /\ \A g \in Gates : GateLit(g) \in B <=> Operands(g) \subseteq B
  BY <1>0, HoldingLits
<1>2. \A k \in AigerLits : IsDecided(k) => (k \in A <=> k \in B)
  BY DecidedHolds DEF IsDecided
<1> HIDE DEF A, B, S
<1>3. \A i \in Latches : NeededIn(LatchLit(i), R) => (LatchLit(i) \in A <=> LatchLit(i) \in B)
  BY <1>1 DEF Cone, Agree
<1>4. ASSUME NEW k \in R,
             \A h \in Gates : NeededIn(GateLit(h), {k}) => (GateLit(h) \in A <=> GateLit(h) \in B)
      PROVE  k \in A <=> k \in B
  <2>1. CASE IsDecided(k)
    BY <1>2, <2>1
  <2>2. CASE ~ IsDecided(k)
    <3>1. k \notin {0, 1}
      BY <2>2, ConstantsDecided
    <3>2. \A i \in Latches : NeededIn(LatchLit(i), {k}) => (LatchLit(i) \in A <=> LatchLit(i) \in B)
      BY <1>3 DEF NeededIn
    <3> QED
      BY <1>1, <1>4, <3>1, <3>2, LitsAgree
  <2> QED
    BY <2>1, <2>2
<1>5. ASSUME NEW n \in Nat, \A m \in 0 .. n - 1 : m \in S
      PROVE  n \in S
  <2>1. CASE n \in Gates /\ NeededIn(GateLit(n), R) /\ ~ IsDecided(GateLit(n))
    <3>1. Operands(n) \subseteq R
      BY <2>1 DEF Cone, GateClosed
    <3>2. ASSUME NEW k \in Operands(n)
          PROVE  k \in A <=> k \in B
      <4>1. ASSUME NEW h \in Gates, NeededIn(GateLit(h), {k})
            PROVE  GateLit(h) \in A <=> GateLit(h) \in B
        <5>1. GateLit(h) \in Operands(n) \/ Not(GateLit(h)) \in Operands(n)
          BY <4>1 DEF NeededIn
        <5>2. ~ (n <= h)
          BY <2>1, <5>1, OperandOrder
        <5>3. h \in S
          BY <1>5, <5>2 DEF Gates
        <5>4. NeededIn(GateLit(h), R)
          BY <3>1, <5>1 DEF NeededIn
        <5> QED
          BY <5>3, <5>4 DEF S
      <4> QED
        BY <1>4, <3>1, <4>1
    <3>3. GateLit(n) \in A <=> GateLit(n) \in B
      BY <1>1, <2>1, <3>2
    <3> QED
      BY <3>3 DEF S
  <2>2. CASE n \in Gates /\ IsDecided(GateLit(n))
    BY <1>2, <2>2, NamedLits DEF S
  <2>3. CASE ~ (n \in Gates /\ NeededIn(GateLit(n), R))
    BY <2>3 DEF S
  <2> QED
    BY <2>1, <2>2, <2>3
<1>6. \A n \in Nat : n \in S
  BY <1>5, NaturalInduction
<1>7. \A h \in Gates : NeededIn(GateLit(h), {l}) => (GateLit(h) \in A <=> GateLit(h) \in B)
  <2>1. ASSUME NEW h \in Gates, NeededIn(GateLit(h), {l})
        PROVE  GateLit(h) \in A <=> GateLit(h) \in B
    <3>1. h \in S /\ NeededIn(GateLit(h), R)
      BY <1>6, <2>1 DEF Gates, NeededIn
    <3> QED
      BY <3>1 DEF S
  <2> QED
    BY <2>1
<1>8. l \in A <=> l \in B
  BY <1>4, <1>7
<1> QED
  BY <1>8 DEF A, B

\* Systems that start alike and agree from agreeing states are safe alike.
LEMMA SafetyTransfers ==
    ASSUME NEW a, NEW b, a.init = b.init,
           \A s \in System!States, x \in InputSets : System!Step(b, s, x) \in System!States,
           \A r \in System!States, s \in System!States, x \in InputSets :
               Agree(r, s) => /\ Agree(System!Step(a, r, x), System!Step(b, s, x))
                              /\ System!Bad(a, r, x) <=> System!Bad(b, s, x),
           System!Safe(a)
    PROVE  System!Safe(b)
<1>1. PICK inv \in SUBSET System!States : System!ProvesSafe(a, inv)
  BY DEF System!Safe
<1> DEFINE reach == {s \in System!States : \E r \in inv : Agree(r, s)}
<1>2. System!InitialStates(b) \subseteq reach
  <2>1. System!InitialStates(b) = System!InitialStates(a)
    BY DEF System!InitialStates
  <2>2. System!InitialStates(b) \subseteq inv
    BY <1>1, <2>1 DEF System!ProvesSafe
  <2> QED
    BY <2>2 DEF Agree
<1>3. ASSUME NEW s \in reach, NEW x \in InputSets
      PROVE  System!Step(b, s, x) \in reach /\ ~ System!Bad(b, s, x)
  <2>1. PICK r \in inv : Agree(r, s)
    OBVIOUS
  <2>2. System!Step(a, r, x) \in inv /\ ~ System!Bad(a, r, x)
    BY <1>1 DEF System!ProvesSafe
  <2> QED
    BY <2>1, <2>2
<1> HIDE DEF reach
<1>4. System!ProvesSafe(b, reach)
  BY <1>2, <1>3 DEF System!ProvesSafe
<1>5. reach \in SUBSET System!States
  BY DEF reach
<1> QED
  BY <1>4, <1>5 DEF System!Safe

\* The clauses of init say what the resets do.
LEMMA ResetClauses ==
    ASSUME BuilderInvariant, loop = "done", NEW i \in Latches
    PROVE  /\ {StateVar(i)} \in formulas.init <=> circuit.reset[i] = 1
           /\ {-StateVar(i)} \in formulas.init <=> circuit.reset[i] = 0
<1>1. formulas.init = InitClauses
  BY DEF BuilderInvariant, Translated, InitBuilt
<1>2. \A j \in Latches : /\ StateVar(j) = StateVar(i) <=> i = j
                         /\ -StateVar(j) = -StateVar(i) <=> i = j
                         /\ StateVar(j) # -StateVar(i) /\ -StateVar(j) # StateVar(i)
  BY SizesAssumption DEF StateVar, Latches
<1>3. \A c, d : {c} = {d} <=> c = d
  OBVIOUS
<1> QED
  BY <1>1, <1>2, <1>3 DEF InitClauses

\* The built system starts in the circuit's initial states.
LEMMA SameInit ==
    ASSUME BuilderInvariant, loop = "done"
    PROVE  /\ BuiltSystem.init = CircuitSystem.init
           /\ BuiltSystem.init \in System!Cubes
<1> DEFINE up == {i \in Latches : circuit.reset[i] = 1}
           down == {i \in Latches : circuit.reset[i] = 0}
<1>1. BuiltSystem.init = up \cup {-i : i \in down}
  <2>1. /\ {i \in Latches : {StateVar(i)} \in formulas.init} = up
        /\ {i \in Latches : {-StateVar(i)} \in formulas.init} = down
    BY ResetClauses
  <2>2. BuiltSystem.init =
            UNION {{i \in Latches : {StateVar(i)} \in formulas.init},
                   {-i : i \in {j \in Latches : {-StateVar(j)} \in formulas.init}}}
    BY DEF BuiltSystem
  <2>3. BuiltSystem.init = UNION {up, {-i : i \in down}}
    BY <2>1, <2>2
  <2> HIDE DEF up, down
  <2> QED
    BY <2>3
<1>2. CircuitSystem.init = up \cup {-i : i \in down}
  <2>1. \A i \in Latches : 0 # 1
    OBVIOUS
  <2> DEFINE Unit(i) == CASE circuit.reset[i] = 0 -> {-i}
                          [] circuit.reset[i] = 1 -> {i}
                          [] OTHER -> {}
  <2>2. CircuitSystem.init = UNION {Unit(i) : i \in Latches}
    BY DEF CircuitSystem
  <2>3. \A i \in Latches : /\ i \in up => Unit(i) = {i}
                           /\ i \in down => Unit(i) = {-i}
                           /\ i \notin up /\ i \notin down => Unit(i) = {}
    BY <2>1
  <2>4. \A i \in Latches : ~ (i \in up /\ i \in down)
    BY <2>1
  <2>5. up \subseteq Latches /\ down \subseteq Latches
    OBVIOUS
  <2> HIDE DEF Unit, up, down
  <2> QED
    BY <2>2, <2>3, <2>4, <2>5
<1>3. up \cup {-i : i \in down} \in System!Cubes
  <2>1. /\ up \subseteq Latches /\ down \subseteq Latches /\ up \cap down = {}
        /\ \A i \in Latches : i \in Int /\ i > 0 /\ -(-i) = i
    BY SizesAssumption DEF Latches
  <2> HIDE DEF up, down
  <2>2. up \cup {-i : i \in down} \subseteq System!Literals
    BY <2>1 DEF System!Literals, System!Vars, Latches
  <2>3. \A i \in Latches : /\ i \in up \cup {-j : j \in down} <=> i \in up
                           /\ -i \in up \cup {-j : j \in down} <=> i \in down
    <3>1. \A i \in Latches, j \in Latches : i # -j /\ (-i = -j <=> i = j)
      BY DEF Latches
    <3> QED
      BY <2>1, <3>1
  <2>4. \A l \in up \cup {-i : i \in down} : l \in up \/ \E i \in down : l = -i
    OBVIOUS
  <2>5. \A l \in up \cup {-i : i \in down} : -l \notin up \cup {-i : i \in down}
    BY <2>1, <2>3, <2>4
  <2> QED
    BY <2>2, <2>5 DEF System!Cubes
<1> QED
  BY <1>1, <1>2, <1>3

\* What the built system does, as the circuit's literals tell.
LEMMA BuiltSteps ==
    ASSUME BuilderInvariant, loop = "done", NEW s \in System!States, NEW x \in InputSets
    PROVE  /\ System!Step(BuiltSystem, s, x) \in System!States
           /\ IsNext(s, x, System!Step(BuiltSystem, s, x))
           /\ System!Bad(BuiltSystem, s, x) <=> circuit.error \in Holding(s, x)
<1> DEFINE P == {i \in Latches : Kept(i) /\ circuit.next[i] \in Holding(s, x)}
           Fits(t) == Satisfiable(formulas.trans, Fixed(s, x, t))
<1>1. StateOf(P) \in System!States /\ IsNext(s, x, StateOf(P))
  BY StateOfLatches DEF IsNext
<1>2. \A t \in System!States : Fits(t) <=> IsNext(s, x, t)
  BY BuiltMeaning
<1>3. System!Step(BuiltSystem, s, x) = CHOOSE t \in System!States : Fits(t)
  BY DEF System!Step, BuiltSystem
<1> HIDE DEF Fits
<1>4. System!Step(BuiltSystem, s, x) \in System!States /\ Fits(System!Step(BuiltSystem, s, x))
  BY <1>1, <1>2, <1>3
<1>5. System!Bad(BuiltSystem, s, x) <=> Satisfiable(formulas.error, Fixed(s, x, s))
  BY DEF System!Bad, BuiltSystem
<1> QED
  BY <1>2, <1>4, <1>5, BuiltMeaning

\* The built system is a system the engines run on.
LEMMA BuiltIsSystem ==
    ASSUME BuilderInvariant, loop = "done"
    PROVE  BuiltSystem \in System!TransitionSystems
<1>1. BuiltSystem.init \in System!Cubes
  BY SameInit
<1> DEFINE Pairs == System!States \X InputSets
           NextOf(e) == CHOOSE t \in System!States : Satisfiable(formulas.trans, Fixed(e[1], e[2], t))
<1>2. BuiltSystem.next = [e \in Pairs |-> NextOf(e)]
  BY DEF BuiltSystem
<1>3. ASSUME NEW e \in Pairs
      PROVE  NextOf(e) \in System!States
  <2>1. PICK s \in System!States, x \in InputSets : e = <<s, x>>
    OBVIOUS
  <2>2. System!Step(BuiltSystem, s, x) \in System!States
    BY BuiltSteps
  <2> HIDE DEF NextOf
  <2> QED
    BY <1>2, <2>1, <2>2 DEF System!Step
<1>4. BuiltSystem.next \in [Pairs -> System!States]
  <2> HIDE DEF NextOf
  <2> QED
    BY <1>2, <1>3
<1>5. BuiltSystem.bad \in SUBSET Pairs
  BY DEF BuiltSystem
<1>6. BuiltSystem = [init |-> BuiltSystem.init, next |-> BuiltSystem.next, bad |-> BuiltSystem.bad]
  BY DEF BuiltSystem
<1> QED
  BY <1>1, <1>4, <1>5, <1>6 DEF System!TransitionSystems

\* What the invariant says of the cone makes the built system as safe as the circuit.
LEMMA SafeIfBuilt ==
    ASSUME BuilderInvariant
    PROVE  SafetyPreserved
<1> SUFFICES ASSUME loop = "done"
             PROVE  /\ BuiltSystem \in System!TransitionSystems
                    /\ System!Safe(BuiltSystem) <=> System!Safe(CircuitSystem)
  BY DEF SafetyPreserved
<1>1. LoopTyped /\ Propagated
  BY DEF BuilderInvariant
<1>2. PICK R \in SUBSET AigerLits : Cone(R)
  BY DEF BuilderInvariant, ConeFound
<1>3. BuiltSystem.init = CircuitSystem.init
  BY SameInit
<1>4. /\ \A s \in System!States, x \in InputSets : System!Step(BuiltSystem, s, x) \in System!States
      /\ \A s \in System!States, x \in InputSets : System!Step(CircuitSystem, s, x) \in System!States
  BY <1>1, BuiltSteps, CircuitMeaning
<1>5. ASSUME NEW r \in System!States, NEW s \in System!States, NEW x \in InputSets, Agree(r, s)
      PROVE  /\ Agree(System!Step(BuiltSystem, r, x), System!Step(CircuitSystem, s, x))
             /\ Agree(System!Step(CircuitSystem, s, x), System!Step(BuiltSystem, r, x))
             /\ System!Bad(BuiltSystem, r, x) <=> System!Bad(CircuitSystem, s, x)
  <2>1. circuit.error \in R /\ \A i \in coi : i \in Latches /\ circuit.next[i] \in R
    BY <1>2 DEF Cone, LatchClosed
  <2>2. \A l \in R : l \in Holding(r, x) <=> l \in Holding(s, x)
    BY <1>1, <1>2, <1>5, ConeDetermines
  <2>3. \A i \in coi : /\ i \in System!Step(BuiltSystem, r, x) <=> circuit.next[i] \in Holding(r, x)
                       /\ i \in System!Step(CircuitSystem, s, x) <=> circuit.next[i] \in Holding(s, x)
    BY <1>1, <2>1, BuiltSteps, CircuitMeaning DEF IsNext, Kept
  <2>4. /\ System!Bad(BuiltSystem, r, x) <=> circuit.error \in Holding(r, x)
        /\ System!Bad(CircuitSystem, s, x) <=> circuit.error \in Holding(s, x)
    BY <1>1, BuiltSteps, CircuitMeaning
  <2> QED
    BY <2>1, <2>2, <2>3, <2>4 DEF Agree
<1>6. \A r, s : Agree(r, s) <=> Agree(s, r)
  BY DEF Agree
<1>7. System!Safe(BuiltSystem) => System!Safe(CircuitSystem)
  BY <1>3, <1>4, <1>5, SafetyTransfers
<1>8. System!Safe(CircuitSystem) => System!Safe(BuiltSystem)
  BY <1>3, <1>4, <1>5, <1>6, SafetyTransfers
<1>9. BuiltSystem \in System!TransitionSystems
  BY BuiltIsSystem
<1> QED
  BY <1>7, <1>8, <1>9

(***************************************************************************)
(* The verdict about the built system is the verdict about the circuit,    *)
(* for every re-encoded circuit of any size.                               *)
(***************************************************************************)
THEOREM BuiltSafetyPreserved == BuilderSpec => []SafetyPreserved
<1>1. BuilderInvariant => SafetyPreserved
  BY SafeIfBuilt
<1> QED
  BY <1>1, BuilderInvariantHolds, PTL

-----------------------------------------------------------------------------
(***************************************************************************)
(* BMC: each query is asked of the formula it is meant for.                *)
(***************************************************************************)
Invariant == TypeOK /\ SolverLoaded /\ QueryIsExact

\* Nothing is unrolled at first.
LEMMA InitInvariant == Init => Invariant
BY SystemsAssumption DEF Init, Invariant, TypeOK, SolverLoaded, QueryIsExact, Verdicts

\* Emptying, reloading and extending the solver leave each query exact.
LEMMA StepInvariant ==
    ASSUME Invariant, [Next]_vars
    PROVE  Invariant'
<1>1. TypeOK /\ SolverLoaded /\ QueryIsExact
  BY DEF Invariant
<1>2. CASE RefreshSolver
  <2>1. TypeOK'
    BY <1>1, <1>2 DEF RefreshSolver, TypeOK
  <2>2. versions' \in {step - 1, step}
    BY <1>1, <1>2 DEF RefreshSolver, TypeOK, SolverLoaded
  <2> QED
    BY <1>2, <2>1, <2>2 DEF RefreshSolver, Invariant, SolverLoaded, QueryIsExact
<1>3. CASE KeepSolver
  <2>1. TypeOK'
    BY <1>1, <1>3 DEF KeepSolver, TypeOK
  <2>2. step # 0
    <3>1. 0 % SolverRefreshRate = 0
      BY SolverRefreshRateAssumption
    <3> QED
      BY <1>3, <3>1 DEF KeepSolver
  <2> QED
    BY <1>1, <1>3, <2>1, <2>2 DEF KeepSolver, Invariant, SolverLoaded, QueryIsExact
<1>4. CASE Extend
  <2>1. /\ pc = "check" /\ pc' = "query" /\ step \in Nat /\ versions \in Nat
        /\ step' = step /\ activators' = Append(activators, step)
        /\ UNCHANGED <<system, bound, result>>
    BY <1>1, <1>4 DEF Extend, TypeOK
  <2>2. unrolled' = 0 .. step - 1 /\ versions' = step
    <3>1. CASE step = 0
      BY <1>1, <1>4, <2>1, <3>1 DEF Extend, SolverLoaded
    <3>2. CASE step > 0
      <4>1. unrolled' = unrolled \cup {step - 1}
        BY <1>4, <3>2 DEF Extend, MakeTrans
      <4>2. versions' = IF step - 1 < versions THEN versions ELSE step
        BY <1>4, <2>1, <3>2 DEF Extend, MakeTrans
      <4> QED
        BY <1>1, <2>1, <3>2, <4>1, <4>2 DEF SolverLoaded
    <3> QED
      BY <2>1, <3>1, <3>2
  <2>3. /\ activators' \in Seq(Nat) /\ Len(activators') = Len(activators) + 1
        /\ Len(activators) \in Nat
        /\ activators'[Len(activators')] = step
    BY <1>1, <2>1 DEF TypeOK
  <2>4. TypeOK'
    BY <1>1, <2>1, <2>2, <2>3 DEF TypeOK
  <2>5. QueryIsExact' /\ SolverLoaded'
    BY <2>1, <2>2, <2>3 DEF QueryIsExact, SolverLoaded
  <2> QED
    BY <2>4, <2>5 DEF Invariant
<1>5. CASE FindCounterexample
  BY <1>1, <1>5 DEF FindCounterexample, Invariant, TypeOK, SolverLoaded, QueryIsExact, Verdicts
<1>6. CASE NextStep
  <2>1. TypeOK'
    BY <1>1, <1>6 DEF NextStep, TypeOK
  <2>2. SolverLoaded'
    BY <1>1, <1>6 DEF NextStep, TypeOK, SolverLoaded, QueryIsExact
  <2> QED
    BY <1>6, <2>1, <2>2 DEF NextStep, Invariant, QueryIsExact
<1>7. CASE ExceedBound
  BY <1>1, <1>7 DEF ExceedBound, Invariant, TypeOK, SolverLoaded, QueryIsExact, Verdicts
<1>8. CASE Terminating \/ UNCHANGED vars
  BY <1>1, <1>8 DEF Terminating, vars, Invariant, TypeOK, SolverLoaded, QueryIsExact
<1> QED
  BY <1>2, <1>3, <1>4, <1>5, <1>6, <1>7, <1>8 DEF Next

\* The variables of the engine keep their types.
THEOREM TypeCorrect == Spec => []TypeOK
<1>1. Invariant => TypeOK
  BY DEF Invariant
<1>2. Init => Invariant
  BY InitInvariant
<1>3. Invariant /\ [Next]_vars => Invariant'
  BY StepInvariant
<1> QED
  BY <1>1, <1>2, <1>3, PTL DEF Spec

\* Whenever run queries its solver for step k, the solver holds the transitions
\* of the steps before k and no other, whatever refresh_solver threw away, and
\* the error formula that is enabled is the one of step k.
THEOREM QueriesAreExact == Spec => []QueryIsExact
<1>1. Invariant => QueryIsExact
  BY DEF Invariant
<1>2. Init => Invariant
  BY InitInvariant
<1>3. Invariant /\ [Next]_vars => Invariant'
  BY StepInvariant
<1> QED
  BY <1>1, <1>2, <1>3, PTL DEF Spec

-----------------------------------------------------------------------------
(***************************************************************************)
(* What the recursive definitions of BMC.tla compute.  Each has a solution *)
(* for every length, so it satisfies its own equation.                     *)
(***************************************************************************)
Image(set) == {Step(system, s, x) : s \in set, x \in Inputs}

IsImages(f, n) == f = [i \in 0 .. n |-> IF i = 0 THEN InitialStates(system) ELSE Image(f[i - 1])]

\* The states reachable in a number of steps are the image of those one step before.
LEMMA ReachableSteps ==
    ASSUME NEW k \in Nat
    PROVE  \E f : IsImages(f, k) /\ ReachableIn(k) = f[k]
<1> DEFINE S == {n \in Nat : \E f : IsImages(f, n)}
<1> HIDE DEF S
<1>1. ASSUME NEW n \in Nat, \A m \in 0 .. n - 1 : m \in S
      PROVE  n \in S
  <2>1. CASE n = 0
    <3>1. IsImages([i \in 0 .. n |-> InitialStates(system)], n)
      BY <2>1 DEF IsImages
    <3> QED
      BY <3>1 DEF S
  <2>2. CASE n > 0
    <3>1. n - 1 \in S
      BY <1>1, <2>2
    <3>2. PICK f : IsImages(f, n - 1)
      BY <3>1 DEF S
    <3> DEFINE g == [i \in 0 .. n |-> IF i = 0 THEN InitialStates(system) ELSE Image(f[i - 1])]
    <3>3. \A i \in 0 .. n - 1 : g[i] = f[i]
      BY <3>2 DEF IsImages
    <3> HIDE DEF g
    <3>4. \A i \in 0 .. n : i # 0 => f[i - 1] = g[i - 1]
      BY <3>3
    <3>5. IsImages(g, n)
      BY <3>4 DEF g, IsImages
    <3> QED
      BY <3>5 DEF S
  <2> QED
    BY <2>1, <2>2
<1>2. k \in S
  BY <1>1, NaturalInduction
<1> DEFINE f == CHOOSE f : IsImages(f, k)
<1>3. IsImages(f, k)
  BY <1>2 DEF S
<1>4. ReachableIn(k) = f[k]
  BY DEF ReachableIn, IsImages, Image
<1> QED
  BY <1>3, <1>4

Entry(s, x) == [state |-> s, input |-> x]

FirstRuns == {<<Entry(s, x)>> : s \in InitialStates(system), x \in Inputs}

Successors(e, i) == IF i \in unrolled THEN {Step(system, e.state, e.input)} ELSE States

LongerRuns(runs, i) ==
    UNION {{Append(r, Entry(t, x)) : t \in Successors(r[i], i - 1), x \in Inputs} : r \in runs}

IsRuns(f, n) == f = [i \in 0 .. n |-> IF i = 0 THEN FirstRuns ELSE LongerRuns(f[i - 1], i)]

\* The models of the solver for one step more extend those for the step before.
LEMMA SolverRunsSteps ==
    ASSUME NEW k \in Nat
    PROVE  \E f : IsRuns(f, k) /\ SolverRuns(k) = f[k]
<1> DEFINE S == {n \in Nat : \E f : IsRuns(f, n)}
<1> HIDE DEF S
<1>1. ASSUME NEW n \in Nat, \A m \in 0 .. n - 1 : m \in S
      PROVE  n \in S
  <2>1. CASE n = 0
    <3>1. IsRuns([i \in 0 .. n |-> FirstRuns], n)
      BY <2>1 DEF IsRuns
    <3> QED
      BY <3>1 DEF S
  <2>2. CASE n > 0
    <3>1. n - 1 \in S
      BY <1>1, <2>2
    <3>2. PICK f : IsRuns(f, n - 1)
      BY <3>1 DEF S
    <3> DEFINE g == [i \in 0 .. n |-> IF i = 0 THEN FirstRuns ELSE LongerRuns(f[i - 1], i)]
    <3>3. \A i \in 0 .. n - 1 : g[i] = f[i]
      BY <3>2 DEF IsRuns
    <3> HIDE DEF g
    <3>4. \A i \in 0 .. n : i # 0 => f[i - 1] = g[i - 1]
      BY <3>3
    <3>5. IsRuns(g, n)
      BY <3>4 DEF g, IsRuns
    <3> QED
      BY <3>5 DEF S
  <2> QED
    BY <2>1, <2>2
<1>2. k \in S
  BY <1>1, NaturalInduction
<1> DEFINE f == CHOOSE f : IsRuns(f, k)
<1>3. IsRuns(f, k)
  BY <1>2 DEF S
<1>4. SolverRuns(k) = f[k]
  BY DEF SolverRuns, IsRuns, FirstRuns, LongerRuns, Successors, Entry
<1> QED
  BY <1>3, <1>4

\* The models of the solver that name states and inputs only.
Trace == Seq([state : States, input : Inputs])

\* What a model is extended to.
LEMMA AppendEntry ==
    ASSUME NEW p \in Trace, NEW t \in States, NEW x \in Inputs
    PROVE  LET q == Append(p, Entry(t, x)) IN
           /\ q \in Trace /\ Len(q) = Len(p) + 1
           /\ q[Len(p) + 1] = Entry(t, x)
           /\ \A j \in 1 .. Len(p) : q[j] = p[j]
<1> DEFINE T == [state : States, input : Inputs]
           e == Entry(t, x)
<1>1. e \in T
  BY DEF Entry
<1>2. p \in Seq(T)
  BY DEF Trace
<1> HIDE DEF T, e
<1>3. /\ Append(p, e) \in Seq(T) /\ Len(Append(p, e)) = Len(p) + 1
      /\ Append(p, e)[Len(p) + 1] = e
      /\ \A j \in 1 .. Len(p) : Append(p, e)[j] = p[j]
  BY <1>1, <1>2
<1> QED
  BY <1>3 DEF T, e, Trace

\* The entries of a trace are states with inputs.
LEMMA EntryOfTrace ==
    ASSUME NEW p \in Trace, NEW i \in 1 .. Len(p)
    PROVE  p[i] \in [state : States, input : Inputs]
<1> DEFINE T == [state : States, input : Inputs]
<1>1. p \in Seq(T)
  BY DEF Trace
<1> HIDE DEF T
<1>2. p[i] \in T
  BY <1>1
<1> QED
  BY <1>2 DEF T

\* The solver holds the transition formulas of the steps before n, and no other.
Exact(n) == system \in TransitionSystems /\ unrolled = 0 .. n - 1

\* r is a run of the system of n steps from an initial state.
IsRun(r, n) ==
    /\ r \in Trace
    /\ Len(r) = n + 1
    /\ r[1].state \in InitialStates(system)
    /\ \A i \in 1 .. n : r[i + 1].state = Step(system, r[i].state, r[i].input)

\* When no transition formula is missing, every model of the solver is a run.
LEMMA SolverRunsAreRuns ==
    ASSUME NEW n \in Nat, Exact(n), NEW r \in SolverRuns(n)
    PROVE  IsRun(r, n)
<1>1. PICK runs : IsRuns(runs, n) /\ SolverRuns(n) = runs[n]
  BY SolverRunsSteps
<1> DEFINE S == {i \in Nat : i <= n => \A q \in runs[i] : IsRun(q, i)}
<1> HIDE DEF S
<1>2. ASSUME NEW i \in Nat, \A m \in 0 .. i - 1 : m \in S
      PROVE  i \in S
  <2>1. CASE i = 0
    <3>1. SUFFICES ASSUME NEW q \in FirstRuns PROVE IsRun(q, 0)
      BY <1>1, <2>1 DEF S, IsRuns
    <3>2. PICK s \in InitialStates(system), x \in Inputs : q = <<Entry(s, x)>>
      BY DEF FirstRuns
    <3>3. s \in States
      BY DEF InitialStates
    <3> QED
      BY <3>2, <3>3 DEF IsRun, Entry, Trace
  <2>2. CASE i > 0 /\ i <= n
    <3>1. runs[i] = LongerRuns(runs[i - 1], i)
      BY <1>1, <2>2 DEF IsRuns
    <3>2. SUFFICES ASSUME NEW q \in LongerRuns(runs[i - 1], i) PROVE IsRun(q, i)
      BY <3>1 DEF S
    <3>3. PICK p \in runs[i - 1] : \E t \in Successors(p[i], i - 1), x \in Inputs :
              q = Append(p, Entry(t, x))
      BY DEF LongerRuns
    <3>4. PICK t \in Successors(p[i], i - 1), x \in Inputs : q = Append(p, Entry(t, x))
      BY <3>3
    <3>5. IsRun(p, i - 1)
      BY <1>2, <2>2 DEF S
    <3>6. t = Step(system, p[i].state, p[i].input)
      BY <2>2 DEF Exact, Successors
    <3>7. p \in Trace /\ Len(p) = i /\ i \in 1 .. Len(p)
      BY <2>2, <3>5 DEF IsRun
    <3>8. p[i].state \in States /\ p[i].input \in Inputs
      BY <3>7, EntryOfTrace
    <3>9. t \in States
      BY <3>6, <3>8 DEF Exact, Step, TransitionSystems
    <3>10. /\ q \in Trace /\ Len(q) = i + 1
           /\ q[i + 1] = Entry(t, x) /\ \A j \in 1 .. i : q[j] = p[j]
      BY <3>4, <3>7, <3>9, AppendEntry
    <3>11. \A j \in 1 .. i : q[j + 1].state = Step(system, q[j].state, q[j].input)
      <4>1. SUFFICES ASSUME NEW j \in 1 .. i
                     PROVE  q[j + 1].state = Step(system, q[j].state, q[j].input)
        OBVIOUS
      <4>2. CASE j = i
        BY <3>6, <3>10, <4>2 DEF Entry
      <4>3. CASE j < i
        <5>1. j \in 1 .. i - 1 /\ j + 1 \in 1 .. i
          BY <4>3
        <5> QED
          BY <3>5, <3>10, <5>1 DEF IsRun
      <4> QED
        BY <4>2, <4>3
    <3> QED
      BY <2>2, <3>5, <3>10, <3>11 DEF IsRun
  <2>3. CASE i > n
    BY <2>3 DEF S
  <2> QED
    BY <2>1, <2>2, <2>3
<1>3. n \in S
  BY <1>2, NaturalInduction
<1> QED
  BY <1>1, <1>3 DEF S

\* Some run of the set ends in state t under input y, as entry i + 1.
EndsIn(runs, i, t, y) ==
    \E r \in runs : r \in Trace /\ Len(r) = i + 1 /\ r[i + 1] = Entry(t, y)

\* When none is superfluous either, every state reachable in n steps ends some model.
LEMMA ReachableHasRun ==
    ASSUME NEW n \in Nat, Exact(n), NEW s \in ReachableIn(n), NEW x \in Inputs
    PROVE  EndsIn(SolverRuns(n), n, s, x)
<1>1. PICK runs : IsRuns(runs, n) /\ SolverRuns(n) = runs[n]
  BY SolverRunsSteps
<1>2. PICK image : IsImages(image, n) /\ ReachableIn(n) = image[n]
  BY ReachableSteps
<1> DEFINE S == {i \in Nat : i <= n => \A t \in image[i] :
                     t \in States /\ \A y \in Inputs : EndsIn(runs[i], i, t, y)}
<1> HIDE DEF S
<1>3. ASSUME NEW i \in Nat, \A m \in 0 .. i - 1 : m \in S
      PROVE  i \in S
  <2>1. CASE i = 0
    <3>1. runs[0] = FirstRuns /\ image[0] = InitialStates(system)
      BY <1>1, <1>2 DEF IsRuns, IsImages
    <3>2. ASSUME NEW t \in InitialStates(system), NEW y \in Inputs
          PROVE  EndsIn(FirstRuns, 0, t, y)
      <4>1. <<Entry(t, y)>> \in FirstRuns
        BY DEF FirstRuns
      <4>2. t \in States
        BY DEF InitialStates
      <4>3. <<Entry(t, y)>> \in Trace /\ Len(<<Entry(t, y)>>) = 0 + 1
        BY <4>2 DEF Trace, Entry
      <4>4. <<Entry(t, y)>>[0 + 1] = Entry(t, y)
        OBVIOUS
      <4> QED
        BY <4>1, <4>3, <4>4 DEF EndsIn
    <3>3. InitialStates(system) \subseteq States
      BY DEF InitialStates
    <3> QED
      BY <2>1, <3>1, <3>2, <3>3 DEF S
  <2>2. CASE i > 0 /\ i <= n
    <3>1. runs[i] = LongerRuns(runs[i - 1], i) /\ image[i] = Image(image[i - 1])
      BY <1>1, <1>2, <2>2 DEF IsRuns, IsImages
    <3>2. ASSUME NEW t \in Image(image[i - 1])
          PROVE  t \in States /\ \A y \in Inputs : EndsIn(LongerRuns(runs[i - 1], i), i, t, y)
      <4>1. PICK u \in image[i - 1], z \in Inputs : t = Step(system, u, z)
        BY <3>2 DEF Image
      <4>2. u \in States /\ EndsIn(runs[i - 1], i - 1, u, z)
        <5>1. i - 1 \in S
          BY <1>3, <2>2
        <5> QED
          BY <2>2, <5>1 DEF S
      <4>3. PICK p \in runs[i - 1] : p \in Trace /\ Len(p) = i /\ p[i] = Entry(u, z)
        BY <2>2, <4>2 DEF EndsIn
      <4>4. p[i].state = u /\ p[i].input = z
        BY <4>3 DEF Entry
      <4>5. t \in Successors(p[i], i - 1)
        BY <2>2, <4>1, <4>4 DEF Successors, Exact
      <4>6. t \in States
        BY <4>1, <4>2 DEF Exact, Step, TransitionSystems
      <4>7. ASSUME NEW y \in Inputs
            PROVE  EndsIn(LongerRuns(runs[i - 1], i), i, t, y)
        <5> DEFINE q == Append(p, Entry(t, y))
        <5>1. q \in Trace /\ Len(q) = i + 1 /\ q[i + 1] = Entry(t, y)
          BY <4>3, <4>6, AppendEntry
        <5>2. q \in {Append(p, Entry(v, w)) : v \in Successors(p[i], i - 1), w \in Inputs}
          BY <4>5
        <5> HIDE DEF q
        <5>3. q \in LongerRuns(runs[i - 1], i)
          BY <5>2 DEF LongerRuns
        <5> QED
          BY <5>1, <5>3 DEF EndsIn
      <4> QED
        BY <4>6, <4>7
    <3> QED
      BY <3>1, <3>2 DEF S
  <2>3. CASE i > n
    BY <2>3 DEF S
  <2> QED
    BY <2>1, <2>2, <2>3
<1>4. n \in S
  BY <1>3, NaturalInduction
<1> QED
  BY <1>1, <1>2, <1>4 DEF S

\* The inputs read off a run lead from its first state to its last one.
LEMMA RunReplays ==
    ASSUME NEW n \in Nat, NEW r, IsRun(r, n)
    PROVE  LET inputs == [i \in 1 .. Len(r) |-> r[i].input] IN
           /\ inputs \in Seq(Inputs) /\ Len(inputs) = n + 1
           /\ RunOf(system, r[1].state, inputs)[n + 1] = r[n + 1].state
<1> DEFINE inputs == [i \in 1 .. Len(r) |-> r[i].input]
           states == [i \in 1 .. Len(r) |-> r[i].state]
<1>1. r \in Trace /\ Len(r) = n + 1
  BY DEF IsRun
<1>2. \A i \in 1 .. Len(r) : r[i].input \in Inputs
  BY <1>1, EntryOfTrace
<1>3. inputs \in Seq(Inputs) /\ Len(inputs) = n + 1
  <2>1. Len(r) \in Nat /\ inputs \in [1 .. Len(r) -> Inputs]
    BY <1>1, <1>2
  <2> HIDE DEF inputs
  <2> QED
    BY <1>1, <2>1
<1>4. \A i \in 1 .. n + 1 : inputs[i] = r[i].input /\ states[i] = r[i].state
  BY <1>1
<1>5. \A i \in 1 .. n : states[i + 1] = Step(system, states[i], inputs[i])
  BY <1>4 DEF IsRun
<1> HIDE DEF inputs, states
<1>6. Follows(system, states, inputs)
  BY <1>3, <1>5 DEF Follows
<1>7. \A i \in 1 .. Len(inputs) : RunOf(system, states[1], inputs)[i] = states[i]
  BY <1>3, <1>6, RunFollows
<1>8. n + 1 \in 1 .. Len(inputs) /\ n + 1 \in 1 .. n + 1 /\ 1 \in 1 .. n + 1
  BY <1>3
<1>9. RunOf(system, r[1].state, inputs)[n + 1] = r[n + 1].state
  BY <1>4, <1>7, <1>8
<1> QED
  BY <1>3, <1>9 DEF inputs

\* The engine returns once and then stops.
ReturnEndsRun == result.verdict # "none" => pc = "done"

(***************************************************************************)
(* What the engine has found out.  The queries are exact, so a query that  *)
(* has no model rules the step out and a model of one is a counterexample. *)
(***************************************************************************)
Answers ==
    /\ Invariant
    /\ ReturnEndsRun
    /\ ShortestCounterexample
    /\ UnknownUpToBound
    /\ WitnessReplays

\* The query of a step asks for a run of that length that ends in a bad state.
LEMMA QueryExact ==
    ASSUME Invariant, pc = "query"
    PROVE  /\ step \in Nat /\ Exact(step)
           /\ Counterexamples = {r \in SolverRuns(step) :
                                     Bad(system, r[step + 1].state, r[step + 1].input)}
BY DEF Invariant, TypeOK, QueryIsExact, Exact, Counterexamples, ErrorHolds

\* A query without a model rules out a counterexample of its length.
LEMMA UnsatisfiableMeansNone ==
    ASSUME Invariant, pc = "query", Counterexamples = {}
    PROVE  NoCounterexampleAt(step)
<1>1. SUFFICES ASSUME NEW s \in ReachableIn(step), NEW x \in Inputs, Bad(system, s, x)
               PROVE  FALSE
  BY DEF NoCounterexampleAt
<1>2. PICK r \in SolverRuns(step) : r[step + 1] = Entry(s, x)
  BY QueryExact, ReachableHasRun DEF EndsIn
<1>3. r \in Counterexamples
  BY <1>1, <1>2, QueryExact DEF Entry
<1> QED
  BY <1>3

\* What build_counterexample reads off a model is a run to a bad state.
LEMMA ModelReplays ==
    ASSUME Invariant, pc = "query", NEW r \in Counterexamples
    PROVE  /\ r[1].state \in InitialStates(system)
           /\ Len(r) = step + 1
           /\ ReachesBad(system, r[1].state, [i \in 1 .. Len(r) |-> r[i].input])
<1> DEFINE inputs == [i \in 1 .. Len(r) |-> r[i].input]
<1>1. /\ step \in Nat /\ IsRun(r, step)
      /\ Bad(system, r[step + 1].state, r[step + 1].input)
  BY QueryExact, SolverRunsAreRuns
<1>2. /\ inputs \in Seq(Inputs) /\ Len(inputs) = step + 1
      /\ RunOf(system, r[1].state, inputs)[step + 1] = r[step + 1].state
  BY <1>1, RunReplays
<1>3. Len(r) = step + 1 /\ r[1].state \in InitialStates(system)
  BY <1>1 DEF IsRun
<1>4. inputs[step + 1] = r[step + 1].input
  BY <1>1, <1>3
<1> HIDE DEF inputs
<1>5. ReachesBad(system, r[1].state, inputs)
  BY <1>1, <1>2, <1>4 DEF ReachesBad
<1> QED
  BY <1>3, <1>5 DEF inputs

\* The engine never changes the system, and the counterexamples depend on nothing else.
LEMMA SameSystem ==
    ASSUME UNCHANGED system
    PROVE  \A k : NoCounterexampleAt(k)' <=> NoCounterexampleAt(k)
BY DEF NoCounterexampleAt, ReachableIn

\* At first no step is ruled out and nothing is returned.
LEMMA InitAnswers == Init => Answers
BY InitInvariant DEF Init, Answers, ReturnEndsRun, ShortestCounterexample, UnknownUpToBound,
   WitnessReplays

\* An answer adds what its query says to what is known.
LEMMA StepAnswers ==
    ASSUME Answers, [Next]_vars
    PROVE  Answers'
<1>1. Invariant /\ ReturnEndsRun /\ ShortestCounterexample /\ UnknownUpToBound /\ WitnessReplays
  BY DEF Answers
<1>2. Invariant'
  BY <1>1, StepInvariant
<1>3. system' = system
  BY DEF Next, vars, RefreshSolver, KeepSolver, Extend, FindCounterexample, NextStep,
     ExceedBound, Terminating
<1>4. \A k : NoCounterexampleAt(k)' <=> NoCounterexampleAt(k)
  BY <1>3, SameSystem
<1>5. InitialStates(system)' = InitialStates(system)
  BY <1>3
<1>6. step \in Nat /\ bound \in Int
  BY <1>1, BoundsAssumption DEF Invariant, TypeOK
<1>7. CASE RefreshSolver \/ KeepSolver \/ Extend \/ UNCHANGED vars \/ Terminating
  <2>1. UNCHANGED <<system, bound, step, result>> /\ (pc = "done" => pc' = "done")
    BY <1>7 DEF RefreshSolver, KeepSolver, Extend, Terminating, vars
  <2>2. ReturnEndsRun' /\ ShortestCounterexample' /\ UnknownUpToBound'
    BY <1>1, <1>4, <2>1 DEF ReturnEndsRun, ShortestCounterexample, UnknownUpToBound
  <2>3. ReportedInputs' = ReportedInputs
    BY <2>1 DEF ReportedInputs
  <2>4. WitnessReplays'
    BY <1>1, <2>1, <2>3 DEF WitnessReplays
  <2> QED
    BY <1>2, <2>2, <2>4 DEF Answers
<1>8. CASE FindCounterexample
  <2>1. PICK r \in Counterexamples : result' = [verdict |-> "counterexample", run |-> r]
    BY <1>8 DEF FindCounterexample
  <2>2. /\ pc = "query" /\ pc' = "done" /\ step' = step
        /\ result'.verdict = "counterexample" /\ result'.run = r
    BY <1>8, <2>1 DEF FindCounterexample
  <2>3. /\ r[1].state \in InitialStates(system)
        /\ Len(r) = step + 1
        /\ ReachesBad(system, r[1].state, [i \in 1 .. Len(r) |-> r[i].input])
    BY <1>1, <2>2, ModelReplays
  <2>4. ReportedInputs' = [i \in 1 .. Len(r) |-> r[i].input]
    BY <2>2 DEF ReportedInputs
  <2>5. WitnessReplays'
    BY <1>3, <2>2, <2>3, <2>4 DEF WitnessReplays
  <2>6. ReturnEndsRun' /\ ShortestCounterexample' /\ UnknownUpToBound'
    BY <1>1, <1>4, <2>2 DEF ReturnEndsRun, ShortestCounterexample, UnknownUpToBound
  <2> QED
    BY <1>2, <2>5, <2>6 DEF Answers
<1>9. CASE NextStep
  <2>1. /\ pc = "query" /\ Counterexamples = {} /\ step' = step + 1
        /\ result' = result /\ result.verdict = "none"
    BY <1>1, <1>9 DEF NextStep, ReturnEndsRun
  <2>2. NoCounterexampleAt(step)
    BY <1>1, <2>1, UnsatisfiableMeansNone
  <2>3. ShortestCounterexample'
    BY <1>1, <1>4, <1>6, <2>1, <2>2 DEF ShortestCounterexample
  <2>4. ReturnEndsRun' /\ UnknownUpToBound' /\ WitnessReplays'
    BY <2>1 DEF ReturnEndsRun, UnknownUpToBound, WitnessReplays
  <2> QED
    BY <1>2, <2>3, <2>4 DEF Answers
<1>10. CASE ExceedBound
  <2>1. /\ step > bound /\ pc' = "done" /\ UNCHANGED <<system, bound, step>>
        /\ result'.verdict = "unknown"
    BY <1>10 DEF ExceedBound
  <2>2. ReturnEndsRun' /\ ShortestCounterexample' /\ WitnessReplays'
    BY <1>1, <1>4, <2>1 DEF ReturnEndsRun, ShortestCounterexample, WitnessReplays
  <2>3. UnknownUpToBound'
    BY <1>1, <1>4, <1>6, <2>1 DEF ShortestCounterexample, UnknownUpToBound
  <2> QED
    BY <1>2, <2>2, <2>3 DEF Answers
<1> QED
  BY <1>7, <1>8, <1>9, <1>10 DEF Next

\* What the engine knows is true at any time.
LEMMA AnswersHolds == Spec => []Answers
BY InitAnswers, StepAnswers, PTL DEF Spec

\* run leaves a step behind only if no run of that length is a counterexample, so
\* the one it returns is a shortest one, however often the solver was emptied.
THEOREM CounterexamplesAreShortest == Spec => []ShortestCounterexample
<1>1. Answers => ShortestCounterexample
  BY DEF Answers
<1> QED
  BY <1>1, AnswersHolds, PTL

\* run returns unknown only if no run of at most bound steps is a counterexample.
THEOREM UnknownMeansNoneUpToBound == Spec => []UnknownUpToBound
<1>1. Answers => UnknownUpToBound
  BY DEF Answers
<1> QED
  BY <1>1, AnswersHolds, PTL

\* The counterexample that run returns starts in an initial state, has one state
\* for each step up to the current one, and its inputs lead to a bad state.
THEOREM CounterexamplesReplay == Spec => []WitnessReplays
<1>1. Answers => WitnessReplays
  BY DEF Answers
<1> QED
  BY <1>1, AnswersHolds, PTL

\* A model of a query is a bad run, so the system is not safe.
LEMMA ModelRefutesSafety ==
    ASSUME Answers, pc = "query", NEW r \in Counterexamples
    PROVE  ~ Safe(system)
<1> DEFINE inputs == [i \in 1 .. Len(r) |-> r[i].input]
<1>1. /\ inputs \in Seq(Inputs)
      /\ r[1].state \in InitialStates(system) /\ ReachesBad(system, r[1].state, inputs)
  BY ModelReplays, QueryExact, SolverRunsAreRuns, RunReplays DEF Answers
<1>2. system \in TransitionSystems
  BY DEF Answers, Invariant, TypeOK
<1> HIDE DEF inputs
<1> QED
  BY <1>1, <1>2, SafeMeansNoBadRun

\* The engine returns as engine::run promises.
LEMMA StepReturns ==
    ASSUME Answers, Answers', [Next]_vars
    PROVE  [Answer!Return]_(Answer!vars)
<1>1. system \in TransitionSystems /\ ReturnEndsRun /\ WitnessReplays'
  BY DEF Answers, Invariant, TypeOK
<1>2. Answer!Safe(system) <=> Safe(system)
  BY DEF Answer!Safe, Safe, Answer!ProvesSafe, ProvesSafe, Answer!InitialStates,
     InitialStates, Answer!States, States, Answer!Cubes, Cubes, Answer!Literals, Literals,
     Answer!Vars, Vars, Answer!Step, Step, Answer!Bad, Bad, Answer!Subsumes, Subsumes
<1>3. CASE UNCHANGED <<system, result>>
  BY <1>3 DEF Answer!vars, verdict
<1>4. CASE FindCounterexample
  <2>1. /\ pc = "query" /\ system' = system /\ result'.verdict = "counterexample"
        /\ verdict = "none" /\ verdict' = "counterexample"
    BY <1>1, <1>4 DEF FindCounterexample, ReturnEndsRun, verdict
  <2>2. PICK r \in Counterexamples : TRUE
    BY <1>4 DEF FindCounterexample
  <2>3. ~ Safe(system)
    BY <2>1, <2>2, ModelRefutesSafety
  <2> QED
    BY <1>2, <2>1, <2>3 DEF Answer!Return
<1>5. CASE ExceedBound
  BY <1>1, <1>5 DEF ExceedBound, ReturnEndsRun, verdict, Answer!Return
<1> QED
  BY <1>3, <1>4, <1>5 DEF Next, vars, RefreshSolver, KeepSolver, Extend, NextStep, Terminating

\* The engine implements the promise of engine::run: it never says ok, and returns
\* a counterexample only for a system that is not safe.
THEOREM AnswersAreSound == Spec => AnswersSoundly
<1>1. Init => Answer!Init
  BY DEF Init, Answer!Init, verdict
<1>2. Answers /\ Answers' /\ [Next]_vars => [Answer!Return]_(Answer!vars)
  BY StepReturns
<1> QED
  BY <1>1, <1>2, AnswersHolds, PTL DEF Spec, AnswersSoundly, Answer!Spec

-----------------------------------------------------------------------------
(***************************************************************************)
(* From the circuit to the verdict: the engine is run on what is built.    *)
(***************************************************************************)
\* The engine's systems are those that the builder makes.
LEMMA SameSystems ==
    ASSUME NumVars = NumLatches, Inputs = InputSets, NEW sys
    PROVE  System!Safe(sys) <=> Answer!Safe(sys)
BY DEF System!Safe, Answer!Safe, System!ProvesSafe, Answer!ProvesSafe, System!InitialStates,
       Answer!InitialStates, System!States, Answer!States, System!Cubes, Answer!Cubes,
       System!Literals, Answer!Literals, System!Vars, Answer!Vars, System!Step, Answer!Step,
       System!Bad, Answer!Bad, System!Subsumes, Answer!Subsumes

\* What the result of an engine says of the system it was given.
VerdictIsTrue ==
    /\ verdict = "ok" => Answer!Safe(system)
    /\ verdict = "counterexample" => ~ Answer!Safe(system)

\* An engine that keeps the promise of engine::run is right when it has returned,
\* and before.
LEMMA PromisedVerdicts == AnswersSoundly => []VerdictIsTrue
<1>1. Answer!Init => VerdictIsTrue
  BY DEF Answer!Init, VerdictIsTrue
<1>2. ASSUME VerdictIsTrue, [Answer!Return]_(Answer!vars)
      PROVE  VerdictIsTrue'
  <2>1. system' = system
    BY <1>2 DEF Answer!Return, Answer!vars
  <2>2. Answer!Safe(system)' <=> Answer!Safe(system)
    BY <2>1 DEF Answer!Safe
  <2>3. CASE Answer!Return
    BY <2>2, <2>3 DEF Answer!Return, VerdictIsTrue
  <2>4. CASE verdict' = verdict
    BY <1>2, <2>2, <2>4 DEF VerdictIsTrue
  <2> QED
    BY <1>2, <2>3, <2>4 DEF Answer!vars
<1> QED
  BY <1>1, <1>2, PTL DEF AnswersSoundly, Answer!Spec

\* What an engine that is run on the built system says of the circuit.
VerdictFitsCircuit ==
    loop = "done" /\ system = BuiltSystem =>
        /\ verdict = "ok" => System!Safe(CircuitSystem)
        /\ verdict = "counterexample" => ~ System!Safe(CircuitSystem)

(***************************************************************************)
(* Whatever an engine that keeps its promise answers for the built system  *)
(* is true of the circuit that was read, although the built system leaves  *)
(* out the latches outside the cone of influence.  It uses nothing of the  *)
(* engine but its promise, which PDR, BMC and ICAR are proved to keep, and *)
(* CAR but for the ok of its backward mode where an input or a gate that   *)
(* trans and error share may hide a step into the error.                   *)
(***************************************************************************)
THEOREM VerdictsFitCircuit ==
    ASSUME NumVars = NumLatches, Inputs = InputSets
    PROVE  BuilderSpec /\ AnswersSoundly => []VerdictFitsCircuit
<1>1. ASSUME BuilderInvariant, VerdictIsTrue
      PROVE  VerdictFitsCircuit
  <2>1. SUFFICES ASSUME loop = "done", system = BuiltSystem
                 PROVE  /\ verdict = "ok" => System!Safe(CircuitSystem)
                        /\ verdict = "counterexample" => ~ System!Safe(CircuitSystem)
    BY DEF VerdictFitsCircuit
  <2>2. System!Safe(BuiltSystem) <=> System!Safe(CircuitSystem)
    BY <1>1, <2>1, SafeIfBuilt DEF SafetyPreserved
  <2>3. Answer!Safe(system) <=> System!Safe(BuiltSystem)
    BY <2>1, SameSystems
  <2> QED
    BY <1>1, <2>2, <2>3 DEF VerdictIsTrue
<1> QED
  BY <1>1, BuilderInvariantHolds, PromisedVerdicts, PTL

\* BMC keeps the promise, so its counterexample for the built system means that the
\* circuit is unsafe.
THEOREM CircuitVerdictsOfBMC ==
    ASSUME NumVars = NumLatches, Inputs = InputSets
    PROVE  BuilderSpec /\ Spec => []VerdictFitsCircuit
BY VerdictsFitCircuit, AnswersAreSound, PTL
=============================================================================
