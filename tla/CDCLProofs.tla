----------------------------- MODULE CDCLProofs -----------------------------
(***************************************************************************)
(* What holds in module CDCL for every number of variables, all problems   *)
(* and all options.  One inductive invariant, Core, relates the trail,     *)
(* the clauses, the watches and the conflict under analysis; a second,     *)
(* RootsWatched, keeps shrink from taking away a watched literal.          *)
(***************************************************************************)
EXTENDS CDCL, WellFoundedInduction, FiniteSetTheorems, TLAPS

-----------------------------------------------------------------------------
(***************************************************************************)
(* Naturals, least and greatest elements.                                  *)
(***************************************************************************)
\* A nonempty set of naturals has a least element.
LEMMA LeastNatural ==
    ASSUME NEW S \in SUBSET Nat, S # {}
    PROVE  \E n \in S : \A m \in S : n <= m
<1> DEFINE R == {ss \in Nat \X Nat : ss[1] < ss[2]}
<1>1. IsWellFoundedOn(R, Nat)
  BY NatLessThanWellFounded DEF OpToRel
<1>2. \A x, y \in Nat : <<x, y>> \in R <=> x < y
  OBVIOUS
<1> HIDE DEF R
<1>3. PICK x \in S : \A y \in S : ~ (<<y, x>> \in R)
  BY <1>1, WFMin
<1>4. \A y \in S : ~ (y < x)
  BY <1>2, <1>3
<1> QED
  BY <1>4

\* Strong induction, for a set in place of a predicate.
LEMMA NaturalInduction ==
    ASSUME NEW S, \A n \in Nat : (\A m \in 0 .. n - 1 : m \in S) => n \in S
    PROVE  Nat \subseteq S
<1>1. SUFFICES ASSUME Nat \ S # {} PROVE FALSE
  OBVIOUS
<1>2. PICK n \in Nat \ S : \A m \in Nat \ S : n <= m
  BY <1>1, LeastNatural
<1> QED
  BY <1>2

\* A set of integers up to n that is not empty has a greatest element.
LEMMA GreatestOf ==
    ASSUME NEW n \in Nat, NEW S \in SUBSET (0 .. n), S # {}
    PROVE  Max(S) \in S /\ \A x \in S : x <= Max(S)
<1> DEFINE T == {k \in Nat : \E x \in S : k = n - x}
<1>1. T # {} /\ T \in SUBSET Nat
  <2>1. PICK e \in S : TRUE
    OBVIOUS
  <2>2. n - e \in T
    BY <2>1
  <2> QED
    BY <2>2
<1>2. PICK k \in T : \A m \in T : k <= m
  BY <1>1, LeastNatural
<1>3. PICK x \in S : k = n - x
  BY <1>2
<1>4. \A y \in S : n - y \in T
  OBVIOUS
<1>5. \A y \in S : y <= x
  BY <1>2, <1>3, <1>4
<1> QED
  BY <1>3, <1>5 DEF Max

\* What Min returns.
LEMMA LeastOf ==
    ASSUME NEW S \in SUBSET Nat, S # {}
    PROVE  Min(S) \in S /\ \A x \in S : Min(S) <= x
BY LeastNatural DEF Min

\* The negation of a literal is another literal.
LEMMA Negation ==
    /\ \A l \in Lits : l \in Int /\ -l \in Lits /\ -(-l) = l /\ l # -l
BY NumVarsAssumption DEF Lits, Vars

-----------------------------------------------------------------------------
(***************************************************************************)
(* The trail, and what backtracking keeps of it.                           *)
(***************************************************************************)
EntryType == [lit : Lits, level : Nat, source : Nat]

\* One literal per variable; the levels and decisions are where dlevels says.
TrailOK ==
    /\ trail \in Seq(EntryType) /\ dlevels \in Seq(Nat) /\ propagated \in 0 .. Len(trail)
    /\ \A i \in DOMAIN trail : trail[i].level <= DL
    /\ \A i, k \in DOMAIN trail : trail[i].lit \in {trail[k].lit, -trail[k].lit} => i = k
    /\ \A j \in 1 .. DL :
           /\ dlevels[j] <= propagated
           /\ \A i \in 1 .. dlevels[j] : trail[i].level < j
           /\ \A h \in 1 .. j : dlevels[h] <= dlevels[j]
    /\ \A i \in DOMAIN trail : trail[i].source = NOREF /\ trail[i].level > 0 =>
           /\ i = dlevels[trail[i].level] + 1
           /\ \A j \in trail[i].level + 1 .. DL : i <= dlevels[j]

IsKept(f, j) ==
    f = [i \in 0 .. Len(trail) |->
            IF i = 0 THEN <<>>
            ELSE IF i > Cut(j) /\ trail[i].level > j THEN f[i - 1]
                 ELSE Append(f[i - 1], trail[i])]

\* The recursive function inside Kept, named so that it can be reasoned about.
LEMMA KeptSteps ==
    ASSUME Len(trail) \in Nat, NEW j
    PROVE  \E f : IsKept(f, j) /\ Kept(j) = f[Len(trail)]
<1> DEFINE Step(v, i) == IF i > Cut(j) /\ trail[i].level > j THEN v ELSE Append(v, trail[i])
           Is(f, n) == f = [i \in 0 .. n |-> IF i = 0 THEN <<>> ELSE Step(f[i - 1], i)]
           S == {n \in Nat : \E f : Is(f, n)}
<1> HIDE DEF Step, S
<1>1. ASSUME NEW n \in Nat, \A m \in 0 .. n - 1 : m \in S
      PROVE  n \in S
  <2>1. CASE n = 0
    <3>1. Is([i \in 0 .. n |-> <<>>], n)
      BY <2>1
    <3> QED
      BY <3>1 DEF S
  <2>2. CASE n > 0
    <3>1. n - 1 \in S
      BY <1>1, <2>2
    <3>2. PICK f : Is(f, n - 1)
      BY <3>1 DEF S
    <3> DEFINE g == [i \in 0 .. n |-> IF i = 0 THEN <<>> ELSE Step(f[i - 1], i)]
    <3>3. \A i \in 0 .. n - 1 : g[i] = f[i]
      BY <3>2
    <3>4. \A i \in 0 .. n : i # 0 => Step(f[i - 1], i) = Step(g[i - 1], i)
      BY <3>3
    <3>5. Is(g, n)
      BY <3>4
    <3> QED
      BY <3>5 DEF S
  <2> QED
    BY <2>1, <2>2
<1>2. Len(trail) \in S
  BY <1>1, NaturalInduction
<1>3. PICK f : Is(f, Len(trail))
  BY <1>2 DEF S
<1>4. IsKept(f, j)
  BY <1>3 DEF IsKept, Step
<1> DEFINE c == CHOOSE g : IsKept(g, j)
<1>5. IsKept(c, j)
  BY <1>4
<1>6. Kept(j) = c[Len(trail)]
  BY DEF Kept, IsKept
<1> QED
  BY <1>5, <1>6

\* g tells where each entry of K was in the first i entries of the trail.
FromTrail(K, g, i, j) ==
    /\ K \in Seq(EntryType) /\ Len(K) <= i /\ g \in [1 .. Len(K) -> 1 .. i]
    /\ \A h \in 1 .. Len(K) : K[h] = trail[g[h]] /\ (g[h] <= Cut(j) \/ trail[g[h]].level <= j)
    /\ \A a, b \in 1 .. Len(K) : a < b => g[a] < g[b]
    /\ \A x \in 1 .. i : x <= Cut(j) \/ trail[x].level <= j => \E h \in 1 .. Len(K) : g[h] = x
    /\ \A h \in 1 .. i : h <= Cut(j) => h <= Len(K) /\ g[h] = h
    /\ \A h \in 1 .. Len(K) : h <= Cut(j) => g[h] = h

\* What backtracking keeps is a part of the trail, in its order.
LEMMA KeptPositions ==
    ASSUME trail \in Seq(EntryType), NEW j \in Nat, Cut(j) \in 0 .. Len(trail)
    PROVE  \E g : FromTrail(Kept(j), g, Len(trail), j)
<1>1. PICK f : IsKept(f, j) /\ Kept(j) = f[Len(trail)]
  BY KeptSteps
<1> DEFINE n == Len(trail)
           S == {i \in Nat : i <= n => \E g : FromTrail(f[i], g, i, j)}
<1>2. n \in Nat /\ f[0] = <<>>
      /\ \A i \in 1 .. n :
             /\ trail[i] \in EntryType
             /\ f[i] = IF i > Cut(j) /\ trail[i].level > j THEN f[i - 1]
                       ELSE Append(f[i - 1], trail[i])
  <2>1. n \in Nat /\ \A i \in 1 .. n : trail[i] \in EntryType
    OBVIOUS
  <2>2. f = [i \in 0 .. n |->
                IF i = 0 THEN <<>>
                ELSE IF i > Cut(j) /\ trail[i].level > j THEN f[i - 1]
                     ELSE Append(f[i - 1], trail[i])]
    BY <1>1 DEF IsKept
  <2>3. 0 \in 0 .. n /\ \A i \in 1 .. n : i \in 0 .. n /\ i # 0
    BY <2>1
  <2> HIDE DEF n
  <2>4. f[0] = <<>>
    BY <2>2, <2>3
  <2>5. ASSUME NEW i \in 1 .. n
        PROVE  f[i] = IF i > Cut(j) /\ trail[i].level > j THEN f[i - 1]
                      ELSE Append(f[i - 1], trail[i])
    BY <2>2, <2>3
  <2> QED
    BY <2>1, <2>4, <2>5
<1> HIDE DEF S, n
<1>3. ASSUME NEW i \in Nat, \A m \in 0 .. i - 1 : m \in S
      PROVE  i \in S
  <2>1. CASE i = 0
    <3> DEFINE g == [h \in 1 .. 0 |-> h]
    <3>1. f[i] = <<>> /\ g \in [1 .. 0 -> 1 .. 0]
      BY <1>2, <2>1
    <3>2. FromTrail(<<>>, g, 0, j)
      BY <3>1 DEF FromTrail
    <3>3. FromTrail(f[i], g, i, j)
      BY <2>1, <3>1, <3>2
    <3> QED
      BY <3>3 DEF S
  <2>2. CASE i > n
    BY <1>2, <2>2 DEF S
  <2>3. CASE i \in 1 .. n
    <3>1. i - 1 \in S /\ i - 1 <= n
      BY <1>3, <2>3, <1>2
    <3>2. PICK g : FromTrail(f[i - 1], g, i - 1, j)
      BY <3>1 DEF S
    <3> DEFINE K == f[i - 1]
    <3>3. CASE i > Cut(j) /\ trail[i].level > j
      <4>1. f[i] = K
        BY <1>2, <2>3, <3>3
      <4>2. FromTrail(K, g, i, j)
        <5>1. K \in Seq(EntryType) /\ Len(K) <= i /\ g \in [1 .. Len(K) -> 1 .. i]
          BY <2>3, <3>2 DEF FromTrail
        <5>2. \A x \in 1 .. i : x \in 1 .. i - 1 \/ x = i
          BY <2>3
        <5>3. trail[i].level \in Nat /\ Cut(j) \in Nat
          BY <1>2, <2>3 DEF EntryType
        <5>4. ~ (i <= Cut(j) \/ trail[i].level <= j)
          BY <2>3, <3>3, <5>3
        <5>5. \A x \in 1 .. i : x <= Cut(j) \/ trail[x].level <= j => \E h \in 1 .. Len(K) : g[h] = x
          BY <3>2, <5>2, <5>4 DEF FromTrail
        <5>6. \A h \in 1 .. i : h <= Cut(j) => h <= Len(K) /\ g[h] = h
          BY <3>2, <5>2, <5>4 DEF FromTrail
        <5> QED
          BY <3>2, <5>1, <5>5, <5>6 DEF FromTrail
      <4> QED
        BY <4>1, <4>2 DEF S
    <3>4. CASE ~ (i > Cut(j) /\ trail[i].level > j)
      <4> DEFINE L == Append(K, trail[i])
                 m == Len(K)
                 k == [h \in 1 .. m + 1 |-> IF h = m + 1 THEN i ELSE g[h]]
      <4>1. f[i] = L
        BY <1>2, <2>3, <3>4
      <4>2. K \in Seq(EntryType) /\ m \in Nat /\ m <= i - 1 /\ g \in [1 .. m -> 1 .. i - 1]
        BY <3>2 DEF FromTrail
      <4>3. /\ L \in Seq(EntryType) /\ Len(L) = m + 1 /\ L[m + 1] = trail[i]
            /\ \A h \in 1 .. m : L[h] = K[h]
        BY <1>2, <2>3, <4>2
      <4>4. k \in [1 .. m + 1 -> 1 .. i] /\ k[m + 1] = i /\ \A h \in 1 .. m : k[h] = g[h]
        BY <2>3, <4>2
      <4>5. \A h \in 1 .. m + 1 : h \in 1 .. m \/ h = m + 1
        BY <4>2
      <4>6. \A h \in 1 .. i : h \in 1 .. i - 1 \/ h = i
        BY <2>3
      <4> HIDE DEF L, k, m
      <4>7. trail[i].level \in Nat /\ Cut(j) \in Nat
        BY <1>2, <2>3 DEF EntryType
      <4>8. i <= Cut(j) \/ trail[i].level <= j
        BY <3>4, <4>7, <2>3
      <4>9. i <= Cut(j) => m = i - 1
        <5>1. i <= Cut(j) /\ i > 1 => i - 1 \in 1 .. i - 1 /\ i - 1 <= Cut(j)
          BY <2>3, <4>7
        <5>2. \A h \in 1 .. i - 1 : h <= Cut(j) => h <= m
          BY <3>2 DEF FromTrail, m
        <5>3. i \in Nat /\ i >= 1
          BY <2>3
        <5> QED
          BY <4>2, <5>1, <5>2, <5>3
      <4>10. FromTrail(L, k, i, j)
        <5>1. L \in Seq(EntryType) /\ Len(L) <= i /\ k \in [1 .. Len(L) -> 1 .. i]
          BY <4>2, <4>3, <4>4
        <5>2. \A h \in 1 .. m + 1 :
                  L[h] = trail[k[h]] /\ (k[h] <= Cut(j) \/ trail[k[h]].level <= j)
          BY <3>2, <4>3, <4>4, <4>5, <4>8 DEF FromTrail, m
        <5>3. \A a, b \in 1 .. m + 1 : a < b => k[a] < k[b]
          <6>1. SUFFICES ASSUME NEW a \in 1 .. m + 1, NEW b \in 1 .. m + 1, a < b
                         PROVE  k[a] < k[b]
            OBVIOUS
          <6>2. a \in 1 .. m /\ k[a] = g[a] /\ g[a] \in 1 .. i - 1
            <7>1. a \in 1 .. m
              BY <4>2, <6>1
            <7> QED
              BY <4>2, <4>4, <7>1
          <6>3. CASE b \in 1 .. m
            <7>1. g[a] < g[b]
              BY <3>2, <6>1, <6>2, <6>3 DEF FromTrail, m
            <7> QED
              BY <4>4, <6>2, <6>3, <7>1
          <6>4. CASE b = m + 1
            BY <2>3, <4>4, <6>2, <6>4
          <6> QED
            BY <4>5, <6>3, <6>4
        <5>4. \A x \in 1 .. i : x <= Cut(j) \/ trail[x].level <= j
                                    => \E h \in 1 .. m + 1 : k[h] = x
          <6>1. \A x \in 1 .. i - 1 : x <= Cut(j) \/ trail[x].level <= j
                                      => \E h \in 1 .. m : g[h] = x
            BY <3>2 DEF FromTrail, m
          <6>2. \A h \in 1 .. m : h \in 1 .. m + 1 /\ k[h] = g[h]
            BY <4>2, <4>4
          <6>3. m + 1 \in 1 .. m + 1 /\ k[m + 1] = i
            BY <4>2, <4>4
          <6> QED
            BY <4>6, <6>1, <6>2, <6>3
        <5>5. \A h \in 1 .. i : h <= Cut(j) => h <= m + 1 /\ k[h] = h
          <6>1. SUFFICES ASSUME NEW h \in 1 .. i, h <= Cut(j) PROVE h <= m + 1 /\ k[h] = h
            OBVIOUS
          <6>2. CASE h = i
            BY <4>4, <4>9, <6>1, <6>2, <2>3
          <6>3. CASE h \in 1 .. i - 1
            <7>1. h <= m /\ g[h] = h
              BY <3>2, <6>1, <6>3 DEF FromTrail, m
            <7> QED
              BY <4>2, <4>4, <6>3, <7>1
          <6> QED
            BY <4>6, <6>2, <6>3
        <5>6. \A h \in 1 .. m + 1 : h <= Cut(j) => k[h] = h
          <6>1. \A h \in 1 .. m : h <= Cut(j) => g[h] = h
            BY <3>2 DEF FromTrail, m
          <6>2. m + 1 <= i
            BY <4>2
          <6>3. \A h \in 1 .. m + 1 : h \in 1 .. i
            BY <6>2, <4>2, <2>3
          <6> QED
            BY <5>5, <6>3
        <5> QED
          BY <4>3, <5>1, <5>2, <5>3, <5>4, <5>5, <5>6 DEF FromTrail
      <4> QED
        BY <4>1, <4>10 DEF S
    <3> QED
      BY <3>3, <3>4
  <2> QED
    BY <1>2, <2>1, <2>2, <2>3
<1>4. n \in S
  BY <1>2, <1>3, NaturalInduction
<1> QED
  BY <1>1, <1>2, <1>4 DEF S, n

-----------------------------------------------------------------------------
(***************************************************************************)
(* Positions, levels and sources.                                          *)
(***************************************************************************)
SourceOf(l) == trail[PositionOf(l)].source

OneEach(t) ==
    /\ t \in Seq(EntryType)
    /\ \A i, k \in DOMAIN t : t[i].lit \in {t[k].lit, -t[k].lit} => i = k

\* What PositionOf, LevelOf and SourceOf say of a trail with one literal per variable.
PositionsOK ==
    /\ Assigned \subseteq Lits
    /\ \A l \in Assigned : -l \notin Assigned
    /\ \A i \in 1 .. Len(trail) :
           LET e == trail[i] IN
           /\ e \in EntryType
           /\ e.lit \in Assigned /\ PositionOf(e.lit) = i /\ PositionOf(-e.lit) = i
           /\ LevelOf(e.lit) = e.level /\ SourceOf(e.lit) = e.source
    /\ \A l \in Lits : ~ Unassigned(l) =>
           /\ PositionOf(l) \in 1 .. Len(trail) /\ trail[PositionOf(l)].lit \in {l, -l}
           /\ PositionOf(-l) = PositionOf(l) /\ LevelOf(-l) = LevelOf(l)
           /\ SourceOf(-l) = SourceOf(l)
           /\ LevelOf(l) \in Nat /\ SourceOf(l) \in Nat
    /\ \A l \in Assigned : trail[PositionOf(l)].lit = l
    /\ \A l, k \in Lits : ~ Unassigned(l) /\ ~ Unassigned(k) /\ PositionOf(l) = PositionOf(k)
                              => k \in {l, -l}

\* What PositionOf picks in a trail with one literal per variable.
LEMMA PositionIn ==
    ASSUME NEW t, OneEach(t)
    PROVE  LET Pos(l) == CHOOSE i \in DOMAIN t : t[i].lit \in {l, -l}
               Of     == {t[i].lit : i \in DOMAIN t}
           IN /\ Of \subseteq Lits
              /\ \A l \in Of : -l \notin Of
              /\ \A i \in 1 .. Len(t) :
                     t[i] \in EntryType /\ t[i].lit \in Of /\ Pos(t[i].lit) = i /\ Pos(-t[i].lit) = i
              /\ \A l \in Lits : ~ (l \notin Of /\ -l \notin Of) =>
                     /\ Pos(l) \in 1 .. Len(t) /\ t[Pos(l)].lit \in {l, -l}
                     /\ Pos(-l) = Pos(l)
                     /\ t[Pos(l)].level \in Nat /\ t[Pos(l)].source \in Nat
              /\ \A l \in Of : t[Pos(l)].lit = l
<1> DEFINE Pos(l) == CHOOSE i \in DOMAIN t : t[i].lit \in {l, -l}
           Of == {t[i].lit : i \in DOMAIN t}
<1>1. DOMAIN t = 1 .. Len(t) /\ \A i \in 1 .. Len(t) : t[i] \in EntryType /\ t[i].lit \in Lits
  <2>1. DOMAIN t = 1 .. Len(t) /\ \A i \in 1 .. Len(t) : t[i] \in EntryType
    BY DEF OneEach
  <2> QED
    BY <2>1 DEF EntryType
<1>2. \A i, k \in 1 .. Len(t) : t[i].lit \in {t[k].lit, -t[k].lit} => i = k
  BY <1>1 DEF OneEach
<1>3. \A i \in 1 .. Len(t) : t[i].level \in Nat /\ t[i].source \in Nat
  BY <1>1 DEF EntryType
<1>4. ASSUME NEW l \in Lits, ~ (l \notin Of /\ -l \notin Of)
      PROVE  /\ Pos(l) \in 1 .. Len(t) /\ t[Pos(l)].lit \in {l, -l}
             /\ \A i \in 1 .. Len(t) : t[i].lit \in {l, -l} => i = Pos(l)
  <2>1. \E i \in DOMAIN t : t[i].lit \in {l, -l}
    BY <1>4
  <2>2. Pos(l) \in DOMAIN t /\ t[Pos(l)].lit \in {l, -l}
    BY <2>1
  <2>3. \A i \in 1 .. Len(t) : t[i].lit \in {l, -l} => t[i].lit \in {t[Pos(l)].lit, -t[Pos(l)].lit}
    BY <2>2, Negation, <1>4
  <2> QED
    BY <2>2, <2>3, <1>1, <1>2
<1>5. \A i \in 1 .. Len(t) : t[i].lit \in Of
  BY <1>1
<1>6. Of \subseteq Lits
  BY <1>1
<1>7. \A l \in Of : \E i \in 1 .. Len(t) : l = t[i].lit
  BY <1>1
<1> HIDE DEF Pos, Of
<1>8. ASSUME NEW l \in Of PROVE -l \notin Of
  <2>1. SUFFICES ASSUME -l \in Of PROVE FALSE
    OBVIOUS
  <2>2. PICK i \in 1 .. Len(t) : l = t[i].lit
    BY <1>7
  <2>3. PICK k \in 1 .. Len(t) : -l = t[k].lit
    BY <1>7, <2>1
  <2>4. -(-l) = l /\ l # -l
    BY <1>6, Negation
  <2>5. i = k
    BY <1>2, <2>2, <2>3, <2>4
  <2> QED
    BY <2>2, <2>3, <2>4, <2>5
<1>9. ASSUME NEW i \in 1 .. Len(t)
      PROVE  Pos(t[i].lit) = i /\ Pos(-t[i].lit) = i
  <2>1. t[i].lit \in Lits /\ -t[i].lit \in Lits /\ t[i].lit \in Of /\ -(-t[i].lit) = t[i].lit
    BY <1>1, <1>5, Negation
  <2>2. i = Pos(t[i].lit)
    BY <1>4, <2>1
  <2>3. i = Pos(-t[i].lit)
    BY <1>4, <2>1
  <2> QED
    BY <2>2, <2>3
<1>10. ASSUME NEW l \in Lits, ~ (l \notin Of /\ -l \notin Of)
       PROVE  Pos(-l) = Pos(l)
  <2>1. -l \in Lits /\ -(-l) = l
    BY Negation
  <2>2. Pos(-l) \in 1 .. Len(t) /\ t[Pos(-l)].lit \in {l, -l}
    BY <1>4, <1>10, <2>1
  <2> QED
    BY <1>4, <1>10, <2>2
<1>11. ASSUME NEW l \in Of PROVE t[Pos(l)].lit = l
  BY <1>7, <1>9
<1> QED
  BY <1>1, <1>3, <1>4, <1>5, <1>6, <1>8, <1>9, <1>10, <1>11 DEF Pos, Of

\* Positions, levels and sources are those of the trail.
LEMMA PositionsHold == TrailOK => PositionsOK
<1>1. SUFFICES ASSUME TrailOK PROVE PositionsOK
  OBVIOUS
<1>2. OneEach(trail) /\ DOMAIN trail = 1 .. Len(trail)
  BY <1>1 DEF OneEach, TrailOK
<1> DEFINE Pos(l) == CHOOSE i \in DOMAIN trail : trail[i].lit \in {l, -l}
           Of == {trail[i].lit : i \in DOMAIN trail}
<1>3. Of = Assigned /\ \A l : Pos(l) = PositionOf(l)
  BY DEF Assigned, PositionOf
<1>4. /\ Of \subseteq Lits
      /\ \A l \in Of : -l \notin Of
      /\ \A i \in 1 .. Len(trail) :
             /\ trail[i] \in EntryType /\ trail[i].lit \in Of
             /\ Pos(trail[i].lit) = i /\ Pos(-trail[i].lit) = i
      /\ \A l \in Lits : ~ (l \notin Of /\ -l \notin Of) =>
             /\ Pos(l) \in 1 .. Len(trail) /\ trail[Pos(l)].lit \in {l, -l}
             /\ Pos(-l) = Pos(l)
             /\ trail[Pos(l)].level \in Nat /\ trail[Pos(l)].source \in Nat
      /\ \A l \in Of : trail[Pos(l)].lit = l
  BY <1>2, PositionIn
<1> HIDE DEF Pos, Of
<1>5. \A l, k \in Lits : ~ Unassigned(l) /\ ~ Unassigned(k) /\ PositionOf(l) = PositionOf(k)
                              => k \in {l, -l}
  BY <1>3, <1>4, Negation DEF Unassigned
<1> QED
  BY <1>3, <1>4, <1>5 DEF PositionsOK, LevelOf, SourceOf, Unassigned

\* The same of the trail after a step.
LEMMA PositionsHoldAfter == TrailOK' => PositionsOK'
<1>1. SUFFICES ASSUME TrailOK' PROVE PositionsOK'
  OBVIOUS
<1>2. OneEach(trail') /\ DOMAIN trail' = 1 .. Len(trail')
  BY <1>1 DEF OneEach, TrailOK
<1> DEFINE Pos(l) == CHOOSE i \in DOMAIN trail' : trail'[i].lit \in {l, -l}
           Of == {trail'[i].lit : i \in DOMAIN trail'}
<1>3. Of = Assigned' /\ \A l : Pos(l) = PositionOf(l)'
  BY DEF Assigned, PositionOf
<1>4. /\ Of \subseteq Lits
      /\ \A l \in Of : -l \notin Of
      /\ \A i \in 1 .. Len(trail') :
             /\ trail'[i] \in EntryType /\ trail'[i].lit \in Of
             /\ Pos(trail'[i].lit) = i /\ Pos(-trail'[i].lit) = i
      /\ \A l \in Lits : ~ (l \notin Of /\ -l \notin Of) =>
             /\ Pos(l) \in 1 .. Len(trail') /\ trail'[Pos(l)].lit \in {l, -l}
             /\ Pos(-l) = Pos(l)
             /\ trail'[Pos(l)].level \in Nat /\ trail'[Pos(l)].source \in Nat
      /\ \A l \in Of : trail'[Pos(l)].lit = l
  BY <1>2, PositionIn
<1> HIDE DEF Pos, Of
<1>5. \A l, k \in Lits : ~ Unassigned(l)' /\ ~ Unassigned(k)' /\ PositionOf(l)' = PositionOf(k)'
                              => k \in {l, -l}
  BY <1>3, <1>4, Negation DEF Unassigned
<1> QED
  BY <1>3, <1>4, <1>5 DEF PositionsOK, LevelOf, SourceOf, Unassigned

-----------------------------------------------------------------------------
(***************************************************************************)
(* Steps that keep some levels of the trail.                               *)
(***************************************************************************)
\* What a step leaves of a trail of which it keeps the levels up to j, with new entries.
Moves(j, new) ==
    /\ new \subseteq EntryType
    /\ Assigned' = {l \in Assigned : LevelOf(l) <= j} \cup {e.lit : e \in new}
    /\ \A l \in Lits : ~ Unassigned(l) /\ LevelOf(l) <= j =>
           LevelOf(l)' = LevelOf(l) /\ SourceOf(l)' = SourceOf(l)
    /\ \A k, l \in Lits :
           /\ ~ Unassigned(k) /\ LevelOf(k) <= j /\ ~ Unassigned(l) /\ LevelOf(l) <= j
           /\ PositionOf(k) < PositionOf(l)
           => PositionOf(k)' < PositionOf(l)'
    /\ \A e \in new :
           /\ LevelOf(e.lit)' = e.level /\ SourceOf(e.lit)' = e.source
           /\ Cut(j) < PositionOf(e.lit)'
           /\ \A k \in Lits : ~ Unassigned(k) /\ LevelOf(k) <= j => PositionOf(k)' < PositionOf(e.lit)'
    /\ \A l \in Lits : ~ Unassigned(l)' /\ PositionOf(l)' <= Cut(j) =>
           ~ Unassigned(l) /\ LevelOf(l) <= j /\ PositionOf(l) = PositionOf(l)'

\* The facts about levels, with sets named.
LEMMA Levels ==
    ASSUME TrailOK
    PROVE  /\ DL \in Nat /\ Len(trail) \in Nat /\ propagated \in Nat /\ propagated <= Len(trail)
           /\ \A i \in 1 .. Len(trail) :
                  trail[i] \in EntryType /\ trail[i].level \in Nat /\ trail[i].level <= DL
           /\ \A j \in 1 .. DL : dlevels[j] \in Nat /\ dlevels[j] <= propagated
           /\ \A j \in 0 .. DL : Cut(j) \in Nat /\ Cut(j) <= Len(trail)
           /\ \A j \in 0 .. DL : \A i \in 1 .. Cut(j) : trail[i].level <= j
           /\ Cut(DL) = Len(trail)
           /\ \A j \in 0 .. DL : \A h \in 1 .. j : dlevels[h] <= Cut(j)
           /\ \A l \in Lits : ~ Unassigned(l) => LevelOf(l) \in 0 .. DL
<1>1. trail \in Seq(EntryType) /\ dlevels \in Seq(Nat) /\ propagated \in 0 .. Len(trail)
  BY DEF TrailOK
<1>2. DL \in Nat /\ Len(trail) \in Nat /\ propagated \in Nat /\ propagated <= Len(trail)
  BY <1>1 DEF DL
<1>3. \A i \in 1 .. Len(trail) : trail[i] \in EntryType
  BY <1>1
<1>4. \A i \in 1 .. Len(trail) : trail[i].level \in Nat /\ trail[i].level <= DL
  BY <1>1, <1>3 DEF TrailOK, EntryType
<1>5. \A j \in 1 .. DL : dlevels[j] \in Nat /\ dlevels[j] <= propagated
  BY <1>1 DEF TrailOK, DL
<1>6. \A j \in 1 .. DL : /\ \A i \in 1 .. dlevels[j] : trail[i].level < j
                         /\ \A h \in 1 .. j : dlevels[h] <= dlevels[j]
  BY DEF TrailOK
<1>7. ASSUME NEW j \in 0 .. DL
      PROVE  /\ Cut(j) \in Nat /\ Cut(j) <= Len(trail)
             /\ \A i \in 1 .. Cut(j) : trail[i].level <= j
             /\ \A h \in 1 .. j : dlevels[h] <= Cut(j)
  <2>1. CASE j < DL
    <3>1. j + 1 \in 1 .. DL /\ Cut(j) = dlevels[j + 1]
      BY <2>1, <1>2 DEF Cut
    <3>2. Cut(j) \in Nat /\ Cut(j) <= Len(trail)
      BY <3>1, <1>2, <1>5
    <3>3. \A i \in 1 .. Cut(j) : trail[i].level < j + 1
      BY <3>1, <1>6
    <3>4. \A h \in 1 .. j : h \in 1 .. j + 1
      BY <1>2
    <3>5. \A i \in 1 .. Cut(j) : i \in 1 .. Len(trail)
      BY <3>2, <1>2
    <3> QED
      BY <3>1, <3>2, <3>3, <3>4, <3>5, <1>4, <1>6
  <2>2. CASE j = DL
    <3>1. Cut(j) = Len(trail)
      BY <2>2, <1>2 DEF Cut
    <3> QED
      BY <3>1, <2>2, <1>2, <1>4, <1>5
  <2> QED
    BY <2>1, <2>2, <1>2
<1>8. Cut(DL) = Len(trail)
  BY <1>2 DEF Cut
<1>9. PositionsOK
  BY PositionsHold
<1>10. \A l \in Lits : ~ Unassigned(l) => LevelOf(l) \in 0 .. DL
  BY <1>2, <1>4, <1>9 DEF PositionsOK, LevelOf
<1> QED
  BY <1>2, <1>3, <1>4, <1>5, <1>7, <1>8, <1>10

\* A step that leaves the trail alone keeps all of its levels.
LEMMA UnchangedMoves ==
    ASSUME TrailOK, trail' = trail
    PROVE  Moves(DL, {})
<1>1. /\ Assigned' = Assigned
      /\ \A l : PositionOf(l)' = PositionOf(l) /\ LevelOf(l)' = LevelOf(l)
                /\ SourceOf(l)' = SourceOf(l) /\ (Unassigned(l)' <=> Unassigned(l))
  BY DEF Assigned, PositionOf, LevelOf, SourceOf, Unassigned
<1>2. \A l \in Lits : ~ Unassigned(l) => LevelOf(l) <= DL
  BY Levels
<1>3. Assigned \subseteq Lits
  BY PositionsHold DEF PositionsOK
<1> QED
  BY <1>1, <1>2, <1>3 DEF Moves, Unassigned

\* A step that appends an entry keeps all the levels below it.
LEMMA AppendMoves ==
    ASSUME TrailOK, TrailOK', NEW e \in EntryType, trail' = Append(trail, e)
    PROVE  Moves(DL, {e})
<1>1. PositionsOK /\ PositionsOK'
  BY PositionsHold, PositionsHoldAfter
<1> DEFINE n == Len(trail)
<1>2. /\ n \in Nat /\ trail \in Seq(EntryType)
      /\ Len(trail') = n + 1 /\ trail'[n + 1] = e
      /\ \A i \in 1 .. n : trail'[i] = trail[i]
  BY DEF TrailOK
<1>3. \A i \in 1 .. n + 1 : i \in 1 .. n \/ i = n + 1
  BY <1>2
<1>4. DOMAIN trail = 1 .. n /\ DOMAIN trail' = 1 .. n + 1
  BY <1>2
<1> HIDE DEF n
<1>5. Assigned' = Assigned \cup {e.lit}
  BY <1>2, <1>3, <1>4 DEF Assigned
<1>6. \A l \in Lits : ~ Unassigned(l) => PositionOf(l) \in 1 .. n /\ trail[PositionOf(l)].lit \in {l, -l}
  BY <1>1 DEF PositionsOK, n
<1>7. ASSUME NEW l \in Lits, ~ Unassigned(l)
      PROVE  PositionOf(l)' = PositionOf(l) /\ LevelOf(l)' = LevelOf(l) /\ SourceOf(l)' = SourceOf(l)
  <2> DEFINE i == PositionOf(l)
  <2>1. i \in 1 .. n /\ trail[i].lit \in {l, -l} /\ trail'[i] = trail[i] /\ i \in 1 .. n + 1
    BY <1>2, <1>6, <1>7
  <2>2. \A x \in Lits : x = trail'[i].lit => PositionOf(x)' = i /\ PositionOf(-x)' = i
    BY <1>1, <1>2, <2>1 DEF PositionsOK, n
  <2>3. -(-l) = l
    BY Negation
  <2>4. PositionOf(l)' = i
    <3>1. trail[i].lit \in Lits
      BY <2>1, <2>3, Negation
    <3> QED
      BY <2>1, <2>2, <2>3, <3>1
  <2> HIDE DEF i
  <2>5. trail'[PositionOf(l)'] = trail[PositionOf(l)]
    BY <2>1, <2>4 DEF i
  <2> QED
    BY <2>4, <2>5 DEF LevelOf, SourceOf, i
<1>8. PositionOf(e.lit)' = n + 1 /\ LevelOf(e.lit)' = e.level /\ SourceOf(e.lit)' = e.source
  <2>1. n + 1 \in 1 .. n + 1
    BY <1>2
  <2> QED
    BY <1>1, <1>2, <2>1 DEF PositionsOK
<1>9. \A l \in Lits : ~ Unassigned(l) => LevelOf(l) <= DL
  BY Levels
<1>10. Assigned \subseteq Lits /\ Cut(DL) = n
  BY <1>1, Levels DEF PositionsOK, n
<1>11. Assigned = {l \in Assigned : LevelOf(l) <= DL}
  BY <1>9, <1>10 DEF Unassigned
<1>12. ASSUME NEW l \in Lits, ~ Unassigned(l)', PositionOf(l)' <= Cut(DL)
       PROVE  ~ Unassigned(l)
  <2>1. l \in Assigned' \/ -l \in Assigned'
    BY <1>12 DEF Unassigned
  <2>2. e.lit # l /\ -e.lit # l
    <3>1. PositionOf(-e.lit)' = n + 1
      <4>1. n + 1 \in 1 .. Len(trail')
        BY <1>2
      <4> QED
        BY <1>1, <1>2, <4>1 DEF PositionsOK
    <3>2. ~ (n + 1 <= n)
      BY <1>2
    <3> QED
      BY <3>1, <3>2, <1>8, <1>10, <1>12
  <2>3. e.lit \in Lits
    BY DEF EntryType
  <2>4. -l # e.lit
    BY <2>2, <2>3, Negation
  <2> QED
    BY <1>5, <2>1, <2>2, <2>4 DEF Unassigned
<1>13. \A l \in Lits : ~ Unassigned(l) => PositionOf(l) < n + 1
  BY <1>2, <1>6
<1>14. n < n + 1
  BY <1>2
<1> QED
  BY <1>5, <1>7, <1>8, <1>9, <1>10, <1>11, <1>12, <1>13, <1>14 DEF Moves

\* What may be enqueued after a backtrack to level j: nothing, or one literal
\* that is not left on the trail.
Enqueued(enq, new, j) ==
    \/ enq = <<>> /\ new = {}
    \/ \E e \in EntryType :
           /\ enq = <<e>> /\ new = {e}
           /\ e.level <= j /\ (e.source = NOREF => e.level = 0)
           /\ ~ Unassigned(e.lit) => LevelOf(e.lit) > j

\* The trail K \o enq that a backtrack to level j leaves: K is what stays of the
\* trail, its i-th literal was the g[i]-th, and the order is the same.
TrailLeft(K, g, enq, new, j) ==
    /\ Len(K) \in Nat /\ Len(K) <= Len(trail) /\ Cut(j) <= Len(K)
    /\ \A i \in 1 .. Len(K) :
           /\ g[i] \in 1 .. Len(trail) /\ K[i] = trail[g[i]] /\ K[i] \in EntryType
           /\ K[i].level <= j
    /\ \A a, b \in 1 .. Len(K) : g[a] = g[b] => a = b
    /\ \A a, b \in 1 .. Len(K) : g[a] < g[b] => a < b
    /\ \A i \in 1 .. Cut(j) : i \in 1 .. Len(K) /\ g[i] = i
    /\ \A i \in 1 .. Len(K) : i <= Cut(j) <=> g[i] <= Cut(j)
    /\ K \o enq \in Seq(EntryType)
    /\ \A i \in 1 .. Len(K) : (K \o enq)[i] = K[i]
    /\ new = {} => Len(K \o enq) = Len(K)
    /\ \A e \in new : Len(K \o enq) = Len(K) + 1 /\ (K \o enq)[Len(K) + 1] = e
    /\ new = {} \/ \E e \in EntryType : new = {e}

\* The trail that a backtrack leaves, in terms of the positions of KeptPositions.
LEMMA BacktrackedTrail ==
    ASSUME TrailOK, NEW j \in 0 .. DL, NEW enq, NEW new, Enqueued(enq, new, j),
           NEW K, NEW g, FromTrail(K, g, Len(trail), j)
    PROVE  TrailLeft(K, g, enq, new, j)
<1>1. /\ DL \in Nat /\ Len(trail) \in Nat /\ Cut(j) \in Nat /\ Cut(j) <= Len(trail)
      /\ \A i \in 1 .. Cut(j) : trail[i].level <= j
      /\ \A i \in 1 .. Len(trail) : trail[i] \in EntryType
  BY Levels
<1> DEFINE m == Len(K)
           n == Len(trail)
<1>2. /\ K \in Seq(EntryType) /\ m \in Nat /\ m <= n /\ g \in [1 .. m -> 1 .. n]
      /\ \A h \in 1 .. m : K[h] = trail[g[h]] /\ (g[h] <= Cut(j) \/ trail[g[h]].level <= j)
      /\ \A a, b \in 1 .. m : a < b => g[a] < g[b]
      /\ \A h \in 1 .. n : h <= Cut(j) => h <= m /\ g[h] = h
      /\ \A h \in 1 .. m : h <= Cut(j) => g[h] = h
  <2>1. K \in Seq(EntryType) /\ m <= n /\ g \in [1 .. m -> 1 .. n]
    BY DEF FromTrail
  <2>2. m \in Nat
    BY <2>1
  <2> HIDE DEF m, n
  <2>3. \A h \in 1 .. m : K[h] = trail[g[h]] /\ (g[h] <= Cut(j) \/ trail[g[h]].level <= j)
    BY DEF FromTrail, m, n
  <2>4. \A a, b \in 1 .. m : a < b => g[a] < g[b]
    BY DEF FromTrail, m, n
  <2>5. \A h \in 1 .. n : h <= Cut(j) => h <= m /\ g[h] = h
    BY DEF FromTrail, m, n
  <2>6. \A h \in 1 .. m : h <= Cut(j) => g[h] = h
    BY DEF FromTrail, m, n
  <2> QED
    BY <2>1, <2>2, <2>3, <2>4, <2>5, <2>6
<1>3. \A i \in 1 .. m : K[i] \in EntryType
  BY <1>2
<1> HIDE DEF m
<1>4. \A i \in 1 .. m : g[i] \in 1 .. n /\ g[i] \in Nat
  BY <1>2, <1>1
<1>5. \A i \in 1 .. m : K[i].level <= j
  <2>1. SUFFICES ASSUME NEW i \in 1 .. m PROVE trail[g[i]].level <= j
    BY <1>2
  <2>2. CASE g[i] <= Cut(j)
    <3>1. g[i] \in 1 .. Cut(j)
      BY <1>1, <1>4, <2>2
    <3> QED
      BY <1>1, <3>1
  <2> QED
    BY <1>2, <2>1, <2>2
<1>6. Cut(j) <= m /\ \A i \in 1 .. Cut(j) : i \in 1 .. m /\ g[i] = i
  <2>1. \A i \in 1 .. Cut(j) : i \in 1 .. n
    BY <1>1
  <2>2. \A i \in 1 .. Cut(j) : i \in 1 .. m /\ g[i] = i
    BY <2>1, <1>1, <1>2
  <2>3. Cut(j) = 0 \/ Cut(j) \in 1 .. Cut(j)
    BY <1>1
  <2> QED
    BY <2>2, <2>3, <1>1, <1>2
<1>7. \A a, b \in 1 .. m : g[a] = g[b] => a = b
  <2>1. \A a, b \in 1 .. m : a < b \/ b < a \/ a = b
    BY <1>2
  <2> QED
    BY <2>1, <1>2, <1>4
<1>8. \A a, b \in 1 .. m : g[a] < g[b] => a < b
  <2>1. \A a, b \in 1 .. m : a < b \/ b < a \/ a = b
    BY <1>2
  <2> QED
    BY <2>1, <1>2, <1>4
<1>9. \A i \in 1 .. m : i <= Cut(j) <=> g[i] <= Cut(j)
  <2>1. SUFFICES ASSUME NEW i \in 1 .. m PROVE i <= Cut(j) <=> g[i] <= Cut(j)
    OBVIOUS
  <2>2. ASSUME g[i] <= Cut(j) PROVE i <= Cut(j)
    <3>1. g[i] \in 1 .. Cut(j)
      BY <1>1, <1>4, <2>2
    <3>2. g[i] \in 1 .. m /\ g[g[i]] = g[i]
      BY <1>6, <3>1
    <3>3. i = g[i]
      BY <1>7, <3>2
    <3> QED
      BY <3>3, <2>2
  <2> QED
    BY <2>2, <1>2
<1>10. /\ K \o enq \in Seq(EntryType)
       /\ \A i \in 1 .. Len(K) : (K \o enq)[i] = K[i]
       /\ new = {} => Len(K \o enq) = Len(K)
       /\ \A e \in new : Len(K \o enq) = Len(K) + 1 /\ (K \o enq)[Len(K) + 1] = e
       /\ new = {} \/ \E e \in EntryType : new = {e}
  <2>1. CASE enq = <<>> /\ new = {}
    BY <1>2, <2>1
  <2>2. ASSUME NEW e \in EntryType, enq = <<e>>, new = {e}
        PROVE  /\ K \o enq \in Seq(EntryType)
               /\ \A i \in 1 .. Len(K) : (K \o enq)[i] = K[i]
               /\ Len(K \o enq) = Len(K) + 1 /\ (K \o enq)[Len(K) + 1] = e
    BY <1>2, <2>2
  <2> QED
    BY <2>1, <2>2 DEF Enqueued
<1> QED
  BY <1>1, <1>2, <1>3, <1>4, <1>5, <1>6, <1>7, <1>8, <1>9, <1>10 DEF m, TrailLeft

\* Backtracking out of order keeps the trail well-formed: what stays of lower
\* levels is behind their decisions.
LEMMA BacktrackKeepsTrailOK ==
    ASSUME TrailOK, NEW j \in 0 .. DL, NEW enq, NEW new, Enqueued(enq, new, j),
           Backtrack(j, enq)
    PROVE  TrailOK' /\ DL' = j /\ \A h \in 1 .. j : dlevels'[h] = dlevels[h]
<1>1. /\ DL \in Nat /\ Len(trail) \in Nat /\ Cut(j) \in Nat /\ Cut(j) <= Len(trail)
      /\ propagated \in Nat /\ propagated <= Len(trail)
      /\ \A h \in 1 .. j : dlevels[h] <= Cut(j)
      /\ \A h \in 1 .. DL : dlevels[h] \in Nat /\ dlevels[h] <= propagated
      /\ j \in Nat /\ j <= DL
  BY Levels
<1>2. trail \in Seq(EntryType) /\ dlevels \in Seq(Nat)
  BY DEF TrailOK
<1>3. PICK K, g : K = Kept(j) /\ FromTrail(K, g, Len(trail), j)
  BY <1>1, <1>2, KeptPositions
<1> DEFINE m == Len(K)
           n == Len(trail)
<1>4. /\ m \in Nat /\ m <= n /\ Cut(j) <= m
      /\ \A i \in 1 .. m :
             /\ g[i] \in 1 .. n /\ K[i] = trail[g[i]] /\ K[i] \in EntryType
             /\ K[i].level <= j
      /\ \A a, b \in 1 .. m : g[a] = g[b] => a = b
      /\ \A i \in 1 .. Cut(j) : i \in 1 .. m /\ g[i] = i
      /\ \A i \in 1 .. m : i <= Cut(j) <=> g[i] <= Cut(j)
      /\ K \o enq \in Seq(EntryType)
      /\ \A i \in 1 .. m : (K \o enq)[i] = K[i]
      /\ new = {} => Len(K \o enq) = m
      /\ \A e \in new : Len(K \o enq) = m + 1 /\ (K \o enq)[m + 1] = e
      /\ new = {} \/ \E e \in EntryType : new = {e}
  <2>1. TrailLeft(K, g, enq, new, j)
    BY <1>3, BacktrackedTrail
  <2> QED
    BY <2>1 DEF TrailLeft
<1>5. /\ trail' = K \o enq
      /\ propagated' = IF propagated > Cut(j) THEN Cut(j) ELSE propagated
      /\ dlevels' = SubSeq(dlevels, 1, j)
  BY <1>3 DEF Backtrack
<1> HIDE DEF m, n
<1>6. dlevels' \in Seq(Nat) /\ DL' = j /\ \A h \in 1 .. j : dlevels'[h] = dlevels[h]
  BY <1>1, <1>2, <1>5 DEF DL
<1>7. ASSUME NEW e \in new
      PROVE  /\ e \in EntryType /\ e.level \in Nat /\ e.level <= j
             /\ e.source = NOREF => e.level = 0
             /\ e.lit \in Lits
             /\ ~ Unassigned(e.lit) => LevelOf(e.lit) > j
             /\ new = {e}
  BY <1>7 DEF Enqueued, EntryType
<1>8. /\ DOMAIN trail' = 1 .. Len(trail')
      /\ \A i \in 1 .. Len(trail') : i \in 1 .. m \/ (i = m + 1 /\ trail'[m + 1] \in new)
      /\ \A i \in 1 .. m : trail'[i] = K[i] /\ i \in 1 .. Len(trail')
      /\ Cut(j) <= Len(trail') /\ trail' \in Seq(EntryType)
  <2>1. CASE new = {}
    BY <2>1, <1>1, <1>4, <1>5
  <2>2. CASE new # {}
    <3>1. PICK e \in new : TRUE
      BY <2>2
    <3>2. Len(trail') = m + 1 /\ trail'[m + 1] = e
      BY <1>4, <1>5, <3>1
    <3>3. \A i \in 1 .. m + 1 : i \in 1 .. m \/ i = m + 1
      BY <1>4
    <3> QED
      BY <3>2, <3>3, <1>1, <1>4, <1>5
  <2> QED
    BY <2>1, <2>2
<1>9. propagated' \in 0 .. Len(trail') /\ propagated' \in Nat
  BY <1>1, <1>5, <1>8, <1>4
<1>10. ASSUME NEW i \in DOMAIN trail' PROVE trail'[i].level <= DL'
  BY <1>10, <1>4, <1>6, <1>7, <1>8
<1>11. PositionsOK
  BY PositionsHold
<1>12. \A i \in 1 .. m : ~ Unassigned(K[i].lit) /\ ~ Unassigned(-K[i].lit)
                          /\ LevelOf(K[i].lit) <= j /\ LevelOf(-K[i].lit) <= j
  <2>1. SUFFICES ASSUME NEW i \in 1 .. m
                 PROVE  /\ ~ Unassigned(K[i].lit) /\ ~ Unassigned(-K[i].lit)
                        /\ LevelOf(K[i].lit) <= j /\ LevelOf(-K[i].lit) <= j
    OBVIOUS
  <2> DEFINE x == K[i].lit
  <2>2. x \in Assigned /\ LevelOf(x) = K[i].level /\ x \in Lits
    <3>1. g[i] \in 1 .. Len(trail) /\ K[i] = trail[g[i]]
      BY <1>4, <2>1 DEF n
    <3>2. \A h \in 1 .. Len(trail) :
              /\ trail[h].lit \in Assigned /\ LevelOf(trail[h].lit) = trail[h].level
      BY <1>11 DEF PositionsOK
    <3> QED
      BY <3>1, <3>2, <1>11 DEF PositionsOK
  <2>3. LevelOf(-x) = LevelOf(x) /\ -(-x) = x
    BY <1>11, <2>2, Negation DEF PositionsOK, Unassigned
  <2> HIDE DEF x
  <2>4. ~ Unassigned(x) /\ ~ Unassigned(-x) /\ LevelOf(x) <= j /\ LevelOf(-x) <= j
    BY <1>4, <2>1, <2>2, <2>3 DEF Unassigned
  <2> QED
    BY <2>4 DEF x
<1>13. \A i \in 1 .. m, e \in new : e.lit \notin {K[i].lit, -K[i].lit} /\ K[i].lit \notin {e.lit, -e.lit}
  <2>1. SUFFICES ASSUME NEW i \in 1 .. m, NEW e \in new
                 PROVE  e.lit # K[i].lit /\ e.lit # -K[i].lit /\ K[i].lit # -e.lit
    OBVIOUS
  <2>2. LevelOf(K[i].lit) \in Nat /\ LevelOf(-K[i].lit) \in Nat /\ K[i].lit \in Lits
    <3>1. K[i].lit \in Lits /\ -K[i].lit \in Lits
      BY <1>4, Negation DEF EntryType
    <3> QED
      BY <3>1, <1>11, <1>12 DEF PositionsOK
  <2>3. e.lit # K[i].lit /\ e.lit # -K[i].lit
    <3>1. ~ Unassigned(e.lit) => LevelOf(e.lit) > j
      BY <1>7, <2>1
    <3>2. /\ ~ Unassigned(K[i].lit) /\ ~ Unassigned(-K[i].lit)
          /\ LevelOf(K[i].lit) <= j /\ LevelOf(-K[i].lit) <= j
      BY <1>12, <2>1
    <3>3. \A a \in Nat : a <= j => ~ (a > j)
      BY <1>1
    <3>4. ~ (LevelOf(K[i].lit) > j) /\ ~ (LevelOf(-K[i].lit) > j)
      BY <2>2, <3>2, <3>3
    <3>5. ASSUME e.lit = K[i].lit PROVE FALSE
      BY <3>1, <3>2, <3>4, <3>5
    <3>6. ASSUME e.lit = -K[i].lit PROVE FALSE
      BY <3>1, <3>2, <3>4, <3>6
    <3> QED
      BY <3>5, <3>6
  <2> QED
    BY <1>7, <2>2, <2>3, Negation
<1>14. ASSUME NEW i \in DOMAIN trail', NEW k \in DOMAIN trail',
              trail'[i].lit \in {trail'[k].lit, -trail'[k].lit}
       PROVE  i = k
  <2>1. CASE i \in 1 .. m /\ k \in 1 .. m
    <3>1. trail[g[i]].lit \in {trail[g[k]].lit, -trail[g[k]].lit}
      BY <1>4, <1>8, <1>14, <2>1
    <3>2. g[i] \in DOMAIN trail /\ g[k] \in DOMAIN trail
      BY <1>2, <1>4, <2>1 DEF n
    <3>3. g[i] = g[k]
      BY <3>1, <3>2 DEF TrailOK
    <3> QED
      BY <3>3, <1>4, <2>1
  <2>2. CASE i \in 1 .. m /\ k = m + 1 /\ trail'[m + 1] \in new
    BY <1>8, <1>13, <1>14, <2>2
  <2>3. CASE k \in 1 .. m /\ i = m + 1 /\ trail'[m + 1] \in new
    BY <1>8, <1>13, <1>14, <2>3
  <2> QED
    BY <1>8, <2>1, <2>2, <2>3
<1>15. ASSUME NEW h \in 1 .. DL'
       PROVE  /\ dlevels'[h] <= propagated'
              /\ \A i \in 1 .. dlevels'[h] : trail'[i].level < h
              /\ \A a \in 1 .. h : dlevels'[a] <= dlevels'[h]
  <2>1. h \in 1 .. j /\ h \in 1 .. DL /\ dlevels'[h] = dlevels[h]
    BY <1>1, <1>6
  <2>2. /\ \A i \in 1 .. dlevels[h] : trail[i].level < h
        /\ \A a \in 1 .. h : dlevels[a] <= dlevels[h]
    BY <2>1 DEF TrailOK
  <2>3. dlevels'[h] <= propagated'
    BY <1>1, <1>5, <2>1
  <2>4. \A i \in 1 .. dlevels[h] : i \in 1 .. Cut(j)
    BY <1>1, <2>1
  <2>5. ASSUME NEW i \in 1 .. dlevels[h] PROVE trail'[i] = trail[i]
    <3>1. i \in 1 .. m /\ g[i] = i
      BY <2>4, <1>4
    <3> QED
      BY <3>1, <1>4, <1>8
  <2>6. \A a \in 1 .. h : a \in 1 .. j
    BY <2>1, <1>1
  <2> QED
    BY <2>1, <2>2, <2>3, <2>5, <2>6, <1>6
<1>16. ASSUME NEW i \in DOMAIN trail', trail'[i].source = NOREF, trail'[i].level > 0
       PROVE  /\ i = dlevels'[trail'[i].level] + 1
              /\ \A h \in trail'[i].level + 1 .. DL' : i <= dlevels'[h]
  <2> DEFINE v == trail'[i].level
  <2>1. i \in 1 .. m
    <3>1. SUFFICES ASSUME i = m + 1, trail'[m + 1] \in new PROVE FALSE
      BY <1>8
    <3>2. trail'[i].level = 0
      BY <1>7, <1>16, <3>1
    <3> QED
      BY <3>2, <1>16
  <2>2. trail'[i] = trail[g[i]] /\ g[i] \in DOMAIN trail /\ v <= j
    <3>1. trail'[i] = K[i]
      BY <1>8, <2>1
    <3>2. g[i] \in 1 .. n /\ K[i] = trail[g[i]] /\ K[i].level <= j
      BY <1>4, <2>1
    <3>3. DOMAIN trail = 1 .. n
      BY <1>2 DEF n
    <3> QED
      BY <3>1, <3>2, <3>3
  <2>3. v \in Nat /\ v > 0
    BY <1>4, <1>8, <1>16, <2>1 DEF EntryType
  <2>4. g[i] = dlevels[v] + 1 /\ \A h \in v + 1 .. DL : g[i] <= dlevels[h]
    BY <2>2, <1>16 DEF TrailOK
  <2> HIDE DEF v
  <2>5. g[i] <= Cut(j)
    <3>1. CASE j < DL
      <4>1. j + 1 \in v + 1 .. DL
        BY <3>1, <2>2, <2>3, <1>1
      <4> QED
        BY <4>1, <2>4, <3>1 DEF Cut
    <3>2. CASE j = DL
      BY <3>2, <1>4, <2>1, Levels DEF n
    <3> QED
      BY <3>1, <3>2, <1>1
  <2>6. g[i] = i
    <3>1. g[i] \in 1 .. Cut(j)
      BY <2>5, <1>1, <1>4, <2>1 DEF n
    <3> QED
      BY <3>1, <1>4, <2>1
  <2>7. v \in 1 .. j /\ \A h \in v + 1 .. j : h \in 1 .. j /\ h \in v + 1 .. DL
    BY <2>2, <2>3, <1>1
  <2> QED
    BY <2>4, <2>6, <2>7, <1>6 DEF v
<1> QED
  BY <1>6, <1>8, <1>9, <1>10, <1>14, <1>15, <1>16 DEF TrailOK

\* An entry of the trail is where PositionOf finds its variable.
LEMMA EntryAt ==
    ASSUME PositionsOK, NEW i \in 1 .. Len(trail), NEW l \in {trail[i].lit, -trail[i].lit}
    PROVE  /\ PositionOf(l) = i /\ LevelOf(l) = trail[i].level /\ SourceOf(l) = trail[i].source
           /\ l \in Lits /\ ~ Unassigned(l)
<1>1. /\ trail[i] \in EntryType /\ trail[i].lit \in Assigned
      /\ PositionOf(trail[i].lit) = i /\ PositionOf(-trail[i].lit) = i
  BY DEF PositionsOK
<1>2. trail[i].lit \in Lits /\ -trail[i].lit \in Lits /\ -(-trail[i].lit) = trail[i].lit
  BY <1>1, Negation DEF EntryType
<1>3. PositionOf(l) = i
  BY <1>1
<1>4. l \in Lits /\ ~ Unassigned(l)
  BY <1>1, <1>2 DEF Unassigned
<1> QED
  BY <1>3, <1>4 DEF LevelOf, SourceOf

\* The literal at a place of the trail, after a step.
LEMMA EntryAtAfter ==
    ASSUME PositionsOK', NEW i \in 1 .. Len(trail'), NEW l \in {trail'[i].lit, -trail'[i].lit}
    PROVE  /\ PositionOf(l)' = i /\ LevelOf(l)' = trail'[i].level /\ SourceOf(l)' = trail'[i].source
           /\ l \in Lits /\ ~ Unassigned(l)'
<1>1. /\ trail'[i] \in EntryType /\ trail'[i].lit \in Assigned'
      /\ \A x : x = trail'[i].lit => PositionOf(x)' = i /\ PositionOf(-x)' = i
  BY DEF PositionsOK
<1>2. trail'[i].lit \in Lits /\ -trail'[i].lit \in Lits /\ -(-trail'[i].lit) = trail'[i].lit
  BY <1>1, Negation DEF EntryType
<1>3. PositionOf(l)' = i
  <2>1. CASE l = trail'[i].lit
    BY <1>1, <2>1
  <2>2. CASE l = -trail'[i].lit
    BY <1>1, <2>2
  <2> QED
    BY <2>1, <2>2
<1>4. l \in Lits /\ ~ Unassigned(l)'
  BY <1>1, <1>2 DEF Unassigned
<1> QED
  BY <1>3, <1>4 DEF LevelOf, SourceOf

\* Backtracking to level j keeps what is of level j or lower, in its order.
LEMMA BacktrackMoves ==
    ASSUME TrailOK, NEW j \in 0 .. DL, NEW enq, NEW new, Enqueued(enq, new, j),
           Backtrack(j, enq)
    PROVE  Moves(j, new)
<1>1. PositionsOK /\ PositionsOK'
  BY PositionsHold, PositionsHoldAfter, BacktrackKeepsTrailOK
<1>2. /\ DL \in Nat /\ Len(trail) \in Nat /\ Cut(j) \in Nat /\ Cut(j) <= Len(trail)
      /\ j \in Nat /\ trail \in Seq(EntryType)
  BY Levels DEF TrailOK
<1>3. PICK K, g : K = Kept(j) /\ FromTrail(K, g, Len(trail), j)
  BY <1>2, KeptPositions
<1> DEFINE m == Len(K)
           n == Len(trail)
<1>4. /\ m \in Nat /\ m <= n /\ Cut(j) <= m
      /\ \A i \in 1 .. m :
             /\ g[i] \in 1 .. n /\ K[i] = trail[g[i]] /\ K[i] \in EntryType
             /\ K[i].level <= j
      /\ \A a, b \in 1 .. m : g[a] < g[b] => a < b
      /\ \A i \in 1 .. Cut(j) : i \in 1 .. m /\ g[i] = i
      /\ K \o enq \in Seq(EntryType)
      /\ \A i \in 1 .. m : (K \o enq)[i] = K[i]
      /\ new = {} => Len(K \o enq) = m
      /\ \A e \in new : Len(K \o enq) = m + 1 /\ (K \o enq)[m + 1] = e
      /\ new = {} \/ \E e \in EntryType : new = {e}
  <2>1. TrailLeft(K, g, enq, new, j)
    BY <1>3, BacktrackedTrail
  <2> QED
    BY <2>1 DEF TrailLeft
<1>5. \A x \in 1 .. n : x <= Cut(j) \/ trail[x].level <= j => \E h \in 1 .. m : g[h] = x
  BY <1>3 DEF FromTrail
<1>6. trail' = K \o enq
  BY <1>3 DEF Backtrack
<1> HIDE DEF m, n
<1>7. new \subseteq EntryType /\ \A e, f \in new : e = f
  BY <1>4
<1>8. /\ DOMAIN trail' = 1 .. Len(trail')
      /\ \A i \in 1 .. Len(trail') : i \in 1 .. m \/ (i = m + 1 /\ trail'[m + 1] \in new)
      /\ \A i \in 1 .. m : i \in 1 .. Len(trail') /\ trail'[i] = trail[g[i]] /\ g[i] \in 1 .. n
      /\ \A e \in new : m + 1 \in 1 .. Len(trail') /\ trail'[m + 1] = e
  <2>0. DOMAIN trail' = 1 .. Len(trail')
    BY <1>4, <1>6
  <2>1. CASE new = {}
    <3>1. Len(trail') = m
      BY <2>1, <1>4, <1>6
    <3>2. \A i \in 1 .. m : trail'[i] = trail[g[i]] /\ g[i] \in 1 .. n
      BY <1>4, <1>6
    <3> QED
      BY <2>0, <2>1, <3>1, <3>2
  <2>2. CASE new # {}
    <3>1. PICK e \in new : TRUE
      BY <2>2
    <3>2. Len(trail') = m + 1 /\ trail'[m + 1] = e /\ new = {e}
      BY <1>4, <1>6, <3>1
    <3>3. \A i \in 1 .. m + 1 : i \in 1 .. m \/ i = m + 1
      BY <1>4
    <3> QED
      BY <3>2, <3>3, <1>4, <1>6
  <2> QED
    BY <2>1, <2>2
<1> DEFINE Survives(l) == ~ Unassigned(l) /\ LevelOf(l) <= j
<1> HIDE DEF Survives
<1>9. ASSUME NEW i \in 1 .. m, NEW l \in {trail[g[i]].lit, -trail[g[i]].lit}
      PROVE  /\ l \in Lits /\ Survives(l) /\ PositionOf(l) = g[i] /\ ~ Unassigned(l)'
             /\ PositionOf(l)' = i /\ LevelOf(l)' = LevelOf(l) /\ SourceOf(l)' = SourceOf(l)
  <2>1. g[i] \in 1 .. Len(trail) /\ i \in 1 .. Len(trail') /\ trail'[i] = trail[g[i]]
    BY <1>8 DEF n
  <2>2. /\ PositionOf(l) = g[i] /\ LevelOf(l) = trail[g[i]].level
        /\ SourceOf(l) = trail[g[i]].source /\ l \in Lits /\ ~ Unassigned(l)
    BY <2>1, <1>1, <1>9, EntryAt
  <2>3. /\ PositionOf(l)' = i /\ LevelOf(l)' = trail'[i].level /\ SourceOf(l)' = trail'[i].source
        /\ ~ Unassigned(l)'
    BY <2>1, <1>1, <1>9, EntryAtAfter
  <2>4. trail[g[i]].level <= j
    BY <1>4
  <2> QED
    BY <2>1, <2>2, <2>3, <2>4 DEF Survives
<1>10. ASSUME NEW l \in Lits, Survives(l)
       PROVE  \E i \in 1 .. m : l \in {trail[g[i]].lit, -trail[g[i]].lit}
  <2> DEFINE x == PositionOf(l)
  <2>1. x \in 1 .. n /\ trail[x].lit \in {l, -l}
    BY <1>1, <1>10 DEF PositionsOK, n, Survives
  <2>2. l \in {trail[x].lit, -trail[x].lit}
    BY <2>1, Negation
  <2>3. trail[x].level <= j
    BY <1>10 DEF Survives, LevelOf
  <2> HIDE DEF x
  <2>4. PICK i \in 1 .. m : g[i] = x
    BY <1>5, <2>1, <2>3
  <2> QED
    BY <2>2, <2>4
<1>11. ASSUME NEW e \in new
       PROVE  /\ PositionOf(e.lit)' = m + 1 /\ LevelOf(e.lit)' = e.level
              /\ SourceOf(e.lit)' = e.source /\ PositionOf(-e.lit)' = m + 1
  <2>1. m + 1 \in 1 .. Len(trail') /\ trail'[m + 1] = e
    BY <1>8
  <2>2. \A l \in {e.lit, -e.lit} : PositionOf(l)' = m + 1 /\ LevelOf(l)' = e.level /\ SourceOf(l)' = e.source
    BY <2>1, <1>1, EntryAtAfter
  <2> QED
    BY <2>2
<1>12. Assigned' = {l \in Assigned : LevelOf(l) <= j} \cup {e.lit : e \in new}
  <2>1. ASSUME NEW l \in Assigned'
        PROVE  l \in {k \in Assigned : LevelOf(k) <= j} \cup {e.lit : e \in new}
    <3>1. PICK i \in 1 .. Len(trail') : l = trail'[i].lit
      BY <1>8 DEF Assigned
    <3>2. CASE i \in 1 .. m
      <4>1. l = trail[g[i]].lit /\ g[i] \in DOMAIN trail
        BY <1>2, <1>8, <3>1, <3>2 DEF n
      <4>2. Survives(l)
        BY <4>1, <3>2, <1>9
      <4> QED
        BY <4>1, <4>2 DEF Survives, Assigned
    <3>3. CASE i = m + 1 /\ trail'[m + 1] \in new
      BY <3>1, <3>3
    <3> QED
      BY <3>2, <3>3, <1>8
  <2>2. ASSUME NEW l \in Assigned, LevelOf(l) <= j PROVE l \in Assigned'
    <3>1. l \in Lits /\ Survives(l) /\ trail[PositionOf(l)].lit = l
      BY <2>2, <1>1 DEF PositionsOK, Survives, Unassigned
    <3>2. PICK i \in 1 .. m : l \in {trail[g[i]].lit, -trail[g[i]].lit}
      BY <3>1, <1>10
    <3>3. PositionOf(l) = g[i] /\ trail'[i] = trail[g[i]] /\ i \in DOMAIN trail'
      BY <3>2, <1>8, <1>9
    <3> QED
      BY <3>1, <3>3 DEF Assigned
  <2>3. ASSUME NEW e \in new PROVE e.lit \in Assigned'
    BY <1>8 DEF Assigned
  <2> QED
    BY <2>1, <2>2, <2>3
<1>13. ASSUME NEW l \in Lits, Survives(l)
       PROVE  /\ LevelOf(l)' = LevelOf(l) /\ SourceOf(l)' = SourceOf(l)
              /\ PositionOf(l)' \in 1 .. m
  BY <1>9, <1>10, <1>13
<1>14. ASSUME NEW k \in Lits, NEW l \in Lits, Survives(k), Survives(l),
              PositionOf(k) < PositionOf(l)
       PROVE  PositionOf(k)' < PositionOf(l)'
  <2>1. PICK a \in 1 .. m : k \in {trail[g[a]].lit, -trail[g[a]].lit}
    BY <1>10, <1>14
  <2>2. PICK b \in 1 .. m : l \in {trail[g[b]].lit, -trail[g[b]].lit}
    BY <1>10, <1>14
  <2>3. PositionOf(k) = g[a] /\ PositionOf(k)' = a
    BY <1>9, <2>1
  <2>4. PositionOf(l) = g[b] /\ PositionOf(l)' = b
    BY <1>9, <2>2
  <2> QED
    BY <2>3, <2>4, <1>4, <1>14
<1>15. ASSUME NEW e \in new
       PROVE  /\ Cut(j) < PositionOf(e.lit)'
              /\ \A k \in Lits : Survives(k) => PositionOf(k)' < PositionOf(e.lit)'
  BY <1>2, <1>4, <1>11, <1>13
<1>16. ASSUME NEW l \in Lits, ~ Unassigned(l)', PositionOf(l)' <= Cut(j)
       PROVE  Survives(l) /\ PositionOf(l) = PositionOf(l)'
  <2> DEFINE i == PositionOf(l)'
  <2>1. i \in 1 .. Len(trail') /\ trail'[i].lit \in {l, -l}
    BY <1>1, <1>16 DEF PositionsOK
  <2>2. i <= Cut(j)
    BY <1>16
  <2> HIDE DEF i
  <2>3. i \in 1 .. Cut(j)
    BY <2>1, <2>2, <1>2
  <2>4. i \in 1 .. m /\ g[i] = i /\ trail'[i] = trail[g[i]]
    BY <2>3, <1>4, <1>8
  <2>5. l \in {trail[g[i]].lit, -trail[g[i]].lit}
    BY <2>1, <2>4, Negation, <1>16
  <2> QED
    BY <2>4, <2>5, <1>9 DEF i
<1> QED
  BY <1>7, <1>11, <1>12, <1>13, <1>14, <1>15, <1>16 DEF Moves, Survives

-----------------------------------------------------------------------------
(***************************************************************************)
(* The parts of the invariant.                                             *)
(***************************************************************************)
IsPair(s) == \E a, b : a # b /\ s = {a, b}

\* The clauses that are left watch two of their literals.
ClausesOK ==
    /\ clauses \in Seq(ClauseType)
    /\ \A r \in Live : clauses[r].watched \subseteq clauses[r].lits /\ IsPair(clauses[r].watched)

WatchType == [lit : Lits, ref : Nat, imp : Lits, binary : BOOLEAN]

\* Every watch is of its clause, and knows its size; every watched literal has one watch.
WatchesOK ==
    /\ \A w \in watches :
           /\ w \in WatchType /\ w.ref \in DOMAIN clauses
           /\ w.lit \in clauses[w.ref].watched /\ w.lit \in clauses[w.ref].lits
           /\ w.imp \in clauses[w.ref].lits \ {w.lit}
           /\ w.binary <=> Cardinality(clauses[w.ref].lits) = 2
    /\ \A v, w \in watches : v.ref = w.ref /\ v.lit = w.lit => v = w
    /\ \A r \in Live : \A l \in clauses[r].watched : \E w \in watches : w.ref = r /\ w.lit = l

\* l is the only literal of clause r that is not false, and the last.
ReasonFor(l, r) ==
    /\ r \in Live /\ l \in clauses[r].watched
    /\ \A k \in clauses[r].lits \ {l} :
           IsFalse(k) /\ PositionOf(k) < PositionOf(l) /\ LevelOf(k) <= LevelOf(l)

Analyzing == pc \in {"analyze", "uip"}

Pivots == IF pc = "analyze" THEN clauses[conflict].lits ELSE uip.seen

\* l comes after all that the analysis will still look at, and will be undone:
\* it is past such literals that a reason may be strengthened.
Spent(l) ==
    /\ Analyzing /\ LevelOf(l) = DL
    /\ \A k \in Pivots : PositionOf(k) < PositionOf(l)
    /\ \E k \in Pivots : LevelOf(k) = DL

HasReason(l) == l \in Assigned /\ SourceOf(l) # NOREF /\ LevelOf(l) > 0

ReasonsOK == \A l \in Lits : HasReason(l) => ReasonFor(l, SourceOf(l)) \/ Spent(l)

AnalysisOK ==
    /\ Analyzing => conflict \in Live
    /\ pc = "analyze" => \A l \in clauses[conflict].lits : IsFalse(l)
    /\ uip.seen \subseteq Lits /\ uip.resolved \subseteq uip.seen
    /\ pc = "uip" =>
           /\ \A l \in uip.seen : IsFalse(l) /\ LevelOf(l) > 0
           /\ \A l \in uip.resolved, k \in Tracked : PositionOf(k) < PositionOf(l)
           /\ uip.resolved = {} => uip.seen = NonRoot(clauses[conflict].lits)

VisitingOK ==
    /\ visiting \subseteq watches
    /\ visiting # {} => Propagating /\ propagated > 0 /\ \A j \in 1 .. DL : dlevels[j] < propagated
    /\ \A w \in visiting : w.lit = -trail[propagated].lit

RestOK ==
    /\ problem \in Problems /\ opts \in Options
    /\ conflict \in {NOREF} \cup DOMAIN clauses
    /\ \A l \in Lits : l \in Assigned => SourceOf(l) \in {NOREF} \cup DOMAIN clauses
    /\ rested \in BOOLEAN /\ reduced \in BOOLEAN
    /\ iconflict \subseteq Lits
    /\ pc \in {"idle", "root", "search", "reduce", "analyze", "uip"}
    /\ calls \in 0 .. Len(problem.calls) /\ assumptions \in Seq(Lits)
    /\ cnfstate \in {"unsolved", "sat", "unsat"}
    /\ Propagating => conflict = NOREF
    /\ pc = "reduce" => problem.reduce

Roots == {l \in Assigned : LevelOf(l) = 0}

RootSatisfied(r) == clauses[r].lits \cap Roots # {}

ToVisit(l, r) == \E w \in visiting : w.ref = r /\ w.lit = l

\* A watched literal that is false at level 0 belongs to a satisfied clause, once
\* it has been propagated, so that shrink never takes a watched literal away.
RootsWatched ==
    /\ DL > 0 => \A r \in Live : \A l \in clauses[r].watched :
           IsFalse(l) /\ PositionOf(l) <= dlevels[1] => RootSatisfied(r)
    /\ DL = 0 /\ conflict = NOREF => \A r \in Live : \A l \in clauses[r].watched :
           IsFalse(l) /\ PositionOf(l) <= propagated /\ ~ ToVisit(l, r) => RootSatisfied(r)
    /\ ~ opts.chrono => ~ HasLateRoot
    /\ pc = "reduce" => DL = 0 \/ (PropagationDone /\ ~ HasLateRoot)

Satisfies(m, lits) == lits \cap m # {}

\* Nothing wrong is in the database, not even in what was deleted.
Sound ==
    \A m \in Models : Roots \subseteq m /\ \A r \in DOMAIN clauses : Satisfies(m, clauses[r].lits)

\* Nothing needed is missing from it.
Complete ==
    \A m \in Assignments :
        /\ Roots \subseteq m
        /\ \A r \in Live : ~ clauses[r].learnt => Satisfies(m, clauses[r].lits)
        => m \in Models

UipSound == pc = "uip" => \A m \in Models : Satisfies(m, Resolvent)

Core ==
    /\ TrailOK /\ ClausesOK /\ WatchesOK /\ ReasonsOK /\ AnalysisOK /\ VisitingOK /\ RestOK
    /\ Sound /\ Complete /\ UipSound

\* There are finitely many literals.
LEMMA FiniteLits == IsFiniteSet(Lits) /\ \A s \in SUBSET Lits : IsFiniteSet(s) /\ Cardinality(s) \in Nat
<1>1. IsFiniteSet(-NumVars .. NumVars)
  BY NumVarsAssumption, FS_Interval
<1>2. Lits \in SUBSET (-NumVars .. NumVars)
  BY NumVarsAssumption DEF Lits, Vars
<1>3. IsFiniteSet(Lits)
  BY <1>1, <1>2, FS_Subset
<1> QED
  BY <1>3, FS_Subset, FS_CardinalityType

\* A set of literals has two elements if and only if it is a pair.
LEMMA Pairs ==
    ASSUME NEW s \in SUBSET Lits
    PROVE  Cardinality(s) = 2 <=> IsPair(s)
<1>1. IsFiniteSet(s) /\ Cardinality(s) \in Nat
  BY FiniteLits
<1>2. ASSUME Cardinality(s) = 2 PROVE IsPair(s)
  <2>1. PICK a : a \in s
    BY <1>1, <1>2, FS_EmptySet
  <2>2. IsFiniteSet(s \ {a}) /\ Cardinality(s \ {a}) = 1
    BY <1>1, <1>2, <2>1, FS_RemoveElement
  <2>3. PICK b : s \ {a} = {b}
    BY <2>2, FS_Singleton
  <2>4. a # b /\ s = {a, b}
    BY <2>1, <2>3
  <2> QED
    BY <2>4 DEF IsPair
<1>3. ASSUME NEW a, NEW b, a # b, s = {a, b} PROVE Cardinality(s) = 2
  <2>1. IsFiniteSet({a}) /\ Cardinality({a}) = 1
    BY FS_Singleton
  <2>2. Cardinality({a} \cup {b}) = 2
    BY <1>3, <2>1, FS_AddElement
  <2>3. s = {a} \cup {b}
    BY <1>3
  <2> QED
    BY <2>2, <2>3
<1> QED
  BY <1>2, <1>3 DEF IsPair

\* A model is an assignment, which has one of a literal and its negation.
LEMMA ModelFacts ==
    \A m \in Models : m \in Assignments /\ \A l \in Lits : -l \in m <=> l \notin m
<1>1. \A m \in Models : m \in Assignments
  BY DEF Models
<1>2. ASSUME NEW m \in Assignments, NEW l \in Lits PROVE -l \in m <=> l \notin m
  BY NumVarsAssumption, <1>2 DEF Assignments, Lits, Vars
<1> QED
  BY <1>1, <1>2

\* So is every assignment.
LEMMA AssignmentFacts == \A m \in Assignments, l \in Lits : -l \in m <=> l \notin m
BY NumVarsAssumption DEF Assignments, Lits, Vars

\* A literal that is false at level 0 is false in all models.
LEMMA RootFalseInModels ==
    ASSUME PositionsOK, NEW m \in Assignments, Roots \subseteq m,
           NEW l \in Lits, IsFalse(l), LevelOf(l) = 0
    PROVE  l \notin m
<1>1. -l \in Lits /\ -(-l) = l /\ ~ Unassigned(l)
  BY Negation DEF Unassigned, IsFalse
<1>2. -l \in Assigned /\ LevelOf(-l) = 0
  BY <1>1 DEF IsFalse, PositionsOK
<1> QED
  BY <1>1, <1>2, AssignmentFacts DEF Roots

-----------------------------------------------------------------------------
(***************************************************************************)
(* What each part needs when the trail moves.                              *)
(***************************************************************************)
\* What keeps its level keeps its value, level and source, and nothing else is
\* assigned but what is new.
LEMMA MovesKeeps ==
    ASSUME PositionsOK, PositionsOK', NEW j, NEW new, Moves(j, new)
    PROVE  /\ \A l \in Lits : ~ Unassigned(l) /\ LevelOf(l) <= j =>
                  /\ ~ Unassigned(l)' /\ LevelOf(l)' = LevelOf(l) /\ SourceOf(l)' = SourceOf(l)
                  /\ IsTrue(l) => IsTrue(l)'
                  /\ IsFalse(l) => IsFalse(l)'
           /\ \A l \in Lits : IsTrue(l)' =>
                  (IsTrue(l) /\ LevelOf(l) <= j) \/ \E e \in new : l = e.lit
<1>1. Assigned' = {l \in Assigned : LevelOf(l) <= j} \cup {e.lit : e \in new}
  BY DEF Moves
<1>2. ASSUME NEW l \in Lits, ~ Unassigned(l), LevelOf(l) <= j
      PROVE  /\ LevelOf(l)' = LevelOf(l) /\ SourceOf(l)' = SourceOf(l)
             /\ l \in Assigned => l \in Assigned'
             /\ -l \in Assigned => -l \in Assigned'
  <2>1. LevelOf(-l) = LevelOf(l)
    BY <1>2 DEF PositionsOK
  <2> QED
    BY <1>1, <1>2, <2>1 DEF Moves
<1> QED
  BY <1>1, <1>2 DEF Unassigned, IsTrue, IsFalse

\* The literals of level 0 stay; a new entry of level 0 joins them.
LEMMA RootsMove ==
    ASSUME TrailOK, PositionsOK', NEW j \in 0 .. DL, NEW new, Moves(j, new)
    PROVE  Roots' = Roots \cup {e.lit : e \in {f \in new : f.level = 0}}
<1>1. PositionsOK /\ DL \in Nat
  BY PositionsHold, Levels
<1>2. \A l \in Roots : l \in Lits /\ ~ Unassigned(l) /\ LevelOf(l) <= j
  BY <1>1 DEF Roots, PositionsOK, Unassigned
<1>3. \A l \in Assigned' : l \in Lits
  BY DEF PositionsOK
<1>4. \A e \in new : LevelOf(e.lit)' = e.level /\ e.lit \in Assigned'
  BY DEF Moves
<1>5. ASSUME NEW l \in Roots PROVE l \in Roots'
  BY <1>1, <1>2, <1>5, MovesKeeps DEF Roots, IsTrue
<1>6. ASSUME NEW l \in Roots', ~ \E e \in new : l = e.lit PROVE l \in Roots
  <2>1. l \in Assigned' /\ LevelOf(l)' = 0
    BY <1>6 DEF Roots
  <2>2. l \in Lits /\ l \in Assigned /\ LevelOf(l) <= j
    BY <2>1, <1>1, <1>3, <1>6, MovesKeeps DEF IsTrue
  <2>3. LevelOf(l) = 0
    BY <2>1, <2>2, <1>1, MovesKeeps DEF Unassigned
  <2> QED
    BY <2>2, <2>3 DEF Roots
<1>7. ASSUME NEW e \in new, e.lit \in Roots' PROVE e.level = 0
  BY <1>4, <1>7 DEF Roots
<1>8. ASSUME NEW e \in new, e.level = 0 PROVE e.lit \in Roots'
  BY <1>4, <1>8 DEF Roots
<1> QED
  BY <1>5, <1>6, <1>7, <1>8

\* A step keeps the reason of a literal when it leaves the clause there.
KeepsReason(l) ==
    LET r == SourceOf(l) IN
    r \in Live' /\ clauses'[r].lits \subseteq clauses[r].lits /\ l \in clauses'[r].watched

\* When the trail moves, reasons hold if the clauses that are reasons of what stays
\* are kept, and the new entries have theirs.
LEMMA ReasonsMove ==
    ASSUME TrailOK, TrailOK', NEW j \in 0 .. DL, NEW new, Moves(j, new), ClausesOK,
           \A l \in Lits : HasReason(l) /\ LevelOf(l) <= j =>
               (ReasonFor(l, SourceOf(l)) /\ KeepsReason(l)) \/ Spent(l)',
           \A e \in new : e.source # NOREF /\ e.level > 0 => ReasonFor(e.lit, e.source)'
    PROVE  ReasonsOK'
<1>1. PositionsOK /\ PositionsOK' /\ DL \in Nat
  BY PositionsHold, PositionsHoldAfter, Levels
<1>2. SUFFICES ASSUME NEW l \in Lits, HasReason(l)', ~ Spent(l)' PROVE ReasonFor(l, SourceOf(l))'
  BY DEF ReasonsOK
<1>3. CASE \E e \in new : l = e.lit
  <2>1. PICK e \in new : l = e.lit
    BY <1>3
  <2>2. LevelOf(l)' = e.level /\ SourceOf(l)' = e.source
    BY <2>1 DEF Moves
  <2> QED
    BY <1>2, <2>1, <2>2 DEF HasReason
<1>4. CASE ~ \E e \in new : l = e.lit
  <2>1. l \in Assigned /\ LevelOf(l) <= j /\ ~ Unassigned(l)
    BY <1>1, <1>2, <1>4, MovesKeeps DEF HasReason, IsTrue, Unassigned
  <2>2. LevelOf(l)' = LevelOf(l) /\ SourceOf(l)' = SourceOf(l)
    BY <2>1, <1>1, MovesKeeps
  <2>3. HasReason(l)
    BY <1>2, <2>1, <2>2 DEF HasReason
  <2>a. PICK r : r = SourceOf(l)
    OBVIOUS
  <2>4. ReasonFor(l, r) /\ KeepsReason(l)
    BY <1>2, <2>1, <2>3, <2>a
  <2>5. r \in Live' /\ clauses'[r].lits \subseteq clauses[r].lits /\ l \in clauses'[r].watched
    BY <2>4, <2>a DEF KeepsReason
  <2>6. \A k \in clauses[r].lits : k \in Lits
    <3>1. r \in DOMAIN clauses
      BY <2>4 DEF ReasonFor, Live
    <3>2. clauses[r] \in ClauseType
      BY <3>1 DEF ClausesOK
    <3> QED
      BY <3>2 DEF ClauseType
  <2>7. LevelOf(l) \in Nat /\ j \in Nat
    BY <1>1, <2>1 DEF PositionsOK
  <2>8. ASSUME NEW k \in clauses'[r].lits \ {l}
        PROVE  IsFalse(k)' /\ PositionOf(k)' < PositionOf(l)' /\ LevelOf(k)' <= LevelOf(l)'
    <3>1. k \in Lits /\ IsFalse(k) /\ PositionOf(k) < PositionOf(l) /\ LevelOf(k) <= LevelOf(l)
      BY <2>4, <2>5, <2>6, <2>8 DEF ReasonFor
    <3>2. ~ Unassigned(k) /\ LevelOf(k) \in Nat
      BY <1>1, <3>1 DEF Unassigned, IsFalse, PositionsOK
    <3>3. LevelOf(k) <= j
      BY <2>1, <2>7, <3>1, <3>2
    <3>4. PositionOf(k)' < PositionOf(l)'
      BY <2>1, <3>1, <3>2, <3>3 DEF Moves
    <3>5. IsFalse(k)' /\ LevelOf(k)' = LevelOf(k)
      BY <1>1, <3>1, <3>2, <3>3, MovesKeeps
    <3> QED
      BY <2>2, <3>1, <3>4, <3>5
  <2>9. ReasonFor(l, r)'
    BY <2>5, <2>8 DEF ReasonFor
  <2> QED
    BY <2>2, <2>9, <2>a
<1> QED
  BY <1>3, <1>4

\* A literal whose clause is false otherwise has it for a reason.
LEMMA NewReason ==
    ASSUME TrailOK, TrailOK', NEW j \in 0 .. DL, NEW new, Moves(j, new),
           NEW e \in new, NEW r, r \in Live', e.lit \in clauses'[r].watched,
           \A k \in clauses'[r].lits \ {e.lit} :
               k \in Lits /\ IsFalse(k) /\ LevelOf(k) <= j /\ LevelOf(k) <= e.level
    PROVE  ReasonFor(e.lit, r)'
<1>1. PositionsOK /\ PositionsOK'
  BY PositionsHold, PositionsHoldAfter
<1>2. ASSUME NEW k \in clauses'[r].lits \ {e.lit}
      PROVE  IsFalse(k)' /\ PositionOf(k)' < PositionOf(e.lit)' /\ LevelOf(k)' <= LevelOf(e.lit)'
  <2>1. k \in Lits /\ ~ Unassigned(k) /\ LevelOf(k) <= j
    BY <1>2 DEF Unassigned, IsFalse
  <2>2. IsFalse(k)' /\ LevelOf(k)' = LevelOf(k)
    BY <1>1, <1>2, <2>1, MovesKeeps
  <2> QED
    BY <1>2, <2>1, <2>2 DEF Moves
<1>3. (r \in Live)' /\ (e.lit \in clauses[r].watched)'
  OBVIOUS
<1> QED
  BY <1>2, <1>3 DEF ReasonFor

\* When the trail moves, the database stays sound if what is new at level 0 is.
LEMMA SoundMoves ==
    ASSUME TrailOK, PositionsOK', NEW j \in 0 .. DL, NEW new, Moves(j, new), problem' = problem,
           Sound, \A e \in new : e.level = 0 => \A m \in Models : e.lit \in m,
           \A r \in DOMAIN clauses' : \A m \in Models : Satisfies(m, clauses'[r].lits)
    PROVE  Sound'
<1>1. Models' = Models
  BY DEF Models
<1>2. Roots' = Roots \cup {e.lit : e \in {f \in new : f.level = 0}}
  BY RootsMove
<1>3. ASSUME NEW m \in Models PROVE Roots' \subseteq m
  BY <1>2 DEF Sound
<1> QED
  BY <1>1, <1>3 DEF Sound, Satisfies

\* When the trail moves, the database stays complete if what is removed is implied.
LEMMA CompleteMoves ==
    ASSUME TrailOK, PositionsOK', NEW j \in 0 .. DL, NEW new, Moves(j, new), problem' = problem,
           Complete,
           \A m \in Assignments :
               /\ Roots \subseteq m
               /\ \A r \in Live' : ~ clauses'[r].learnt => Satisfies(m, clauses'[r].lits)
               => \A r \in Live : ~ clauses[r].learnt => Satisfies(m, clauses[r].lits)
    PROVE  Complete'
<1>1. Models' = Models
  BY DEF Models
<1>2. Roots \subseteq Roots'
  BY RootsMove
<1>3. ASSUME NEW m \in Assignments, Roots' \subseteq m,
             \A r \in Live' : ~ clauses'[r].learnt => Satisfies(m, clauses'[r].lits)
      PROVE  m \in Models
  <2>1. Roots \subseteq m
    BY <1>2, <1>3
  <2>2. \A r \in Live : ~ clauses[r].learnt => Satisfies(m, clauses[r].lits)
    BY <1>3, <2>1
  <2> QED
    BY <2>1, <2>2 DEF Complete
<1> QED
  BY <1>1, <1>3 DEF Complete, Satisfies

-----------------------------------------------------------------------------
(***************************************************************************)
(* The steps that leave the clauses alone.                                 *)
(***************************************************************************)
\* When nothing is being analyzed, every reason is one.
LEMMA ReasonsAtRest ==
    ASSUME ReasonsOK, ~ Analyzing
    PROVE  \A l \in Lits : HasReason(l) => ReasonFor(l, SourceOf(l))
BY DEF ReasonsOK, Spent

\* A step that leaves the clauses alone while nothing is being analyzed.
LEMMA SameClauses ==
    ASSUME Core, TrailOK', NEW j \in 0 .. DL, NEW new, Moves(j, new),
           problem' = problem, clauses' = clauses, ~ Analyzing,
           \A e \in new : e.source \in {NOREF} \cup DOMAIN clauses,
           \A e \in new : e.level = 0 => \A m \in Models : e.lit \in m,
           \A e \in new : e.source # NOREF /\ e.level > 0 => ReasonFor(e.lit, e.source)'
    PROVE  /\ ClausesOK' /\ ReasonsOK' /\ Sound' /\ Complete'
           /\ \A l \in Lits : l \in Assigned' => SourceOf(l)' \in {NOREF} \cup DOMAIN clauses'
<1>1. PositionsOK /\ PositionsOK' /\ TrailOK
  BY PositionsHold, PositionsHoldAfter DEF Core
<1>2. Live' = Live
  BY DEF Live
<1>3. ClausesOK'
  BY <1>2 DEF Core, ClausesOK
<1>4. ReasonsOK'
  <2>1. \A l \in Lits : HasReason(l) => ReasonFor(l, SourceOf(l))
    BY ReasonsAtRest DEF Core
  <2>2. \A l \in Lits : HasReason(l) => KeepsReason(l)
    BY <2>1, <1>2 DEF KeepsReason, ReasonFor
  <2>3. ClausesOK
    BY DEF Core
  <2> QED
    BY <1>1, <2>1, <2>2, <2>3, ReasonsMove
<1>5. Sound'
  <2>1. Sound
    BY DEF Core
  <2>2. \A r \in DOMAIN clauses' : \A m \in Models : Satisfies(m, clauses'[r].lits)
    BY <2>1 DEF Sound
  <2> QED
    BY <1>1, <2>1, <2>2, SoundMoves
<1>6. Complete'
  <2>1. \A m \in Assignments :
               /\ Roots \subseteq m
               /\ \A r \in Live' : ~ clauses'[r].learnt => Satisfies(m, clauses'[r].lits)
               => \A r \in Live : ~ clauses[r].learnt => Satisfies(m, clauses[r].lits)
    BY <1>2
  <2>2. Complete
    BY DEF Core
  <2> QED
    BY <1>1, <2>1, <2>2, CompleteMoves
<1>7. ASSUME NEW l \in Lits, l \in Assigned'
      PROVE  SourceOf(l)' \in {NOREF} \cup DOMAIN clauses'
  <2>1. CASE \E e \in new : l = e.lit
    BY <2>1 DEF Moves
  <2>2. CASE ~ \E e \in new : l = e.lit
    <3>1. l \in Assigned /\ LevelOf(l) <= j
      BY <1>1, <1>7, <2>2, MovesKeeps DEF IsTrue
    <3>2. SourceOf(l)' = SourceOf(l)
      BY <3>1, <1>1, MovesKeeps DEF Unassigned
    <3> QED
      BY <3>1, <3>2 DEF Core, RestOK
  <2> QED
    BY <2>1, <2>2
<1> QED
  BY <1>3, <1>4, <1>5, <1>6, <1>7

\* A step that only moves the trail, or nothing.
LEMMA TrailStep ==
    ASSUME Core, TrailOK', NEW j \in 0 .. DL, NEW new, Moves(j, new),
           UNCHANGED <<problem, opts, clauses, watches, uip>>,
           ~ Analyzing, ~ Analyzing',
           \A e \in new : e.source = NOREF /\ e.level > 0
    PROVE  /\ ClausesOK' /\ WatchesOK' /\ ReasonsOK' /\ AnalysisOK'
           /\ visiting' = {} => VisitingOK'
           /\ Sound' /\ Complete' /\ UipSound'
           /\ \A l \in Lits : l \in Assigned' => SourceOf(l)' \in {NOREF} \cup DOMAIN clauses'
<1>1. /\ ClausesOK' /\ ReasonsOK' /\ Sound' /\ Complete'
      /\ \A l \in Lits : l \in Assigned' => SourceOf(l)' \in {NOREF} \cup DOMAIN clauses'
  <2>1. /\ \A e \in new : e.source \in {NOREF} \cup DOMAIN clauses
        /\ \A e \in new : e.level = 0 => \A m \in Models : e.lit \in m
        /\ \A e \in new : e.source # NOREF /\ e.level > 0 => ReasonFor(e.lit, e.source)'
    OBVIOUS
  <2> QED
    BY <2>1, SameClauses
<1>2. WatchesOK'
  <2>1. Live' = Live /\ clauses' = clauses /\ watches' = watches
    BY DEF Live
  <2> QED
    BY <2>1 DEF Core, WatchesOK
<1>3. AnalysisOK'
  BY DEF Core, AnalysisOK, Analyzing
<1>4. visiting' = {} => VisitingOK'
  BY DEF VisitingOK
<1>5. UipSound'
  BY DEF UipSound, Analyzing
<1> QED
  BY <1>1, <1>2, <1>3, <1>4, <1>5

\* Watches are left to visit only while propagating.
LEMMA IdleNotVisiting ==
    ASSUME Core, ~ Propagating
    PROVE  visiting = {}
BY DEF Core, VisitingOK

\* Calling isolve keeps the invariant.
LEMMA CallKeeps == Core /\ Call => Core'
<1>1. SUFFICES ASSUME Core, Call PROVE Core'
  OBVIOUS
<1>2. TrailOK /\ 0 \in 0 .. DL
  BY <1>1, Levels DEF Core
<1>3. Backtrack(0, <<>>) /\ Enqueued(<<>>, {}, 0)
  BY <1>1 DEF Call, Enqueued
<1>4. TrailOK' /\ Moves(0, {})
  BY <1>2, <1>3, BacktrackKeepsTrailOK, BacktrackMoves
<1>5. /\ pc = "idle" /\ pc' = "root" /\ UNCHANGED <<problem, opts, clauses, watches, uip>>
      /\ visiting' = visiting
  BY <1>1 DEF Call
<1>6. visiting = {}
  BY <1>1, <1>5, IdleNotVisiting DEF Propagating
<1>7. /\ ClausesOK' /\ WatchesOK' /\ ReasonsOK' /\ AnalysisOK' /\ VisitingOK'
      /\ Sound' /\ Complete' /\ UipSound'
      /\ \A l \in Lits : l \in Assigned' => SourceOf(l)' \in {NOREF} \cup DOMAIN clauses'
  <2>1. ~ Analyzing /\ ~ Analyzing'
    BY <1>5 DEF Analyzing
  <2> QED
    BY <1>1, <1>2, <1>4, <1>5, <1>6, <2>1, TrailStep
<1>8. RestOK'
  <2>1. calls + 1 \in 0 .. Len(problem.calls) /\ calls + 1 \in DOMAIN problem.calls
        /\ problem.calls[calls + 1] \in Seq(Lits)
    <3>1. problem.calls \in Seq(Seq(Lits)) /\ calls \in 0 .. Len(problem.calls)
      BY <1>1, ProblemsAssumption DEF Core, RestOK
    <3>2. calls < Len(problem.calls)
      BY <1>1 DEF Call
    <3>3. calls + 1 \in 1 .. Len(problem.calls)
      BY <3>1, <3>2
    <3> QED
      BY <3>1, <3>3
  <2> QED
    BY <1>1, <1>5, <1>7, <2>1 DEF Core, RestOK, Call, limits, Propagating
<1> QED
  BY <1>4, <1>7, <1>8 DEF Core

\* Ending the propagation at the root keeps the invariant.
LEMMA RootDoneKeeps == Core /\ RootDone => Core'
<1>1. SUFFICES ASSUME Core, RootDone PROVE Core'
  OBVIOUS
<1>2. TrailOK /\ DL \in 0 .. DL
  BY <1>1, Levels DEF Core
<1>3. /\ pc = "root" /\ pc' = "search" /\ visiting = {} /\ visiting' = {}
      /\ UNCHANGED <<problem, opts, clauses, watches, trail, propagated, dlevels, uip, conflict,
                     rested, reduced, calls, assumptions, iconflict, cnfstate>>
  BY <1>1 DEF RootDone, PropagationDone, search, limits, call
<1>4. TrailOK' /\ Moves(DL, {})
  BY <1>2, <1>3, UnchangedMoves DEF TrailOK, DL
<1>5. ~ Analyzing /\ ~ Analyzing'
  BY <1>3 DEF Analyzing
<1>6. /\ ClausesOK' /\ WatchesOK' /\ ReasonsOK' /\ AnalysisOK' /\ VisitingOK'
      /\ Sound' /\ Complete' /\ UipSound'
      /\ \A l \in Lits : l \in Assigned' => SourceOf(l)' \in {NOREF} \cup DOMAIN clauses'
  BY <1>1, <1>2, <1>3, <1>4, <1>5, TrailStep
<1>7. RestOK'
  BY <1>1, <1>3, <1>6 DEF Core, RestOK, Propagating
<1> QED
  BY <1>4, <1>6, <1>7 DEF Core

\* Finding that all is assigned keeps the invariant.
LEMMA AllAssignedKeeps == Core /\ AllAssigned => Core'
<1>1. SUFFICES ASSUME Core, AllAssigned PROVE Core'
  OBVIOUS
<1>2. TrailOK /\ DL \in 0 .. DL
  BY <1>1, Levels DEF Core
<1>3. /\ pc = "search" /\ pc' = "idle" /\ visiting = {} /\ visiting' = {} /\ cnfstate' = "sat"
      /\ UNCHANGED <<problem, opts, clauses, watches, trail, propagated, dlevels, uip, conflict,
                     rested, reduced, calls, assumptions, iconflict>>
  BY <1>1 DEF AllAssigned, Quiescent, PropagationDone, search, limits, Answer
<1>4. TrailOK' /\ Moves(DL, {})
  BY <1>2, <1>3, UnchangedMoves DEF TrailOK, DL
<1>5. ~ Analyzing /\ ~ Analyzing'
  BY <1>3 DEF Analyzing
<1>6. /\ ClausesOK' /\ WatchesOK' /\ ReasonsOK' /\ AnalysisOK' /\ VisitingOK'
      /\ Sound' /\ Complete' /\ UipSound'
      /\ \A l \in Lits : l \in Assigned' => SourceOf(l)' \in {NOREF} \cup DOMAIN clauses'
  BY <1>1, <1>2, <1>3, <1>4, <1>5, TrailStep
<1>7. RestOK'
  BY <1>1, <1>3, <1>6 DEF Core, RestOK, Propagating
<1> QED
  BY <1>4, <1>6, <1>7 DEF Core

\* Beginning to reduce keeps the invariant, although it may backtrack.
LEMMA ReduceKeeps == Core /\ Reduce => Core'
<1>1. SUFFICES ASSUME Core, Reduce PROVE Core'
  OBVIOUS
<1>2. TrailOK /\ 0 \in 0 .. DL /\ DL \in 0 .. DL
  BY <1>1, Levels DEF Core
<1>3. /\ pc = "search" /\ pc' = "reduce" /\ visiting = {} /\ visiting' = {} /\ reduced' = TRUE
      /\ UNCHANGED <<problem, opts, clauses, watches, uip, conflict,
                     rested, calls, assumptions, iconflict, cnfstate>>
      /\ problem.reduce
      /\ Backtrack(0, <<>>) \/ UNCHANGED <<trail, propagated, dlevels>>
  BY <1>1 DEF Reduce, Quiescent, PropagationDone, call
<1>4. TrailOK' /\ (Moves(0, {}) \/ Moves(DL, {}))
  <2>1. CASE Backtrack(0, <<>>)
    <3>1. Enqueued(<<>>, {}, 0)
      BY DEF Enqueued
    <3> QED
      BY <2>1, <3>1, <1>2, BacktrackKeepsTrailOK, BacktrackMoves
  <2>2. CASE UNCHANGED <<trail, propagated, dlevels>>
    BY <1>2, <2>2, UnchangedMoves DEF TrailOK, DL
  <2> QED
    BY <1>3, <2>1, <2>2
<1>5. ~ Analyzing /\ ~ Analyzing'
  BY <1>3 DEF Analyzing
<1>6. /\ ClausesOK' /\ WatchesOK' /\ ReasonsOK' /\ AnalysisOK' /\ VisitingOK'
      /\ Sound' /\ Complete' /\ UipSound'
      /\ \A l \in Lits : l \in Assigned' => SourceOf(l)' \in {NOREF} \cup DOMAIN clauses'
  BY <1>1, <1>2, <1>3, <1>4, <1>5, TrailStep
<1>7. RestOK'
  BY <1>1, <1>3, <1>6 DEF Core, RestOK, Propagating
<1> QED
  BY <1>4, <1>6, <1>7 DEF Core

\* A restart keeps the invariant.
LEMMA RestartKeeps == Core /\ Restart => Core'
<1>1. SUFFICES ASSUME Core, Restart PROVE Core'
  OBVIOUS
<1>2. TrailOK
  BY <1>1 DEF Core
<1>3. /\ pc = "search" /\ pc' = "search" /\ visiting = {} /\ visiting' = {} /\ rested' = TRUE
      /\ UNCHANGED <<problem, opts, clauses, watches, uip, conflict,
                     reduced, calls, assumptions, iconflict, cnfstate>>
      /\ \E level \in 0 .. DL : Backtrack(level, <<>>)
  BY <1>1 DEF Restart, Quiescent, PropagationDone, call
<1>4. PICK j \in 0 .. DL : Backtrack(j, <<>>)
  BY <1>3
<1>5. TrailOK' /\ Moves(j, {})
  <2>1. Enqueued(<<>>, {}, j)
    BY DEF Enqueued
  <2> QED
    BY <1>2, <1>4, <2>1, BacktrackKeepsTrailOK, BacktrackMoves
<1>6. ~ Analyzing /\ ~ Analyzing'
  BY <1>3 DEF Analyzing
<1>7. /\ ClausesOK' /\ WatchesOK' /\ ReasonsOK' /\ AnalysisOK' /\ VisitingOK'
      /\ Sound' /\ Complete' /\ UipSound'
      /\ \A l \in Lits : l \in Assigned' => SourceOf(l)' \in {NOREF} \cup DOMAIN clauses'
  BY <1>1, <1>3, <1>5, <1>6, TrailStep
<1>8. RestOK'
  BY <1>1, <1>3, <1>7 DEF Core, RestOK, Propagating
<1> QED
  BY <1>5, <1>7, <1>8 DEF Core

\* The trail invariant when levels are added, with or without a decision.
LEMMA LevelsAdded ==
    ASSUME TrailOK, NEW n \in Nat, propagated = Len(trail), propagated' = propagated,
           dlevels' = IncDL(n),
           \/ trail' = trail
           \/ \E l \in Lits : /\ Unassigned(l) /\ n > 0
                              /\ trail' = Append(trail, Entry(l, DL + n, NOREF))
    PROVE  TrailOK' /\ DL' = DL + n /\ (n > 0 /\ DL = 0 => dlevels'[1] = Len(trail))
           /\ \A h \in 1 .. DL : dlevels'[h] = dlevels[h]
<1> DEFINE len == Len(trail)
<1>1. /\ DL \in Nat /\ len \in Nat /\ trail \in Seq(EntryType) /\ dlevels \in Seq(Nat)
      /\ DL = Len(dlevels)
      /\ \A i \in 1 .. len : trail[i] \in EntryType /\ trail[i].level \in Nat /\ trail[i].level <= DL
      /\ \A j \in 1 .. DL : dlevels[j] \in Nat /\ dlevels[j] <= len
  BY Levels DEF TrailOK, DL
<1> DEFINE more == [i \in 1 .. n |-> len]
<1>2. more \in Seq(Nat) /\ Len(more) = n /\ \A i \in 1 .. n : more[i] = len
  BY <1>1
<1>3. dlevels' = dlevels \o more
  BY DEF IncDL
<1> HIDE DEF more, len
<1>4. /\ dlevels' \in Seq(Nat) /\ Len(dlevels') = DL + n
      /\ \A h \in 1 .. DL : dlevels'[h] = dlevels[h]
      /\ \A h \in DL + 1 .. DL + n : dlevels'[h] = len
  <2>1. dlevels \in Seq(Nat) /\ Len(dlevels) = DL /\ DL \in Nat
    BY <1>1
  <2>2. /\ dlevels \o more \in Seq(Nat) /\ Len(dlevels \o more) = DL + n
        /\ \A h \in 1 .. DL : (dlevels \o more)[h] = dlevels[h]
        /\ \A h \in DL + 1 .. DL + n : (dlevels \o more)[h] = more[h - DL]
    BY <2>1, <1>2
  <2>3. \A h \in DL + 1 .. DL + n : h - DL \in 1 .. n
    BY <2>1
  <2> QED
    BY <2>2, <2>3, <1>2, <1>3
<1>d. DOMAIN trail = 1 .. len /\ propagated = len
  BY <1>1 DEF len
<1>5. \A h \in 1 .. DL + n : h \in 1 .. DL \/ h \in DL + 1 .. DL + n
  BY <1>1
<1>6. DL' = DL + n
  BY <1>4 DEF DL
<1> DEFINE new == {trail'[i] : i \in {k \in DOMAIN trail' : k = len + 1}}
<1>7. /\ trail' \in Seq(EntryType) /\ DOMAIN trail' = 1 .. Len(trail') /\ len <= Len(trail')
      /\ \A i \in 1 .. len : trail'[i] = trail[i]
      /\ \A i \in 1 .. Len(trail') : i \in 1 .. len \/
             /\ i = len + 1 /\ n > 0
             /\ trail'[i].lit \in Lits /\ Unassigned(trail'[i].lit)
             /\ trail'[i].level = DL + n /\ trail'[i].source = NOREF
  <2>1. CASE trail' = trail
    BY <2>1, <1>1 DEF len
  <2>2. ASSUME NEW l \in Lits, Unassigned(l), n > 0, trail' = Append(trail, Entry(l, DL + n, NOREF))
        PROVE  /\ trail' \in Seq(EntryType) /\ DOMAIN trail' = 1 .. Len(trail') /\ len <= Len(trail')
               /\ \A i \in 1 .. len : trail'[i] = trail[i]
               /\ \A i \in 1 .. Len(trail') : i \in 1 .. len \/
                      /\ i = len + 1 /\ n > 0
                      /\ trail'[i].lit \in Lits /\ Unassigned(trail'[i].lit)
                      /\ trail'[i].level = DL + n /\ trail'[i].source = NOREF
    <3> DEFINE e == Entry(l, DL + n, NOREF)
    <3>1. /\ e \in EntryType /\ e.lit = l /\ e.level = DL + n /\ e.source = NOREF
      BY <1>1 DEF Entry, EntryType, NOREF
    <3> HIDE DEF e
    <3>2. trail' = Append(trail, e)
      BY <2>2 DEF e
    <3>3. /\ trail' \in Seq(EntryType) /\ Len(trail') = len + 1 /\ trail'[len + 1] = e
          /\ \A i \in 1 .. len : trail'[i] = trail[i]
      BY <1>1, <3>1, <3>2 DEF len
    <3>4. \A i \in 1 .. len + 1 : i \in 1 .. len \/ i = len + 1
      BY <1>1
    <3> QED
      BY <1>1, <2>2, <3>1, <3>3, <3>4
  <2> QED
    BY <2>1, <2>2
<1>8. propagated' \in 0 .. Len(trail') /\ propagated' = len
  <2>1. propagated' = len
    BY <1>d
  <2>2. Len(trail') \in Nat /\ len <= Len(trail')
    <3>1. trail' \in Seq(EntryType) /\ len <= Len(trail')
      BY <1>7
    <3> QED
      BY <3>1
  <2>3. len \in Nat
    BY <1>1
  <2> QED
    BY <2>1, <2>2, <2>3
<1>9. ASSUME NEW i \in DOMAIN trail' PROVE trail'[i].level <= DL'
  <2>1. CASE i \in 1 .. len
    <3>1. trail[i].level \in Nat /\ trail[i].level <= DL /\ trail'[i] = trail[i] /\ DL \in Nat
      BY <2>1, <1>1, <1>7
    <3>2. trail[i].level <= DL + n
      BY <3>1
    <3> QED
      BY <3>1, <3>2, <1>6
  <2>2. CASE trail'[i].level = DL + n
    BY <2>2, <1>1, <1>6
  <2> QED
    BY <2>1, <2>2, <1>7, <1>9
<1>10. PositionsOK
  BY PositionsHold
<1>11. ASSUME NEW i \in 1 .. len, NEW k \in 1 .. Len(trail'), k = len + 1, ~ (k \in 1 .. len)
       PROVE  trail'[i].lit \notin {trail'[k].lit, -trail'[k].lit}
              /\ trail'[k].lit \notin {trail'[i].lit, -trail'[i].lit}
  <2>1. trail'[i] = trail[i] /\ Unassigned(trail'[k].lit) /\ trail'[k].lit \in Lits
    BY <1>7, <1>11
  <2>2. trail[i].lit \in Assigned /\ trail[i].lit \in Lits
    BY <1>10, <1>1 DEF PositionsOK, len, EntryType
  <2> QED
    BY <2>1, <2>2, Negation DEF Unassigned
<1>12. ASSUME NEW i \in DOMAIN trail', NEW k \in DOMAIN trail',
              trail'[i].lit \in {trail'[k].lit, -trail'[k].lit}
       PROVE  i = k
  <2>1. i \in 1 .. Len(trail') /\ k \in 1 .. Len(trail') /\ ~ (len + 1 \in 1 .. len)
    <3>1. ~ (len + 1 \in 1 .. len)
      BY <1>1
    <3> QED
      BY <3>1, <1>7, <1>12
  <2>2. CASE i \in 1 .. len /\ k \in 1 .. len
    <3>1. i \in DOMAIN trail /\ k \in DOMAIN trail /\ trail'[i] = trail[i] /\ trail'[k] = trail[k]
      BY <2>2, <1>d, <1>7
    <3> QED
      BY <3>1, <1>12 DEF TrailOK
  <2>3. CASE i \in 1 .. len /\ k = len + 1
    BY <2>1, <2>3, <1>11, <1>12
  <2>4. CASE i = len + 1 /\ k \in 1 .. len
    BY <2>1, <2>4, <1>11, <1>12
  <2> QED
    BY <2>1, <2>2, <2>3, <2>4, <1>7
<1>13. ASSUME NEW j \in 1 .. DL'
       PROVE  /\ dlevels'[j] <= propagated'
              /\ \A i \in 1 .. dlevels'[j] : trail'[i].level < j
              /\ \A h \in 1 .. j : dlevels'[h] <= dlevels'[j]
  <2>1. CASE j \in 1 .. DL
    <3>1. dlevels'[j] = dlevels[j] /\ dlevels[j] <= len /\ dlevels[j] \in Nat
      BY <2>1, <1>1, <1>4
    <3>2. /\ \A i \in 1 .. dlevels[j] : trail[i].level < j
          /\ \A h \in 1 .. j : dlevels[h] <= dlevels[j]
      BY <2>1 DEF TrailOK
    <3>3. \A i \in 1 .. dlevels[j] : i \in 1 .. len
      BY <3>1, <1>1
    <3>4. \A h \in 1 .. j : h \in 1 .. DL
      BY <2>1, <1>1
    <3> QED
      BY <3>1, <3>2, <3>3, <3>4, <1>4, <1>7, <1>8
  <2>2. CASE j \in DL + 1 .. DL + n
    <3>1. dlevels'[j] = len
      BY <2>2, <1>4
    <3>2. ASSUME NEW i \in 1 .. len PROVE trail'[i].level < j
      <4>1. trail[i].level \in Nat /\ trail[i].level <= DL /\ trail'[i] = trail[i] /\ DL \in Nat
        BY <1>1, <1>7
      <4>2. DL < j /\ j \in Nat
        BY <2>2, <4>1
      <4>3. trail[i].level < j
        BY <4>1, <4>2
      <4> QED
        BY <4>1, <4>3
    <3>3. \A h \in 1 .. j : h \in 1 .. DL + n
      BY <2>2, <1>1
    <3>4. ASSUME NEW h \in 1 .. DL + n PROVE dlevels'[h] <= len
      <4>1. CASE h \in 1 .. DL
        BY <4>1, <1>1, <1>4
      <4>2. CASE h \in DL + 1 .. DL + n
        BY <4>2, <1>1, <1>4
      <4> QED
        BY <4>1, <4>2, <1>5
    <3> QED
      BY <3>1, <3>2, <3>3, <3>4, <1>8, <1>1
  <2> QED
    BY <2>1, <2>2, <1>5, <1>6
<1>14. ASSUME NEW i \in DOMAIN trail', trail'[i].source = NOREF, trail'[i].level > 0
       PROVE  /\ i = dlevels'[trail'[i].level] + 1
              /\ \A j \in trail'[i].level + 1 .. DL' : i <= dlevels'[j]
  <2>1. CASE i \in 1 .. len
    <3>1. trail'[i] = trail[i] /\ i \in DOMAIN trail /\ trail[i].level \in 1 .. DL
      <4>1. trail'[i] = trail[i] /\ i \in DOMAIN trail
        BY <2>1, <1>7, <1>d
      <4>2. trail[i].level \in Nat /\ trail[i].level <= DL
        BY <2>1, <1>1
      <4> QED
        BY <4>1, <4>2, <1>1, <1>14
    <3>2. /\ i = dlevels[trail[i].level] + 1
          /\ \A j \in trail[i].level + 1 .. DL : i <= dlevels[j]
      BY <3>1, <1>14 DEF TrailOK
    <3>3. \A j \in trail[i].level + 1 .. DL + n :
              (j \in trail[i].level + 1 .. DL /\ j \in 1 .. DL) \/ j \in DL + 1 .. DL + n
      <4>1. PICK lev \in 1 .. DL : lev = trail[i].level
        BY <3>1
      <4>2. \A j \in lev + 1 .. DL + n :
                (j \in lev + 1 .. DL /\ j \in 1 .. DL) \/ j \in DL + 1 .. DL + n
        BY <1>1
      <4> QED
        BY <4>1, <4>2, Zenon
    <3>4. \A j \in DL + 1 .. DL + n : i <= dlevels'[j]
      BY <2>1, <1>1, <1>4
    <3> QED
      BY <3>1, <3>2, <3>3, <3>4, <1>4, <1>6
  <2>2. CASE i = len + 1 /\ n > 0 /\ trail'[i].level = DL + n
    <3>1. DL + n \in DL + 1 .. DL + n
      BY <2>2, <1>1
    <3>2. \A j \in DL + n + 1 .. DL + n : FALSE
      BY <1>1
    <3> QED
      BY <2>2, <3>1, <3>2, <1>4, <1>6
  <2> QED
    BY <2>1, <2>2, <1>7
<1>15. n > 0 /\ DL = 0 => dlevels'[1] = Len(trail)
  BY <1>1, <1>4 DEF len
<1> QED
  BY <1>4, <1>6, <1>7, <1>8, <1>9, <1>12, <1>13, <1>14, <1>15 DEF TrailOK

\* The first pending assumption is one, and comes after the current level.
LEMMA PendingFacts ==
    ASSUME TrailOK, assumptions \in Seq(Lits), Pending # {}
    PROVE  /\ Min(Pending) \in Nat /\ Min(Pending) > DL /\ Min(Pending) <= Len(assumptions)
           /\ assumptions[Min(Pending)] \in Lits
<1>1. DL \in Nat /\ Len(assumptions) \in Nat
  BY Levels
<1>2. Pending \subseteq DL + 1 .. Len(assumptions)
  BY DEF Pending
<1>3. Pending \in SUBSET Nat
  BY <1>1, <1>2
<1>4. Min(Pending) \in Pending
  BY <1>3, LeastOf
<1>5. Min(Pending) \in DL + 1 .. Len(assumptions)
  BY <1>2, <1>4
<1>6. Min(Pending) \in 1 .. Len(assumptions)
  BY <1>1, <1>5
<1> QED
  BY <1>1, <1>5, <1>6

\* The greater of two naturals.
LEMMA MaxOfTwo == \A a, b \in Nat : Max({a, b}) \in Nat /\ a <= Max({a, b}) /\ b <= Max({a, b})
<1>1. SUFFICES ASSUME NEW a \in Nat, NEW b \in Nat
               PROVE  Max({a, b}) \in Nat /\ a <= Max({a, b}) /\ b <= Max({a, b})
  OBVIOUS
<1>2. {a, b} \in SUBSET (0 .. a + b)
  OBVIOUS
<1>3. Max({a, b}) \in {a, b} /\ \A x \in {a, b} : x <= Max({a, b})
  BY <1>2, GreatestOf
<1> QED
  BY <1>3

\* What Decide does, with the number of levels it adds.
LEMMA DecideMoves ==
    ASSUME Core, Decide
    PROVE  \E n \in Nat \ {0} : \E l \in Lits :
               /\ Unassigned(l) /\ propagated = Len(trail) /\ dlevels' = IncDL(n)
               /\ trail' = Append(trail, Entry(l, DL + n, NOREF))
               /\ TrailOK' /\ Moves(DL, {Entry(l, DL + n, NOREF)})
               /\ DL' = DL + n /\ (DL = 0 => dlevels'[1] = Len(trail))
               /\ \A h \in 1 .. DL : dlevels'[h] = dlevels[h]
<1> DEFINE levels == IF Pending # {} THEN Min(Pending) - 1 ELSE Max({DL, Len(assumptions)})
           n == levels + 1 - DL
<1>1. TrailOK /\ assumptions \in Seq(Lits) /\ DL \in Nat /\ Len(assumptions) \in Nat
  BY Levels DEF Core, RestOK
<1>2. levels \in Nat /\ levels >= DL
  <2>1. CASE Pending # {}
    BY <2>1, <1>1, PendingFacts
  <2>2. CASE Pending = {}
    BY <2>2, <1>1, MaxOfTwo
  <2> QED
    BY <2>1, <2>2
<1>3. PICK l \in IF Pending # {} THEN {assumptions[Min(Pending)]} ELSE Lits :
          Unassigned(l) /\ trail' = Append(trail, Entry(l, levels + 1, NOREF))
  BY DEF Decide
<1>4. dlevels' = IncDL(n) /\ propagated' = propagated /\ propagated = Len(trail)
  BY DEF Decide, Quiescent, PropagationDone
<1> HIDE DEF levels
<1>5. n \in Nat \ {0} /\ levels + 1 = DL + n /\ n > 0
  BY <1>1, <1>2
<1>6. l \in Lits
  <2>1. CASE Pending # {}
    BY <2>1, <1>1, <1>3, PendingFacts
  <2>2. CASE Pending = {}
    BY <2>2, <1>3
  <2> QED
    BY <2>1, <2>2
<1> HIDE DEF n
<1>7. trail' = Append(trail, Entry(l, DL + n, NOREF))
  BY <1>3, <1>5
<1>8. /\ TrailOK' /\ DL' = DL + n /\ (n > 0 /\ DL = 0 => dlevels'[1] = Len(trail))
      /\ \A h \in 1 .. DL : dlevels'[h] = dlevels[h]
  BY <1>1, <1>3, <1>4, <1>5, <1>6, <1>7, LevelsAdded
<1>9. Entry(l, DL + n, NOREF) \in EntryType
  BY <1>1, <1>5, <1>6 DEF Entry, EntryType, NOREF
<1>10. Moves(DL, {Entry(l, DL + n, NOREF)})
  BY <1>1, <1>7, <1>8, <1>9, AppendMoves
<1> QED
  BY <1>3, <1>4, <1>5, <1>6, <1>7, <1>8, <1>10

\* A decision keeps the invariant, although levels may have no decision.
LEMMA DecideKeeps == Core /\ Decide => Core'
<1>1. SUFFICES ASSUME Core, Decide PROVE Core'
  OBVIOUS
<1>2. PICK n \in Nat \ {0}, l \in Lits :
          TrailOK' /\ Moves(DL, {Entry(l, DL + n, NOREF)})
  BY <1>1, DecideMoves
<1>3. /\ pc = "search" /\ pc' = "search" /\ visiting = {} /\ visiting' = {}
      /\ UNCHANGED <<problem, opts, clauses, watches, uip, conflict,
                     rested, reduced, calls, assumptions, iconflict, cnfstate>>
  BY <1>1 DEF Decide, Quiescent, PropagationDone, call, limits
<1>4. ~ Analyzing /\ ~ Analyzing'
  BY <1>3 DEF Analyzing
<1>5. DL \in Nat /\ DL \in 0 .. DL
  BY <1>1, Levels DEF Core
<1>6. Entry(l, DL + n, NOREF).source = NOREF /\ Entry(l, DL + n, NOREF).level > 0
  BY <1>5 DEF Entry
<1>7. /\ ClausesOK' /\ WatchesOK' /\ ReasonsOK' /\ AnalysisOK' /\ VisitingOK'
      /\ Sound' /\ Complete' /\ UipSound'
      /\ \A k \in Lits : k \in Assigned' => SourceOf(k)' \in {NOREF} \cup DOMAIN clauses'
  BY <1>1, <1>2, <1>3, <1>4, <1>5, <1>6, TrailStep
<1>8. RestOK'
  BY <1>1, <1>3, <1>7 DEF Core, RestOK, Propagating
<1> QED
  BY <1>2, <1>7, <1>8 DEF Core

\* The core of a failed assumption consists of literals.
LEMMA FailedInLits ==
    ASSUME TrailOK, NEW l \in Lits
    PROVE  Failed(l) \subseteq Lits
<1> DEFINE n == Len(trail)
           pivot == IF dlevels = <<>> THEN n ELSE dlevels[1]
<1>1. n \in Nat /\ \A i \in 1 .. n : -trail[i].lit \in Lits
  BY Levels, Negation DEF EntryType
<1>2. pivot \in Nat
  <2>1. CASE dlevels = <<>>
    BY <2>1, <1>1
  <2>2. CASE dlevels # <<>>
    <3>1. dlevels \in Seq(Nat)
      BY DEF TrailOK
    <3>2. 1 \in DOMAIN dlevels
      BY <3>1, <2>2
    <3> QED
      BY <3>1, <3>2, <2>2
  <2> QED
    BY <2>1, <2>2
<1>3. \A i \in pivot + 1 .. n : i \in 1 .. n
  BY <1>1, <1>2
<1>4. \A i \in pivot + 1 .. n : -trail[i].lit \in Lits
  BY <1>1, <1>3
<1> QED
  BY <1>4 DEF Failed

\* A failed assumption only adds levels.
LEMMA FailAssumptionMoves ==
    ASSUME Core, FailAssumption
    PROVE  \E n \in Nat : /\ dlevels' = IncDL(n) /\ TrailOK' /\ Moves(DL, {}) /\ DL' = DL + n
                          /\ (n > 0 /\ DL = 0 => dlevels'[1] = Len(trail))
                          /\ \A h \in 1 .. DL : dlevels'[h] = dlevels[h]
<1> DEFINE n == Min(Pending) - 1 - DL
<1>1. TrailOK /\ assumptions \in Seq(Lits) /\ DL \in Nat
  BY Levels DEF Core, RestOK
<1>2. /\ Pending # {} /\ dlevels' = IncDL(n) /\ trail' = trail /\ propagated' = propagated
      /\ propagated = Len(trail)
  BY DEF FailAssumption, Quiescent, PropagationDone
<1>3. n \in Nat
  BY <1>1, <1>2, PendingFacts
<1> HIDE DEF n
<1>4. /\ TrailOK' /\ DL' = DL + n /\ (n > 0 /\ DL = 0 => dlevels'[1] = Len(trail))
      /\ \A h \in 1 .. DL : dlevels'[h] = dlevels[h]
  BY <1>1, <1>2, <1>3, LevelsAdded
<1>5. Moves(DL, {})
  BY <1>1, <1>2, UnchangedMoves
<1> QED
  BY <1>2, <1>3, <1>4, <1>5

\* A failed assumption keeps the invariant.
LEMMA FailAssumptionKeeps == Core /\ FailAssumption => Core'
<1>1. SUFFICES ASSUME Core, FailAssumption PROVE Core'
  OBVIOUS
<1>2. TrailOK' /\ Moves(DL, {}) /\ DL \in 0 .. DL /\ TrailOK
  BY <1>1, FailAssumptionMoves, Levels DEF Core
<1>3. /\ pc = "search" /\ pc' = "idle" /\ cnfstate' = "unsat" /\ visiting = {} /\ visiting' = {}
      /\ UNCHANGED <<problem, opts, clauses, watches, uip, conflict,
                     rested, reduced, calls, assumptions>>
      /\ iconflict' = Failed(-assumptions[Min(Pending)]) /\ Pending # {}
  BY <1>1 DEF FailAssumption, Quiescent, PropagationDone, limits, Answer
<1>4. ~ Analyzing /\ ~ Analyzing'
  BY <1>3 DEF Analyzing
<1>5. /\ ClausesOK' /\ WatchesOK' /\ ReasonsOK' /\ AnalysisOK' /\ VisitingOK'
      /\ Sound' /\ Complete' /\ UipSound'
      /\ \A k \in Lits : k \in Assigned' => SourceOf(k)' \in {NOREF} \cup DOMAIN clauses'
  BY <1>1, <1>2, <1>3, <1>4, TrailStep
<1>6. iconflict' \subseteq Lits
  <2>1. assumptions \in Seq(Lits)
    BY <1>1 DEF Core, RestOK
  <2>2. -assumptions[Min(Pending)] \in Lits
    BY <1>2, <1>3, <2>1, PendingFacts, Negation
  <2> QED
    BY <1>2, <1>3, <2>2, FailedInLits
<1>7. RestOK'
  BY <1>1, <1>3, <1>5, <1>6 DEF Core, RestOK, Propagating
<1> QED
  BY <1>2, <1>5, <1>7 DEF Core

\* Taking the next literal to propagate keeps the invariant.
LEMMA NextLiteralKeeps == Core /\ NextLiteral => Core'
<1>1. SUFFICES ASSUME Core, NextLiteral PROVE Core'
  OBVIOUS
<1>2. TrailOK /\ DL \in 0 .. DL
  BY <1>1, Levels DEF Core
<1>3. /\ Propagating /\ propagated < Len(trail) /\ propagated' = propagated + 1
      /\ visiting' = {w \in watches : w.lit = -trail[propagated + 1].lit}
      /\ UNCHANGED <<problem, opts, clauses, watches, trail, dlevels, uip, conflict,
                     rested, reduced, calls, assumptions, iconflict, cnfstate, pc>>
  BY <1>1 DEF NextLiteral, limits, call
<1>4. /\ DL \in Nat /\ Len(trail) \in Nat /\ propagated \in Nat
      /\ \A h \in 1 .. DL : dlevels[h] \in Nat /\ dlevels[h] <= propagated
      /\ DL' = DL
  BY <1>2, <1>3, Levels DEF DL
<1>5. TrailOK'
  <2>1. propagated' \in 0 .. Len(trail') /\ \A h \in 1 .. DL' : dlevels'[h] <= propagated'
    BY <1>3, <1>4
  <2>2. trail' = trail /\ dlevels' = dlevels
    BY <1>3
  <2> QED
    BY <1>2, <1>4, <2>1, <2>2 DEF TrailOK
<1>6. Moves(DL, {})
  BY <1>2, <1>3, UnchangedMoves
<1>7. ~ Analyzing /\ ~ Analyzing'
  BY <1>3 DEF Analyzing, Propagating
<1>8. /\ ClausesOK' /\ WatchesOK' /\ ReasonsOK' /\ AnalysisOK'
      /\ Sound' /\ Complete' /\ UipSound'
      /\ \A k \in Lits : k \in Assigned' => SourceOf(k)' \in {NOREF} \cup DOMAIN clauses'
  BY <1>1, <1>2, <1>3, <1>5, <1>6, <1>7, TrailStep
<1>9. VisitingOK'
  <2>1. propagated' > 0 /\ \A h \in 1 .. DL' : dlevels'[h] < propagated'
    BY <1>3, <1>4
  <2>2. Propagating'
    BY <1>3 DEF Propagating
  <2>3. visiting' \subseteq watches' /\ \A w \in visiting' : w.lit = -trail'[propagated'].lit
    BY <1>3
  <2> QED
    BY <2>1, <2>2, <2>3 DEF VisitingOK
<1>10. RestOK'
  BY <1>1, <1>3, <1>8 DEF Core, RestOK, Propagating
<1> QED
  BY <1>5, <1>8, <1>9, <1>10 DEF Core

\* A step that changes nothing keeps the invariant.
LEMMA StutterKeeps == Core /\ UNCHANGED vars => Core'
<1>1. SUFFICES ASSUME Core, UNCHANGED vars PROVE Core'
  OBVIOUS
<1>2. UNCHANGED <<problem, opts, clauses, watches, trail, propagated, dlevels, uip, conflict, visiting,
                  rested, reduced, calls, assumptions, iconflict, cnfstate, pc>>
  BY <1>1 DEF vars, search, limits, call
<1>3. TrailOK' /\ ClausesOK' /\ WatchesOK'
  BY <1>1, <1>2 DEF Core, TrailOK, DL, ClausesOK, WatchesOK, Live
<1>4. ReasonsOK' /\ AnalysisOK' /\ VisitingOK' /\ RestOK'
  <2>1. /\ Assigned' = Assigned /\ Live' = Live /\ DL' = DL /\ (Analyzing' <=> Analyzing)
        /\ Pivots' = Pivots /\ (Propagating' <=> Propagating)
        /\ \A l : PositionOf(l)' = PositionOf(l)
    BY <1>2 DEF Assigned, Live, DL, Analyzing, Pivots, Propagating, PositionOf
  <2>2. \A l : /\ LevelOf(l)' = LevelOf(l) /\ SourceOf(l)' = SourceOf(l)
              /\ (IsFalse(l)' <=> IsFalse(l)) /\ (HasReason(l)' <=> HasReason(l))
    BY <1>2, <2>1 DEF LevelOf, SourceOf, IsFalse, HasReason
  <2>3. \A l, r : (ReasonFor(l, r)' <=> ReasonFor(l, r)) /\ (Spent(l)' <=> Spent(l))
    BY <1>2, <2>1, <2>2 DEF ReasonFor, Spent
  <2>4. ReasonsOK'
    BY <1>1, <2>2, <2>3 DEF Core, ReasonsOK
  <2>5. Tracked' = Tracked /\ NonRoot(clauses[conflict].lits)' = NonRoot(clauses[conflict].lits)
    BY <1>2, <2>1, <2>2 DEF Tracked, Resolvent, NonRoot
  <2>6. AnalysisOK'
    BY <1>1, <1>2, <2>1, <2>2, <2>5 DEF Core, AnalysisOK
  <2>7. VisitingOK' /\ RestOK'
    BY <1>1, <1>2, <2>1, <2>2 DEF Core, VisitingOK, RestOK
  <2> QED
    BY <2>4, <2>6, <2>7
<1>5. Sound' /\ Complete' /\ UipSound'
  BY <1>1, <1>2 DEF Core, Sound, Complete, UipSound, Models, Satisfies, Roots, Assigned, LevelOf,
     PositionOf, Resolvent, Live
<1> QED
  BY <1>3, <1>4, <1>5 DEF Core

-----------------------------------------------------------------------------
(***************************************************************************)
(* Propagation.                                                            *)
(***************************************************************************)
\* What is known of the watch that BCP visits.
LEMMA VisitFacts ==
    ASSUME Core, NEW w \in visiting
    PROVE  /\ w \in watches /\ w \in WatchType /\ w.ref \in DOMAIN clauses /\ w.ref # NOREF
           /\ clauses[w.ref] \in ClauseType
           /\ w.lit \in clauses[w.ref].lits /\ w.imp \in clauses[w.ref].lits /\ w.lit # w.imp
           /\ w.lit \in Lits /\ w.imp \in Lits
           /\ IsFalse(w.lit) /\ ~ Unassigned(w.lit) /\ LevelOf(w.lit) \in 0 .. DL
           /\ w.binary => clauses[w.ref].lits = {w.lit, w.imp}
           /\ w.binary <=> Cardinality(clauses[w.ref].lits) = 2
           /\ ~ clauses[w.ref].deleted =>
                  /\ w.ref \in Live /\ Other(w) \in clauses[w.ref].lits /\ Other(w) # w.lit
                  /\ clauses[w.ref].watched = {w.lit, Other(w)} /\ Other(w) \in Lits
           /\ Propagating /\ conflict = NOREF /\ ~ Analyzing
           /\ propagated > 0 /\ \A j \in 1 .. DL : dlevels[j] < propagated
<1>1. TrailOK /\ PositionsOK
  BY PositionsHold DEF Core
<1>2. Propagating /\ propagated > 0 /\ w \in watches /\ w.lit = -trail[propagated].lit
      /\ \A j \in 1 .. DL : dlevels[j] < propagated
  BY DEF Core, VisitingOK
<1>3. /\ w \in WatchType /\ w.ref \in DOMAIN clauses
      /\ w.lit \in clauses[w.ref].watched /\ w.lit \in clauses[w.ref].lits
      /\ w.imp \in clauses[w.ref].lits \ {w.lit}
      /\ w.binary <=> Cardinality(clauses[w.ref].lits) = 2
  BY <1>2 DEF Core, WatchesOK
<1>4. clauses \in Seq(ClauseType)
  BY DEF Core, ClausesOK
<1>5. clauses[w.ref] \in ClauseType /\ w.ref # NOREF
  BY <1>3, <1>4 DEF NOREF
<1>6. w.lit \in Lits /\ w.imp \in Lits /\ clauses[w.ref].lits \in SUBSET Lits
  BY <1>3, <1>5 DEF ClauseType
<1>7. IsFalse(w.lit) /\ ~ Unassigned(w.lit) /\ LevelOf(w.lit) \in 0 .. DL
  <2>1. propagated \in 1 .. Len(trail)
    BY <1>1, <1>2, Levels
  <2>2. trail[propagated].lit \in Assigned /\ trail[propagated].lit \in Lits
    BY <1>1, <2>1 DEF PositionsOK, EntryType
  <2>3. -w.lit = trail[propagated].lit
    BY <1>2, <2>2, Negation
  <2>4. IsFalse(w.lit) /\ ~ Unassigned(w.lit)
    BY <2>2, <2>3 DEF IsFalse, Unassigned
  <2> QED
    BY <2>4, <1>1, <1>6, Levels
<1>8. w.binary => clauses[w.ref].lits = {w.lit, w.imp}
  <2>1. SUFFICES ASSUME w.binary PROVE clauses[w.ref].lits = {w.lit, w.imp}
    OBVIOUS
  <2>2. IsPair(clauses[w.ref].lits)
    BY <2>1, <1>3, <1>6, Pairs
  <2> QED
    BY <2>2, <1>3 DEF IsPair
<1>9. ASSUME ~ clauses[w.ref].deleted
      PROVE  /\ w.ref \in Live /\ Other(w) \in clauses[w.ref].lits /\ Other(w) # w.lit
             /\ clauses[w.ref].watched = {w.lit, Other(w)} /\ Other(w) \in Lits
  <2>1. w.ref \in Live
    BY <1>3, <1>9 DEF Live
  <2>2. clauses[w.ref].watched \subseteq clauses[w.ref].lits /\ IsPair(clauses[w.ref].watched)
    BY <2>1 DEF Core, ClausesOK
  <2>3. PICK b : b # w.lit /\ clauses[w.ref].watched = {w.lit, b}
    BY <1>3, <2>2 DEF IsPair
  <2>4. Other(w) = b
    BY <2>3 DEF Other
  <2> QED
    BY <2>1, <2>2, <2>3, <2>4, <1>6
<1>10. conflict = NOREF /\ ~ Analyzing
  BY <1>2 DEF Core, RestOK, Analyzing, Propagating
<1> QED
  BY <1>2, <1>3, <1>5, <1>6, <1>7, <1>8, <1>9, <1>10

\* The rest of the visit: the other watches, while there is no conflict.
LEMMA VisitingOn ==
    ASSUME Core, NEW w \in visiting, NEW moved, trail' = trail \/ trail' = Append(trail, moved),
           UNCHANGED <<propagated, dlevels>>, watches \ {w} \subseteq watches',
           visiting' = (IF conflict' = NOREF THEN visiting \ {w} ELSE {}),
           conflict' = NOREF => pc' = pc
    PROVE  VisitingOK'
<1>1. /\ visiting \subseteq watches /\ Propagating /\ propagated > 0
      /\ \A j \in 1 .. DL : dlevels[j] < propagated
      /\ \A v \in visiting : v.lit = -trail[propagated].lit
  BY DEF Core, VisitingOK
<1>2. CASE conflict' # NOREF
  BY <1>2 DEF VisitingOK
<1>3. CASE conflict' = NOREF
  <2>1. visiting' \subseteq visiting \ {w} /\ visiting' \subseteq watches'
    BY <1>1, <1>3
  <2>2. Propagating' /\ DL' = DL
    BY <1>1, <1>3 DEF Propagating, DL
  <2>3. trail'[propagated'] = trail[propagated]
    <3>1. propagated \in 1 .. Len(trail) /\ trail \in Seq(EntryType)
      BY <1>1, Levels DEF Core, TrailOK
    <3> QED
      BY <3>1
  <2> QED
    BY <1>1, <2>1, <2>2, <2>3 DEF VisitingOK
<1> QED
  BY <1>2, <1>3

\* What Highest returns.
LEMMA HighestFacts ==
    ASSUME TrailOK, NEW s \in SUBSET Lits, \A l \in s : ~ Unassigned(l)
    PROVE  /\ Highest(s) \in 0 .. DL /\ \A l \in s : LevelOf(l) <= Highest(s)
           /\ Highest(s) = 0 \/ \E l \in s : LevelOf(l) = Highest(s)
<1> DEFINE S == {0} \cup {LevelOf(l) : l \in s}
<1>1. DL \in Nat /\ S \in SUBSET (0 .. DL) /\ S # {}
  BY Levels
<1>2. Max(S) \in S /\ \A x \in S : x <= Max(S)
  BY <1>1, GreatestOf
<1>3. Highest(s) = Max(S)
  BY DEF Highest
<1> QED
  BY <1>1, <1>2, <1>3

\* Enqueueing an implied literal keeps the trail well-formed.
LEMMA AppendKeepsTrailOK ==
    ASSUME TrailOK, NEW e \in EntryType, Unassigned(e.lit), e.level <= DL, e.source # NOREF,
           trail' = Append(trail, e), UNCHANGED <<propagated, dlevels>>
    PROVE  TrailOK' /\ DL' = DL
<1> DEFINE n == Len(trail)
<1>a. trail \in Seq(EntryType) /\ dlevels \in Seq(Nat)
  BY DEF TrailOK
<1>b. n \in Nat /\ DL \in Nat /\ propagated \in Nat /\ propagated <= n
      /\ (\A j \in 1 .. DL : dlevels[j] \in Nat /\ dlevels[j] <= propagated)
      /\ \A i \in 1 .. n : trail[i].level <= DL
  BY Levels
<1>c. DL' = DL
  BY DEF DL
<1>d. DOMAIN trail = 1 .. n
  BY <1>a
<1>e. \A j \in 1 .. DL : dlevels[j] <= n
  BY <1>b
<1>f. propagated \in 0 .. n
  BY <1>b
<1> HIDE DEF n
<1>1. /\ n \in Nat /\ trail \in Seq(EntryType) /\ DL' = DL /\ DL \in Nat
      /\ DOMAIN trail = 1 .. n /\ propagated \in 0 .. n /\ dlevels \in Seq(Nat)
      /\ \A j \in 1 .. DL : dlevels[j] \in Nat /\ dlevels[j] <= n
      /\ \A i \in 1 .. n : trail[i].level <= DL
  BY <1>a, <1>b, <1>c, <1>d, <1>e, <1>f
<1> USE DEF n
<1>2. /\ trail' \in Seq(EntryType) /\ DOMAIN trail' = 1 .. n + 1 /\ Len(trail') = n + 1
      /\ trail'[n + 1] = e
      /\ \A i \in 1 .. n : trail'[i] = trail[i]
  BY <1>1
<1>3. \A i \in 1 .. n + 1 : i \in 1 .. n \/ i = n + 1
  BY <1>1
<1>4. PositionsOK
  BY PositionsHold
<1> HIDE DEF n
<1>5. \A i \in 1 .. n : trail[i].lit # e.lit /\ trail[i].lit # -e.lit /\ e.lit # -trail[i].lit
  <2>1. SUFFICES ASSUME NEW i \in 1 .. n
                 PROVE  trail[i].lit # e.lit /\ trail[i].lit # -e.lit /\ e.lit # -trail[i].lit
    OBVIOUS
  <2>2. trail[i].lit \in Assigned /\ trail[i].lit \in Lits /\ e.lit \in Lits
    BY <1>4 DEF PositionsOK, n, EntryType
  <2> QED
    BY <2>2, Negation DEF Unassigned
<1>6. ASSUME NEW i \in 1 .. n + 1 PROVE trail'[i].level <= DL
  BY <1>1, <1>2, <1>3
<1>7. ASSUME NEW i \in 1 .. n + 1, NEW k \in 1 .. n + 1,
             trail'[i].lit \in {trail'[k].lit, -trail'[k].lit}
      PROVE  i = k
  <2>1. CASE i \in 1 .. n /\ k \in 1 .. n
    <3>1. trail[i].lit \in {trail[k].lit, -trail[k].lit}
      BY <2>1, <1>2, <1>7
    <3> QED
      BY <2>1, <3>1, <1>1 DEF TrailOK
  <2>2. CASE i \in 1 .. n /\ k = n + 1
    BY <2>2, <1>2, <1>5, <1>7
  <2>3. CASE i = n + 1 /\ k \in 1 .. n
    BY <2>3, <1>2, <1>5, <1>7
  <2> QED
    BY <2>1, <2>2, <2>3, <1>3
<1>8. ASSUME NEW j \in 1 .. DL
      PROVE  /\ dlevels[j] <= propagated
             /\ \A i \in 1 .. dlevels[j] : trail'[i].level < j
             /\ \A h \in 1 .. j : dlevels[h] <= dlevels[j]
  <2>1. /\ dlevels[j] <= propagated
        /\ \A i \in 1 .. dlevels[j] : trail[i].level < j
        /\ \A h \in 1 .. j : dlevels[h] <= dlevels[j]
    BY DEF TrailOK
  <2>2. \A i \in 1 .. dlevels[j] : i \in 1 .. n
    BY <1>1
  <2> QED
    BY <2>1, <2>2, <1>2
<1>9. ASSUME NEW i \in 1 .. n + 1, trail'[i].source = NOREF, trail'[i].level > 0
      PROVE  /\ i = dlevels[trail'[i].level] + 1
             /\ \A j \in trail'[i].level + 1 .. DL : i <= dlevels[j]
  <2>1. i \in 1 .. n
    BY <1>2, <1>3, <1>9
  <2>2. trail'[i] = trail[i] /\ i \in DOMAIN trail
    BY <2>1, <1>1, <1>2
  <2> QED
    BY <2>2, <1>9 DEF TrailOK
<1>10. propagated' \in 0 .. Len(trail') /\ propagated' = propagated /\ dlevels' = dlevels
  BY <1>1, <1>2
<1> QED
  BY <1>1, <1>2, <1>6, <1>7, <1>8, <1>9, <1>10 DEF TrailOK

\* What VisitWatch says of every visit.
Visits(w) ==
    /\ w \in visiting
    /\ visiting' = (IF conflict' = NOREF THEN visiting \ {w} ELSE {})
    /\ UNCHANGED <<problem, opts, propagated, dlevels, uip, rested, reduced,
                   calls, assumptions, iconflict>>

\* A visit that leaves the trail and the clauses.
LEMMA PassingVisit ==
    ASSUME Core, NEW w, Visits(w), UNCHANGED <<conflict, pc, cnfstate, clauses, trail>>,
           watches \ {w} \subseteq watches', WatchesOK'
    PROVE  Core'
<1>1. w \in visiting /\ visiting' = (IF conflict' = NOREF THEN visiting \ {w} ELSE {})
      /\ UNCHANGED <<problem, opts, propagated, dlevels, uip, rested, reduced,
                     calls, assumptions, iconflict>>
  BY DEF Visits
<1>2. TrailOK /\ DL \in 0 .. DL /\ ~ Analyzing /\ Propagating /\ conflict = NOREF
  BY <1>1, Levels, VisitFacts DEF Core
<1>3. TrailOK' /\ Moves(DL, {})
  BY <1>1, <1>2, UnchangedMoves DEF TrailOK, DL
<1>4. /\ ClausesOK' /\ ReasonsOK' /\ Sound' /\ Complete'
      /\ \A l \in Lits : l \in Assigned' => SourceOf(l)' \in {NOREF} \cup DOMAIN clauses'
  BY <1>1, <1>2, <1>3, SameClauses
<1>5. VisitingOK'
  BY <1>1, VisitingOn
<1>6. ~ Analyzing'
  BY <1>2 DEF Analyzing
<1>7. AnalysisOK' /\ UipSound'
  BY <1>1, <1>6 DEF Core, AnalysisOK, UipSound, Analyzing
<1>8. RestOK'
  BY <1>1, <1>4 DEF Core, RestOK, Propagating
<1> QED
  BY <1>3, <1>4, <1>5, <1>7, <1>8 DEF Core

\* A visit that finds a clause with all literals false but one.
LEMMA ImplyingVisit ==
    ASSUME Core, NEW w, Visits(w), UNCHANGED <<conflict, pc, cnfstate, clauses, watches>>,
           NEW e \in EntryType, trail' = Append(trail, e), Unassigned(e.lit), e.level <= DL,
           e.source = w.ref, w.ref \in Live, e.lit \in clauses[w.ref].watched,
           \A k \in clauses[w.ref].lits \ {e.lit} : IsFalse(k) /\ LevelOf(k) <= e.level
    PROVE  Core' /\ Moves(DL, {e})
<1>1. w \in visiting /\ visiting' = (IF conflict' = NOREF THEN visiting \ {w} ELSE {})
      /\ UNCHANGED <<problem, opts, propagated, dlevels, uip, rested, reduced,
                     calls, assumptions, iconflict>>
  BY DEF Visits
<1>2. /\ TrailOK /\ DL \in 0 .. DL /\ DL \in Nat /\ ~ Analyzing /\ Propagating /\ conflict = NOREF
      /\ PositionsOK /\ w.ref \in DOMAIN clauses /\ w.ref # NOREF /\ clauses[w.ref] \in ClauseType
  BY <1>1, Levels, VisitFacts, PositionsHold DEF Core
<1>3. TrailOK'
  BY <1>1, <1>2, AppendKeepsTrailOK
<1>4. Moves(DL, {e})
  BY <1>2, <1>3, AppendMoves
<1>5. ASSUME NEW k \in clauses[w.ref].lits \ {e.lit}
      PROVE  k \in Lits /\ IsFalse(k) /\ LevelOf(k) <= DL /\ LevelOf(k) <= e.level /\ LevelOf(k) \in Nat
  <2>1. k \in Lits /\ IsFalse(k) /\ LevelOf(k) <= e.level
    BY <1>2, <1>5 DEF ClauseType
  <2>2. LevelOf(k) \in 0 .. DL
    BY <2>1, <1>2, Levels DEF Unassigned, IsFalse
  <2> QED
    BY <2>1, <2>2, <1>2
<1>6. ReasonFor(e.lit, e.source)'
  <2>1. Live' = Live /\ clauses' = clauses
    BY DEF Live
  <2>2. PICK r : r = w.ref
    OBVIOUS
  <2>3. r \in Live' /\ e.lit \in clauses'[r].watched
    BY <2>1, <2>2
  <2>4. \A k \in clauses'[r].lits \ {e.lit} :
            k \in Lits /\ IsFalse(k) /\ LevelOf(k) <= DL /\ LevelOf(k) <= e.level
    BY <1>5, <2>1, <2>2
  <2>5. ReasonFor(e.lit, r)'
    BY <1>2, <1>3, <1>4, <2>3, <2>4, NewReason
  <2> QED
    BY <2>2, <2>5
<1>7. ASSUME e.level = 0, NEW m \in Models PROVE e.lit \in m
  <2>1. Roots \subseteq m /\ Satisfies(m, clauses[w.ref].lits) /\ m \in Assignments
    BY <1>2, ModelFacts DEF Core, Sound
  <2>2. PICK x \in clauses[w.ref].lits : x \in m
    BY <2>1 DEF Satisfies
  <2>3. ASSUME x # e.lit PROVE FALSE
    <3>1. x \in Lits /\ IsFalse(x) /\ LevelOf(x) = 0
      BY <1>5, <1>7, <2>3
    <3>2. x \notin m
      BY <2>1, <3>1, <1>2, RootFalseInModels
    <3> QED
      BY <3>2, <2>2
  <2> QED
    BY <2>2, <2>3
<1>8. /\ ClausesOK' /\ ReasonsOK' /\ Sound' /\ Complete'
      /\ \A l \in Lits : l \in Assigned' => SourceOf(l)' \in {NOREF} \cup DOMAIN clauses'
  BY <1>1, <1>2, <1>3, <1>4, <1>6, <1>7, SameClauses
<1>9. VisitingOK'
  BY <1>1, VisitingOn
<1>10. WatchesOK'
  <2>1. Live' = Live /\ clauses' = clauses /\ watches' = watches
    BY DEF Live
  <2> QED
    BY <2>1 DEF Core, WatchesOK
<1>11. ~ Analyzing'
  BY <1>2 DEF Analyzing
<1>12. AnalysisOK' /\ UipSound'
  BY <1>1, <1>11 DEF Core, AnalysisOK, UipSound, Analyzing
<1>13. RestOK'
  BY <1>1, <1>8 DEF Core, RestOK, Propagating
<1> QED
  BY <1>3, <1>4, <1>8, <1>9, <1>10, <1>12, <1>13 DEF Core

\* A visit that finds a clause that is false.
LEMMA ConflictingVisit ==
    ASSUME Core, NEW w, Visits(w), Conflicting(w), w.ref \in Live,
           \A k \in clauses[w.ref].lits : IsFalse(k)
    PROVE  Core'
<1>1. w \in visiting /\ visiting' = (IF conflict' = NOREF THEN visiting \ {w} ELSE {})
      /\ UNCHANGED <<problem, opts, propagated, dlevels, uip, rested, reduced,
                     calls, assumptions, iconflict>>
  BY DEF Visits
<1>2. /\ conflict' = w.ref /\ UNCHANGED <<clauses, watches, trail>>
      /\ \/ pc' = "analyze" /\ cnfstate' = cnfstate
         \/ pc' = "idle" /\ cnfstate' = "unsat"
  BY DEF Conflicting, Answer
<1>3. TrailOK /\ DL \in 0 .. DL /\ ~ Analyzing /\ w.ref \in DOMAIN clauses /\ w.ref # NOREF
  BY <1>1, Levels, VisitFacts DEF Core
<1>4. TrailOK' /\ Moves(DL, {})
  BY <1>1, <1>2, <1>3, UnchangedMoves DEF TrailOK, DL
<1>5. /\ ClausesOK' /\ ReasonsOK' /\ Sound' /\ Complete'
      /\ \A l \in Lits : l \in Assigned' => SourceOf(l)' \in {NOREF} \cup DOMAIN clauses'
  BY <1>1, <1>2, <1>3, <1>4, SameClauses
<1>6. VisitingOK'
  BY <1>1, <1>2, <1>3 DEF VisitingOK
<1>7. Live' = Live /\ clauses' = clauses /\ watches' = watches
  BY <1>2 DEF Live
<1>8. WatchesOK'
  BY <1>7 DEF Core, WatchesOK
<1>9. AnalysisOK' /\ UipSound'
  <2>1. pc' # "uip" /\ conflict' \in Live'
    BY <1>2, <1>7
  <2>2. \A k \in clauses'[conflict'].lits : IsFalse(k)'
    BY <1>2, <1>7 DEF IsFalse, Assigned
  <2> QED
    BY <1>1, <2>1, <2>2 DEF Core, AnalysisOK, UipSound
<1>10. RestOK'
  BY <1>1, <1>2, <1>3, <1>5 DEF Core, RestOK, Propagating
<1> QED
  BY <1>4, <1>5, <1>6, <1>8, <1>9, <1>10 DEF Core

\* BCP goes on: another literal of the clause is in the watch, or the clause is gone.
LEMMA BlockKeepsWatches ==
    ASSUME Core, NEW w \in visiting, clauses' = clauses,
           \/ watches' = watches
           \/ ~ (w.ref \in Live) /\ watches' = watches \ {w}
           \/ \E l \in clauses[w.ref].lits \ {w.lit} :
                  watches' = (watches \ {w}) \cup {[w EXCEPT !.imp = l]}
    PROVE  WatchesOK' /\ watches \ {w} \subseteq watches'
<1>1. Live' = Live /\ DOMAIN clauses' = DOMAIN clauses /\ clauses \in Seq(ClauseType)
  BY DEF Live, Core, ClausesOK
<1>2. WatchesOK /\ w \in watches /\ w \in WatchType /\ w.ref \in DOMAIN clauses
  BY VisitFacts DEF Core
<1>3. CASE watches' = watches
  BY <1>1, <1>2, <1>3 DEF WatchesOK
<1>4. CASE ~ (w.ref \in Live) /\ watches' = watches \ {w}
  <2>1. \A v \in watches' : v \in watches
    BY <1>4
  <2>2. ASSUME NEW r \in Live', NEW k \in clauses'[r].watched
        PROVE  \E v \in watches' : v.ref = r /\ v.lit = k
    <3>1. PICK v \in watches : v.ref = r /\ v.lit = k
      BY <1>1, <1>2, <2>2 DEF WatchesOK
    <3> QED
      BY <3>1, <1>1, <1>4, <2>2
  <2> QED
    BY <1>1, <1>2, <1>4, <2>1, <2>2 DEF WatchesOK
<1>5. ASSUME NEW l \in clauses[w.ref].lits \ {w.lit},
             watches' = (watches \ {w}) \cup {[w EXCEPT !.imp = l]}
      PROVE  WatchesOK' /\ watches \ {w} \subseteq watches'
  <2>1. PICK u : u = [w EXCEPT !.imp = l]
    OBVIOUS
  <2>2. l \in Lits
    <3>1. clauses[w.ref] \in ClauseType
      BY <1>1, <1>2
    <3> QED
      BY <3>1 DEF ClauseType
  <2>3. u \in WatchType /\ u.ref = w.ref /\ u.lit = w.lit /\ u.imp = l /\ u.binary = w.binary
    BY <1>2, <2>1, <2>2 DEF WatchType
  <2>4. watches' = (watches \ {w}) \cup {u}
    BY <1>5, <2>1
  <2>5. ASSUME NEW v \in watches'
        PROVE  /\ v \in WatchType /\ v.ref \in DOMAIN clauses'
               /\ v.lit \in clauses'[v.ref].watched /\ v.lit \in clauses'[v.ref].lits
               /\ v.imp \in clauses'[v.ref].lits \ {v.lit}
               /\ v.binary <=> Cardinality(clauses'[v.ref].lits) = 2
    <3>1. CASE v = u
      BY <3>1, <1>1, <1>2, <2>3 DEF WatchesOK
    <3>2. CASE v \in watches
      BY <3>2, <1>1, <1>2 DEF WatchesOK
    <3> QED
      BY <3>1, <3>2, <2>4
  <2>6. ASSUME NEW v \in watches', NEW x \in watches', v.ref = x.ref, v.lit = x.lit
        PROVE  v = x
    <3>1. CASE v = u /\ x \in watches \ {w}
      <4>1. x = w
        BY <3>1, <1>2, <2>3, <2>6 DEF WatchesOK
      <4> QED
        BY <4>1, <3>1
    <3>2. CASE x = u /\ v \in watches \ {w}
      <4>1. v = w
        BY <3>2, <1>2, <2>3, <2>6 DEF WatchesOK
      <4> QED
        BY <4>1, <3>2
    <3>3. CASE v \in watches /\ x \in watches
      BY <3>3, <1>2, <2>6 DEF WatchesOK
    <3> QED
      BY <3>1, <3>2, <3>3, <2>4
  <2>7. ASSUME NEW r \in Live', NEW k \in clauses'[r].watched
        PROVE  \E v \in watches' : v.ref = r /\ v.lit = k
    <3>1. PICK v \in watches : v.ref = r /\ v.lit = k
      BY <1>1, <1>2, <2>7 DEF WatchesOK
    <3>2. v = w => u.ref = r /\ u.lit = k
      BY <3>1, <2>3
    <3> QED
      BY <3>1, <3>2, <2>4
  <2> QED
    BY <2>4, <2>5, <2>6, <2>7 DEF WatchesOK
<1> QED
  BY <1>3, <1>4, <1>5

\* A visit that moves the watch to a literal that is not assigned.
LEMMA RewatchVisit ==
    ASSUME Core, NEW w, Visits(w), UNCHANGED <<conflict, pc, cnfstate, trail>>, Visited(w),
           ~ IsTrue(Other(w)), NEW l \in Unwatched(w), Unassigned(l),
           clauses' = [clauses EXCEPT ![w.ref].watched = {Other(w), l}],
           watches' = (watches \ {w})
               \cup {Watch(l, w.ref, Other(w), Cardinality(clauses[w.ref].lits))}
    PROVE  Core'
<1> DEFINE o == Other(w)
<1>1. w \in visiting /\ visiting' = (IF conflict' = NOREF THEN visiting \ {w} ELSE {})
      /\ UNCHANGED <<problem, opts, propagated, dlevels, uip, rested, reduced,
                     calls, assumptions, iconflict>>
  BY DEF Visits
<1>2. /\ TrailOK /\ DL \in 0 .. DL /\ ~ Analyzing /\ Propagating /\ conflict = NOREF
      /\ PositionsOK /\ WatchesOK /\ ClausesOK
  BY <1>1, Levels, VisitFacts, PositionsHold DEF Core
<1>3. TrailOK' /\ PositionsOK' /\ Moves(DL, {})
  BY <1>1, <1>2, UnchangedMoves, PositionsHoldAfter DEF TrailOK, DL
<1>4. /\ w \in watches /\ w \in WatchType /\ w.ref \in DOMAIN clauses /\ w.ref \in Live
      /\ clauses \in Seq(ClauseType) /\ clauses[w.ref] \in ClauseType
      /\ clauses[w.ref].watched = {w.lit, o} /\ o # w.lit /\ o \in Lits /\ o \in clauses[w.ref].lits
      /\ w.lit \in Lits /\ IsFalse(w.lit)
  BY <1>1, <1>2, VisitFacts DEF Visited, ClausesOK
<1>5. l \in clauses[w.ref].lits /\ l # w.lit /\ l # o /\ l \in Lits
  BY <1>4 DEF Unwatched, ClauseType
<1> HIDE DEF o
<1>6. /\ clauses' \in Seq(ClauseType) /\ DOMAIN clauses' = DOMAIN clauses
      /\ clauses'[w.ref].watched = {o, l} /\ clauses'[w.ref].lits = clauses[w.ref].lits
      /\ clauses'[w.ref].learnt = clauses[w.ref].learnt
      /\ clauses'[w.ref].deleted = clauses[w.ref].deleted
      /\ \A r \in DOMAIN clauses : r # w.ref => clauses'[r] = clauses[r]
  <2>1. [clauses[w.ref] EXCEPT !.watched = {o, l}] \in ClauseType
    BY <1>4, <1>5 DEF ClauseType
  <2>2. PICK c \in ClauseType : c = [clauses[w.ref] EXCEPT !.watched = {o, l}]
    BY <2>1
  <2>3. clauses' = [clauses EXCEPT ![w.ref] = c]
    BY <2>2 DEF o
  <2>4. /\ c.watched = {o, l} /\ c.lits = clauses[w.ref].lits /\ c.learnt = clauses[w.ref].learnt
        /\ c.deleted = clauses[w.ref].deleted
    BY <1>4, <2>2 DEF ClauseType
  <2>5. clauses' \in Seq(ClauseType) /\ DOMAIN clauses' = DOMAIN clauses /\ clauses'[w.ref] = c
        /\ \A r \in DOMAIN clauses : r # w.ref => clauses'[r] = clauses[r]
    BY <1>4, <2>3
  <2> QED
    BY <2>4, <2>5
<1>7. /\ \A r \in DOMAIN clauses : /\ clauses'[r].lits = clauses[r].lits
                                   /\ clauses'[r].deleted = clauses[r].deleted
                                   /\ clauses'[r].learnt = clauses[r].learnt
      /\ Live' = Live
  BY <1>6 DEF Live
<1>8. ClausesOK'
  <2>1. IsPair({o, l})
    BY <1>5 DEF IsPair
  <2>2. ASSUME NEW r \in Live
        PROVE  clauses'[r].watched \subseteq clauses'[r].lits /\ IsPair(clauses'[r].watched)
    <3>1. r \in DOMAIN clauses
      BY DEF Live
    <3>2. CASE r = w.ref
      BY <2>1, <3>2, <1>4, <1>5, <1>6
    <3>3. CASE r # w.ref
      BY <3>1, <3>3, <1>2, <1>6 DEF ClausesOK
    <3> QED
      BY <3>2, <3>3
  <2> QED
    BY <1>6, <1>7, <2>2 DEF ClausesOK
<1>9. PICK u : u = Watch(l, w.ref, o, Cardinality(clauses[w.ref].lits))
  OBVIOUS
<1>10. /\ watches' = (watches \ {w}) \cup {u}
       /\ u \in WatchType /\ u.ref = w.ref /\ u.lit = l /\ u.imp = o
       /\ u.binary <=> Cardinality(clauses[w.ref].lits) = 2
  BY <1>4, <1>5, <1>9 DEF Watch, WatchType, o
<1>11. WatchesOK'
  <2>1. ASSUME NEW v \in watches'
        PROVE  /\ v \in WatchType /\ v.ref \in DOMAIN clauses'
               /\ v.lit \in clauses'[v.ref].watched /\ v.lit \in clauses'[v.ref].lits
               /\ v.imp \in clauses'[v.ref].lits \ {v.lit}
               /\ v.binary <=> Cardinality(clauses'[v.ref].lits) = 2
    <3>1. CASE v = u
      BY <3>1, <1>4, <1>5, <1>6, <1>10
    <3>2. CASE v \in watches \ {w}
      <4>1. /\ v \in WatchType /\ v.ref \in DOMAIN clauses
            /\ v.lit \in clauses[v.ref].watched /\ v.lit \in clauses[v.ref].lits
            /\ v.imp \in clauses[v.ref].lits \ {v.lit}
            /\ v.binary <=> Cardinality(clauses[v.ref].lits) = 2
        BY <3>2, <1>2 DEF WatchesOK
      <4>2. v.lit \in clauses'[v.ref].watched
        <5>1. CASE v.ref = w.ref
          <6>1. v.lit # w.lit
            BY <3>2, <5>1, <1>2, <1>4 DEF WatchesOK
          <6> QED
            BY <4>1, <5>1, <6>1, <1>4, <1>6
        <5>2. CASE v.ref # w.ref
          BY <4>1, <5>2, <1>6
        <5> QED
          BY <5>1, <5>2
      <4> QED
        BY <4>1, <4>2, <1>6, <1>7
    <3> QED
      BY <3>1, <3>2, <1>10
  <2>2. ASSUME NEW v \in watches', NEW x \in watches', v.ref = x.ref, v.lit = x.lit
        PROVE  v = x
    <3>1. ASSUME NEW y \in watches, y.ref = u.ref PROVE y.lit # u.lit
      <4>1. y.lit \in clauses[w.ref].watched
        BY <3>1, <1>2, <1>10 DEF WatchesOK
      <4> QED
        BY <4>1, <1>4, <1>5, <1>10
    <3>2. CASE v \in watches /\ x \in watches
      BY <3>2, <1>2, <2>2 DEF WatchesOK
    <3> QED
      BY <3>1, <3>2, <2>2, <1>10
  <2>3. ASSUME NEW r \in Live, NEW k \in clauses'[r].watched
        PROVE  \E v \in watches' : v.ref = r /\ v.lit = k
    <3>1. r \in DOMAIN clauses
      BY DEF Live
    <3>2. CASE r = w.ref /\ k = l
      BY <3>2, <1>10
    <3>3. CASE ~ (r = w.ref /\ k = l)
      <4>1. k \in clauses[r].watched /\ ~ (r = w.ref /\ k = w.lit)
        BY <2>3, <3>1, <3>3, <1>4, <1>5, <1>6
      <4>2. PICK v \in watches : v.ref = r /\ v.lit = k
        BY <4>1, <2>3, <1>2 DEF WatchesOK
      <4> QED
        BY <4>1, <4>2, <1>10
    <3> QED
      BY <3>2, <3>3
  <2> QED
    BY <1>7, <2>1, <2>2, <2>3 DEF WatchesOK
<1>12. ReasonsOK'
  <2>1. ASSUME NEW k \in Lits, HasReason(k)
        PROVE  ReasonFor(k, SourceOf(k)) /\ KeepsReason(k)
    <3>1. ReasonFor(k, SourceOf(k))
      BY <2>1, <1>2, ReasonsAtRest DEF Core
    <3>2. PICK r : r = SourceOf(k)
      OBVIOUS
    <3>3. r \in Live /\ k \in clauses[r].watched /\ k \in Assigned
      BY <3>1, <3>2, <2>1 DEF ReasonFor, HasReason
    <3>4. r # w.ref
      <4>1. ASSUME r = w.ref PROVE FALSE
        <5>1. k = o
          <6>1. k # w.lit
            BY <3>3, <1>2, <1>4 DEF IsFalse, PositionsOK
          <6> QED
            BY <6>1, <3>3, <4>1, <1>4
        <5> QED
          BY <5>1, <3>3 DEF IsTrue, o
      <4> QED
        BY <4>1
    <3>5. clauses'[r] = clauses[r] /\ r \in Live'
      BY <3>3, <3>4, <1>6, <1>7 DEF Live
    <3> QED
      BY <3>1, <3>2, <3>3, <3>5 DEF KeepsReason
  <2>2. \A e \in {} : e.source # NOREF /\ e.level > 0 => ReasonFor(e.lit, e.source)'
    OBVIOUS
  <2> QED
    BY <1>2, <1>3, <2>1, <2>2, ReasonsMove
<1>13. Sound' /\ Complete'
  <2>1. ASSUME NEW r \in DOMAIN clauses', NEW m \in Models PROVE Satisfies(m, clauses'[r].lits)
    BY <1>6, <1>7 DEF Core, Sound, Satisfies
  <2>2. Sound'
    BY <1>1, <1>2, <1>3, <2>1, SoundMoves DEF Core
  <2>3. ASSUME NEW m \in Assignments, Roots \subseteq m,
               \A r \in Live' : ~ clauses'[r].learnt => Satisfies(m, clauses'[r].lits)
        PROVE  \A r \in Live : ~ clauses[r].learnt => Satisfies(m, clauses[r].lits)
    BY <1>7, <2>3 DEF Satisfies, Live
  <2>4. Complete'
    BY <1>1, <1>2, <1>3, <2>3, CompleteMoves DEF Core
  <2> QED
    BY <2>2, <2>4
<1>14. VisitingOK'
  BY <1>1, <1>10, VisitingOn
<1>15. ~ Analyzing'
  BY <1>2 DEF Analyzing
<1>16. AnalysisOK' /\ UipSound'
  BY <1>1, <1>15 DEF Core, AnalysisOK, UipSound, Analyzing
<1>17. RestOK'
  <2>1. ASSUME NEW k \in Lits, (k \in Assigned)' PROVE SourceOf(k)' \in {NOREF} \cup DOMAIN clauses'
    <3>1. SourceOf(k)' = SourceOf(k) /\ k \in Assigned
      BY <2>1 DEF Assigned, SourceOf, PositionOf
    <3> QED
      BY <3>1, <1>6 DEF Core, RestOK
  <2> QED
    BY <1>1, <1>6, <2>1 DEF Core, RestOK, Propagating
<1> QED
  BY <1>3, <1>8, <1>11, <1>12, <1>13, <1>14, <1>16, <1>17 DEF Core

\* Visiting a watch keeps the invariant, in each of the six ways it may go.
LEMMA VisitWatchKeeps == Core /\ VisitWatch => Core'
<1> SUFFICES ASSUME Core, VisitWatch PROVE Core'
  OBVIOUS
<1>1. PICK w \in visiting :
           /\ Visits(w)
           /\ \/ Satisfied(w) \/ ClauseDeleted(w) \/ VisitBinary(w)
              \/ OtherTrue(w) \/ FindLiteral(w) \/ OthersFalse(w)
  BY DEF VisitWatch, Visits, limits
<1>2. /\ TrailOK /\ PositionsOK /\ w.ref \in DOMAIN clauses /\ clauses[w.ref] \in ClauseType
      /\ w.ref \in Nat
      /\ w.lit \in clauses[w.ref].lits /\ w.imp \in clauses[w.ref].lits /\ w.lit # w.imp
      /\ w.lit \in Lits /\ w.imp \in Lits
      /\ IsFalse(w.lit) /\ ~ Unassigned(w.lit) /\ LevelOf(w.lit) \in 0 .. DL
      /\ w.binary => clauses[w.ref].lits = {w.lit, w.imp}
      /\ ~ clauses[w.ref].deleted =>
             /\ w.ref \in Live /\ Other(w) \in clauses[w.ref].lits /\ Other(w) # w.lit
             /\ clauses[w.ref].watched = {w.lit, Other(w)} /\ Other(w) \in Lits
  BY VisitFacts, PositionsHold DEF Core, WatchType
<1>3. CASE Satisfied(w)
  <2>1. watches' = watches /\ clauses' = clauses
    BY <1>3 DEF Satisfied
  <2> QED
    BY <1>1, <1>3, <2>1, BlockKeepsWatches, PassingVisit DEF Satisfied, Quiet
<1>4. CASE ClauseDeleted(w)
  <2>1. watches' = watches \ {w} /\ clauses' = clauses /\ ~ (w.ref \in Live)
    BY <1>4 DEF ClauseDeleted, Live
  <2> QED
    BY <1>1, <1>4, <2>1, BlockKeepsWatches, PassingVisit DEF ClauseDeleted, Quiet
<1>5. ASSUME NEW l \in clauses[w.ref].lits \ {w.lit}, Block(w, l) PROVE Core'
  <2>1. watches' = (watches \ {w}) \cup {[w EXCEPT !.imp = l]} /\ clauses' = clauses
    BY <1>5 DEF Block
  <2> QED
    BY <1>1, <1>5, <2>1, BlockKeepsWatches, PassingVisit DEF Block, Quiet
<1>6. CASE VisitBinary(w)
  <2>1. ~ IsTrue(w.imp) /\ w.ref \in Live /\ clauses[w.ref].lits = {w.lit, w.imp}
        /\ Other(w) = w.imp /\ clauses[w.ref].watched = {w.lit, w.imp}
    BY <1>2, <1>6 DEF VisitBinary
  <2>2. CASE IsFalse(w.imp)
    BY <1>1, <1>2, <1>6, <2>1, <2>2, ConflictingVisit DEF VisitBinary
  <2>3. CASE ~ IsFalse(w.imp)
    <3>1. PICK e : e = Entry(w.imp, LevelOf(w.lit), w.ref)
      OBVIOUS
    <3>2. e.lit = w.imp /\ e.level = LevelOf(w.lit) /\ e.source = w.ref /\ e \in EntryType
      BY <3>1, <1>2 DEF Entry, EntryType
    <3>3. trail' = Append(trail, e) /\ UNCHANGED <<conflict, pc, cnfstate, clauses, watches>>
      BY <1>6, <2>3, <3>1 DEF VisitBinary, Quiet
    <3>4. Unassigned(e.lit) /\ e.level <= DL
      BY <1>2, <2>1, <2>3, <3>2 DEF Unassigned, IsTrue, IsFalse
    <3>5. \A k \in clauses[w.ref].lits \ {e.lit} : IsFalse(k) /\ LevelOf(k) <= e.level
      BY <1>2, <2>1, <3>2
    <3> QED
      BY <1>1, <2>1, <3>2, <3>3, <3>4, <3>5, ImplyingVisit
  <2> QED
    BY <2>2, <2>3
<1>7. CASE OtherTrue(w)
  <2>1. Other(w) \in clauses[w.ref].lits \ {w.lit}
    BY <1>2, <1>7 DEF OtherTrue, Visited
  <2> QED
    BY <1>5, <1>7, <2>1 DEF OtherTrue
<1>8. CASE FindLiteral(w)
  <2>1. Visited(w) /\ ~ IsTrue(Other(w)) /\ clauses[w.ref].watched = {w.lit, Other(w)}
    BY <1>2, <1>8 DEF FindLiteral, Visited
  <2>2. PICK l \in Unwatched(w) :
           \/ Block(w, l)
           \/ /\ Unassigned(l)
              /\ clauses' = [clauses EXCEPT ![w.ref].watched = {Other(w), l}]
              /\ watches' = (watches \ {w})
                     \cup {Watch(l, w.ref, Other(w), Cardinality(clauses[w.ref].lits))}
              /\ Quiet /\ UNCHANGED trail
    BY <1>8 DEF FindLiteral
  <2>3. l \in clauses[w.ref].lits \ {w.lit}
    BY <2>1, <2>2 DEF Unwatched
  <2>4. CASE Block(w, l)
    BY <1>5, <2>3, <2>4
  <2>5. CASE ~ Block(w, l)
    BY <1>1, <2>1, <2>2, <2>5, RewatchVisit DEF Quiet
  <2> QED
    BY <2>4, <2>5
<1>9. CASE OthersFalse(w)
  <2>1. /\ Visited(w) /\ ~ IsTrue(Other(w)) /\ w.ref \in Live
        /\ clauses[w.ref].watched = {w.lit, Other(w)} /\ Other(w) \in clauses[w.ref].lits
        /\ Other(w) \in Lits /\ \A l \in Unwatched(w) : IsFalse(l)
    BY <1>2, <1>9 DEF OthersFalse, Visited
  <2>2. \A k \in clauses[w.ref].lits \ {Other(w)} : IsFalse(k) /\ k \in Lits
    BY <1>2, <2>1 DEF Unwatched, ClauseType
  <2>3. CASE IsFalse(Other(w))
    BY <1>1, <1>9, <2>1, <2>2, <2>3, ConflictingVisit DEF OthersFalse
  <2>4. CASE ~ IsFalse(Other(w))
    <3>1. PICK s : s = clauses[w.ref].lits \ {Other(w)}
      OBVIOUS
    <3>2. s \in SUBSET Lits /\ \A l \in s : ~ Unassigned(l)
      BY <2>2, <3>1 DEF Unassigned, IsFalse
    <3>3. Highest(s) \in 0 .. DL /\ \A l \in s : LevelOf(l) <= Highest(s)
      BY <1>2, <3>2, HighestFacts
    <3>4. PICK e : e = Entry(Other(w), Highest(s), w.ref)
      OBVIOUS
    <3>5. e.lit = Other(w) /\ e.level = Highest(s) /\ e.source = w.ref /\ e \in EntryType
      BY <1>2, <2>1, <3>3, <3>4 DEF Entry, EntryType
    <3>6. trail' = Append(trail, e) /\ UNCHANGED <<conflict, pc, cnfstate, clauses, watches>>
      BY <1>9, <2>4, <3>1, <3>4 DEF OthersFalse, Quiet, Implied
    <3>7. Unassigned(e.lit) /\ e.level <= DL /\ e.lit \in clauses[w.ref].watched
      BY <1>2, <2>1, <2>4, <3>3, <3>5, Levels DEF Unassigned, IsTrue, IsFalse
    <3>8. \A k \in clauses[w.ref].lits \ {e.lit} : IsFalse(k) /\ LevelOf(k) <= e.level
      BY <2>2, <3>1, <3>3, <3>5
    <3> QED
      BY <1>1, <2>1, <3>5, <3>6, <3>7, <3>8, ImplyingVisit
  <2> QED
    BY <2>3, <2>4
<1> QED
  BY <1>1, <1>3, <1>4, <1>6, <1>7, <1>8, <1>9

\* When the trail moves, sources are clauses if those of the new entries are.
LEMMA SourcesMove ==
    ASSUME TrailOK, PositionsOK', NEW j \in 0 .. DL, NEW new, Moves(j, new),
           NEW refs, \A l \in Lits : l \in Assigned => SourceOf(l) \in refs,
           \A e \in new : e.source \in refs
    PROVE  \A l \in Lits : l \in Assigned' => SourceOf(l)' \in refs
<1>1. PositionsOK
  BY PositionsHold
<1>2. SUFFICES ASSUME NEW l \in Lits, l \in Assigned' PROVE SourceOf(l)' \in refs
  OBVIOUS
<1>3. CASE \E e \in new : l = e.lit
  BY <1>3 DEF Moves
<1>4. CASE ~ \E e \in new : l = e.lit
  <2>1. l \in Assigned /\ LevelOf(l) <= j
    BY <1>1, <1>2, <1>4, MovesKeeps DEF IsTrue
  <2>2. SourceOf(l)' = SourceOf(l)
    BY <2>1, <1>1, MovesKeeps DEF Unassigned
  <2> QED
    BY <2>1, <2>2
<1> QED
  BY <1>3, <1>4

\* Nothing in the clauses changes but which literals are watched.
SameLits ==
    /\ clauses' \in Seq(ClauseType) /\ DOMAIN clauses' = DOMAIN clauses
    /\ \A r \in DOMAIN clauses : /\ clauses'[r].lits = clauses[r].lits
                                 /\ clauses'[r].learnt = clauses[r].learnt
                                 /\ clauses'[r].deleted = clauses[r].deleted

\* The database is as sound and complete as before if the clauses keep their literals.
LEMMA SameLitsKeeps ==
    ASSUME Core, TrailOK', NEW j \in 0 .. DL, NEW new, Moves(j, new),
           problem' = problem, SameLits,
           \A e \in new : e.source \in {NOREF} \cup DOMAIN clauses,
           \A e \in new : e.level = 0 => \A m \in Models : e.lit \in m
    PROVE  /\ Sound' /\ Complete' /\ Live' = Live
           /\ \A l \in Lits : l \in Assigned' => SourceOf(l)' \in {NOREF} \cup DOMAIN clauses'
<1>1. TrailOK /\ PositionsOK' /\ Sound /\ Complete
  BY PositionsHoldAfter DEF Core
<1>2. Live' = Live /\ DOMAIN clauses' = DOMAIN clauses
  BY DEF SameLits, Live
<1>3. Sound'
  <2>1. ASSUME NEW r \in DOMAIN clauses', NEW m \in Models PROVE Satisfies(m, clauses'[r].lits)
    BY <1>1 DEF SameLits, Sound, Satisfies
  <2> QED
    BY <1>1, <2>1, SoundMoves
<1>4. Complete'
  <2>1. ASSUME NEW m \in Assignments, Roots \subseteq m,
               \A r \in Live' : ~ clauses'[r].learnt => Satisfies(m, clauses'[r].lits)
        PROVE  \A r \in Live : ~ clauses[r].learnt => Satisfies(m, clauses[r].lits)
    BY <1>2, <2>1 DEF SameLits, Satisfies, Live
  <2> QED
    BY <1>1, <2>1, CompleteMoves
<1>5. \A l \in Lits : l \in Assigned => SourceOf(l) \in {NOREF} \cup DOMAIN clauses
  BY DEF Core, RestOK
<1>6. \A l \in Lits : l \in Assigned' => SourceOf(l)' \in {NOREF} \cup DOMAIN clauses
  BY <1>1, <1>5, SourcesMove
<1> QED
  BY <1>2, <1>3, <1>4, <1>6

\* The analysis begins with a clause that is false, and true in all models.
LEMMA StartUipKeeps ==
    ASSUME Core, TrailOK', NEW j \in 0 .. DL, Moves(j, {}), problem' = problem,
           pc = "analyze", conflict' = conflict, StartUip, conflict \in Live',
           clauses'[conflict].lits = clauses[conflict].lits,
           \A l \in clauses[conflict].lits : LevelOf(l) <= j
    PROVE  AnalysisOK' /\ UipSound'
<1>1. TrailOK /\ PositionsOK /\ PositionsOK'
  BY PositionsHold, PositionsHoldAfter DEF Core
<1>2. conflict \in Live /\ clauses[conflict].lits \subseteq Lits
      /\ \A l \in clauses[conflict].lits : IsFalse(l) /\ ~ Unassigned(l)
  <2>1. conflict \in Live /\ \A l \in clauses[conflict].lits : IsFalse(l)
    BY DEF Core, AnalysisOK, Analyzing
  <2>2. conflict \in DOMAIN clauses
    BY <2>1 DEF Live
  <2>3. clauses[conflict] \in ClauseType
    BY <2>2 DEF Core, ClausesOK
  <2> QED
    BY <2>1, <2>3 DEF ClauseType, Unassigned, IsFalse
<1>3. PICK c : c = clauses[conflict].lits
  OBVIOUS
<1>4. \A l \in c : IsFalse(l)' /\ LevelOf(l)' = LevelOf(l) /\ l \in Lits
  BY <1>1, <1>2, <1>3, MovesKeeps
<1>5. uip'.seen = NonRoot(c) /\ uip'.resolved = {} /\ pc' = "uip"
  BY <1>3 DEF StartUip
<1>6. NonRoot(c)' = NonRoot(c)
  BY <1>4 DEF NonRoot
<1>7. AnalysisOK'
  <2>1. clauses'[conflict'].lits = c
    BY <1>3
  <2>2. NonRoot(clauses[conflict].lits)' = uip'.seen
    <3>1. NonRoot(clauses[conflict].lits)' = {l \in c : LevelOf(l)' > 0}
      BY <2>1 DEF NonRoot
    <3> QED
      BY <3>1, <1>5, <1>6 DEF NonRoot
  <2>3. \A l \in uip'.seen : IsFalse(l)' /\ LevelOf(l)' > 0 /\ l \in Lits
    BY <1>4, <1>5 DEF NonRoot
  <2> QED
    BY <1>5, <2>2, <2>3 DEF AnalysisOK, Analyzing
<1>8. ASSUME NEW m \in Models PROVE Satisfies(m, Resolvent')
  <2>1. Roots \subseteq m /\ c \cap m # {} /\ m \in Assignments
    <3>1. conflict \in DOMAIN clauses
      BY <1>2 DEF Live
    <3> QED
      BY <1>3, <1>8, <3>1, ModelFacts DEF Core, Sound, Satisfies
  <2>2. PICK x \in c : x \in m
    BY <2>1
  <2>3. LevelOf(x) # 0
    BY <1>1, <1>2, <1>3, <2>1, <2>2, RootFalseInModels
  <2>4. LevelOf(x) > 0
    BY <1>1, <1>2, <1>3, <2>2, <2>3 DEF PositionsOK
  <2>5. x \in Resolvent'
    BY <1>5, <2>2, <2>4 DEF Resolvent, NonRoot
  <2> QED
    BY <2>2, <2>5 DEF Satisfies
<1>9. Models' = Models
  BY DEF Models
<1> QED
  BY <1>7, <1>8, <1>9 DEF UipSound, Satisfies

-----------------------------------------------------------------------------
(***************************************************************************)
(* Conflicts, and their analysis.                                          *)
(***************************************************************************)
\* What is known of the conflict when the analysis begins.
LEMMA ConflictFacts ==
    ASSUME Core, Analyzing
    PROVE  /\ conflict \in Live /\ conflict \in DOMAIN clauses /\ conflict # NOREF
           /\ clauses[conflict] \in ClauseType /\ clauses[conflict].lits \in SUBSET Lits
           /\ clauses[conflict].watched \subseteq clauses[conflict].lits
           /\ IsPair(clauses[conflict].watched)
           /\ visiting = {}
           /\ pc = "analyze" => \A l \in clauses[conflict].lits : IsFalse(l) /\ ~ Unassigned(l)
<1>1. conflict \in Live /\ (pc = "analyze" => \A l \in clauses[conflict].lits : IsFalse(l))
  BY DEF Core, AnalysisOK
<1>2. conflict \in DOMAIN clauses /\ clauses \in Seq(ClauseType)
  BY <1>1 DEF Live, Core, ClausesOK
<1>3. clauses[conflict] \in ClauseType /\ conflict # NOREF
  BY <1>2 DEF NOREF
<1>4. visiting = {}
  BY IdleNotVisiting DEF Analyzing, Propagating
<1>5. clauses[conflict].watched \subseteq clauses[conflict].lits /\ IsPair(clauses[conflict].watched)
  BY <1>1 DEF Core, ClausesOK
<1> QED
  BY <1>1, <1>2, <1>3, <1>4, <1>5 DEF ClauseType, IsFalse, Unassigned

\* Starting the analysis of a conflict keeps the invariant.
LEMMA AnalyzeKeeps == Core /\ Analyze => Core'
<1> SUFFICES ASSUME Core, Analyze PROVE Core'
  OBVIOUS
<1>1. /\ pc = "analyze" /\ rested' = FALSE
      /\ UNCHANGED <<problem, opts, clauses, watches, trail, propagated, dlevels, visiting,
                     conflict, reduced, calls, assumptions, iconflict>>
      /\ \/ DL = 0 /\ pc' = "idle" /\ cnfstate' = "unsat" /\ uip' = uip
         \/ DL # 0 /\ pc' = "uip" /\ StartUip /\ cnfstate' = cnfstate
  BY DEF Analyze, Answer, StartUip, search
<1>2. TrailOK /\ PositionsOK /\ DL \in 0 .. DL /\ DL \in Nat /\ Analyzing
  BY <1>1, Levels, PositionsHold DEF Core, Analyzing
<1>3. TrailOK' /\ Moves(DL, {}) /\ DL' = DL /\ PositionsOK'
  BY <1>1, <1>2, UnchangedMoves, PositionsHoldAfter DEF TrailOK, DL
<1>4. conflict \in Live /\ visiting = {}
      /\ clauses[conflict].lits \in SUBSET Lits
      /\ \A l \in clauses[conflict].lits : IsFalse(l) /\ ~ Unassigned(l)
  BY <1>1, <1>2, ConflictFacts
<1>5. SameLits
  BY <1>1 DEF SameLits, Core, ClausesOK
<1>6. /\ Sound' /\ Complete' /\ Live' = Live
      /\ \A l \in Lits : l \in Assigned' => SourceOf(l)' \in {NOREF} \cup DOMAIN clauses'
  BY <1>1, <1>2, <1>3, <1>5, SameLitsKeeps
<1>7. ClausesOK' /\ WatchesOK'
  BY <1>1, <1>6 DEF Core, ClausesOK, WatchesOK
<1>8. VisitingOK'
  BY <1>1, <1>4 DEF VisitingOK
<1>9. RestOK'
  BY <1>1, <1>6 DEF Core, RestOK, Propagating
<1>10. ASSUME NEW l \in Lits, HasReason(l)
       PROVE  (ReasonFor(l, SourceOf(l)) /\ KeepsReason(l)) \/ Spent(l)'
  <2>1. CASE ReasonFor(l, SourceOf(l))
    BY <1>1, <1>6, <2>1 DEF KeepsReason, ReasonFor
  <2>2. CASE Spent(l)
    <3>1. /\ LevelOf(l) = DL
          /\ \A k \in clauses[conflict].lits : PositionOf(k) < PositionOf(l)
          /\ \E k \in clauses[conflict].lits : LevelOf(k) = DL
      BY <1>1, <2>2 DEF Spent, Pivots
    <3>2. DL > 0 /\ StartUip /\ pc' = "uip"
      <4>1. DL # 0
        BY <1>2, <1>10, <3>1 DEF HasReason
      <4> QED
        BY <1>1, <1>2, <4>1
    <3>3. uip'.seen = NonRoot(clauses[conflict].lits)
      BY <3>2 DEF StartUip
    <3>4. Pivots' = NonRoot(clauses[conflict].lits)
      BY <3>2, <3>3 DEF Pivots
    <3>5. \A k : LevelOf(k)' = LevelOf(k) /\ PositionOf(k)' = PositionOf(k)
      BY <1>1 DEF LevelOf, PositionOf
    <3>6. \E k \in NonRoot(clauses[conflict].lits) : LevelOf(k) = DL
      BY <3>1, <3>2 DEF NonRoot
    <3>7. \A k \in NonRoot(clauses[conflict].lits) : PositionOf(k) < PositionOf(l)
      BY <3>1 DEF NonRoot
    <3>8. Analyzing'
      BY <3>2 DEF Analyzing
    <3> QED
      BY <1>3, <3>1, <3>4, <3>5, <3>6, <3>7, <3>8 DEF Spent
  <2> QED
    BY <1>10, <2>1, <2>2 DEF Core, ReasonsOK
<1>11. ReasonsOK'
  <2>1. ClausesOK
    BY DEF Core
  <2>2. \A e \in {} : e.source # NOREF /\ e.level > 0 => ReasonFor(e.lit, e.source)'
    OBVIOUS
  <2> QED
    BY <1>2, <1>3, <1>10, <2>1, <2>2, ReasonsMove
<1>12. AnalysisOK' /\ UipSound'
  <2>1. CASE pc' = "idle"
    <3>1. uip' = uip
      BY <1>1, <2>1
    <3> QED
      BY <2>1, <3>1 DEF Core, AnalysisOK, UipSound, Analyzing
  <2>2. CASE pc' # "idle"
    <3>1. StartUip /\ conflict \in Live' /\ clauses'[conflict].lits = clauses[conflict].lits
      BY <1>1, <1>4, <1>6, <2>2
    <3>2. \A l \in clauses[conflict].lits : LevelOf(l) <= DL
      BY <1>2, <1>4, Levels
    <3> QED
      BY <1>1, <1>2, <1>3, <3>1, <3>2, StartUipKeeps
  <2> QED
    BY <2>1, <2>2
<1> QED
  BY <1>3, <1>6, <1>7, <1>8, <1>9, <1>11, <1>12 DEF Core

\* No other literal has a higher level than the two that chronoAnalyze watches.
LEMMA TopPairFacts ==
    ASSUME NEW c \in ClauseType, c.watched \subseteq c.lits, IsPair(c.watched),
           NEW pair \in TopPairs(c)
    PROVE  /\ pair \in SUBSET c.lits /\ IsPair(pair)
           /\ \A l \in c.lits \ pair, k \in pair : LevelOf(l) <= LevelOf(k)
<1> DEFINE Top(p) == \A l \in c.lits \ p, k \in p : LevelOf(l) <= LevelOf(k)
<1>1. TopPairs(c) = IF Top(c.watched) THEN {c.watched}
                    ELSE {p \in SUBSET c.lits : Cardinality(p) = 2 /\ Top(p)}
  BY DEF TopPairs
<1>2. c.lits \in SUBSET Lits
  BY DEF ClauseType
<1> HIDE DEF Top
<1>3. CASE Top(c.watched)
  <2>1. pair = c.watched
    BY <1>1, <1>3
  <2>2. pair \in SUBSET c.lits /\ IsPair(pair) /\ Top(pair)
    BY <1>3, <2>1
  <2> QED
    BY <2>2 DEF Top
<1>4. CASE ~ Top(c.watched)
  <2>1. pair \in SUBSET c.lits /\ Cardinality(pair) = 2 /\ Top(pair)
    BY <1>1, <1>4
  <2>2. pair \in SUBSET Lits
    BY <1>2, <2>1
  <2>3. IsPair(pair)
    BY <2>1, <2>2, Pairs
  <2> QED
    BY <2>1, <2>3 DEF Top
<1> QED
  BY <1>3, <1>4

\* The watches, when r watches pair.
TopWatches(r, lits, pair, imps) ==
    {w \in watches : w.ref = r => w.lit \in pair}
        \cup {Watch(l, r, imps[l], Cardinality(lits)) : l \in DOMAIN imps}

\* chronoAnalyze may watch two others of the literals of the conflict.
LEMMA TopWatchesKept ==
    ASSUME Core, NEW r \in Live, NEW pair \in SUBSET clauses[r].lits, IsPair(pair),
           NEW imps \in [pair \ clauses[r].watched -> pair \cup clauses[r].watched],
           \A l \in DOMAIN imps : imps[l] # l,
           clauses' = [clauses EXCEPT ![r].watched = pair],
           watches' = TopWatches(r, clauses[r].lits, pair, imps)
    PROVE  /\ SameLits /\ Live' = Live /\ ClausesOK' /\ WatchesOK'
           /\ clauses'[r].watched = pair
           /\ \A q \in DOMAIN clauses : q # r => clauses'[q] = clauses[q]
<1>1. /\ r \in DOMAIN clauses /\ clauses \in Seq(ClauseType) /\ WatchesOK
      /\ \A q \in Live : clauses[q].watched \subseteq clauses[q].lits /\ IsPair(clauses[q].watched)
  BY DEF Live, Core, ClausesOK
<1>2. clauses[r] \in ClauseType /\ r \in Nat /\ clauses[r].lits \in SUBSET Lits
      /\ clauses[r].watched \subseteq clauses[r].lits
  <2>1. clauses[r] \in ClauseType /\ r \in Nat
    BY <1>1
  <2> QED
    BY <1>1, <2>1 DEF ClauseType
<1>3. [clauses[r] EXCEPT !.watched = pair] \in ClauseType
  BY <1>2 DEF ClauseType
<1>4. PICK c \in ClauseType : c = [clauses[r] EXCEPT !.watched = pair]
  BY <1>3
<1>5. clauses' = [clauses EXCEPT ![r] = c]
  BY <1>4
<1>6. c.watched = pair /\ c.lits = clauses[r].lits /\ c.learnt = clauses[r].learnt
      /\ c.deleted = clauses[r].deleted
  BY <1>2, <1>4 DEF ClauseType
<1>7. clauses' \in Seq(ClauseType) /\ DOMAIN clauses' = DOMAIN clauses /\ clauses'[r] = c
      /\ \A q \in DOMAIN clauses : q # r => clauses'[q] = clauses[q]
  BY <1>1, <1>5
<1>8. SameLits
  BY <1>6, <1>7 DEF SameLits
<1>9. Live' = Live
  BY <1>8 DEF Live, SameLits
<1>10. ClausesOK'
  <2>1. ASSUME NEW q \in Live
        PROVE  clauses'[q].watched \subseteq clauses'[q].lits /\ IsPair(clauses'[q].watched)
    <3>1. CASE q = r
      BY <3>1, <1>6, <1>7
    <3>2. CASE q # r
      BY <3>2, <1>1, <1>7 DEF Live
    <3> QED
      BY <3>1, <3>2
  <2> QED
    BY <1>7, <1>9, <2>1 DEF ClausesOK
<1>11. /\ DOMAIN imps = pair \ clauses[r].watched
       /\ \A l \in DOMAIN imps : l \in Lits /\ imps[l] \in clauses[r].lits /\ imps[l] \in Lits
  BY <1>2
<1>12. ASSUME NEW l \in DOMAIN imps, NEW u, u = Watch(l, r, imps[l], Cardinality(clauses[r].lits))
       PROVE  /\ u \in WatchType /\ u.ref = r /\ u.lit = l /\ u.imp = imps[l]
              /\ u.binary <=> Cardinality(clauses[r].lits) = 2
  BY <1>2, <1>11, <1>12 DEF Watch, WatchType
<1>13. PICK added : added = {Watch(l, r, imps[l], Cardinality(clauses[r].lits)) : l \in DOMAIN imps}
  OBVIOUS
<1>14. ASSUME NEW u \in added
       PROVE  \E l \in DOMAIN imps : u = Watch(l, r, imps[l], Cardinality(clauses[r].lits))
  BY <1>13
<1>t. watches' = {w \in watches : w.ref = r => w.lit \in pair} \cup added
  BY <1>13 DEF TopWatches
<1>15. ASSUME NEW w \in watches'
       PROVE  \/ w \in watches /\ (w.ref = r => w.lit \in pair)
              \/ w \in added
  BY <1>t
<1>16. WatchesOK'
  <2>1. ASSUME NEW v \in watches'
        PROVE  /\ v \in WatchType /\ v.ref \in DOMAIN clauses'
               /\ v.lit \in clauses'[v.ref].watched /\ v.lit \in clauses'[v.ref].lits
               /\ v.imp \in clauses'[v.ref].lits \ {v.lit}
               /\ v.binary <=> Cardinality(clauses'[v.ref].lits) = 2
    <3>1. CASE v \in added
      <4>1. PICK l \in DOMAIN imps : v = Watch(l, r, imps[l], Cardinality(clauses[r].lits))
        BY <3>1, <1>14
      <4>2. /\ v \in WatchType /\ v.ref = r /\ v.lit = l /\ v.imp = imps[l]
            /\ v.binary <=> Cardinality(clauses[r].lits) = 2
        BY <4>1, <1>12
      <4> QED
        BY <4>2, <1>1, <1>6, <1>7, <1>11
    <3>2. CASE v \in watches /\ (v.ref = r => v.lit \in pair)
      <4>1. /\ v \in WatchType /\ v.ref \in DOMAIN clauses
            /\ v.lit \in clauses[v.ref].watched /\ v.lit \in clauses[v.ref].lits
            /\ v.imp \in clauses[v.ref].lits \ {v.lit}
            /\ v.binary <=> Cardinality(clauses[v.ref].lits) = 2
        BY <3>2, <1>1 DEF WatchesOK
      <4>2. v.lit \in clauses'[v.ref].watched
        BY <3>2, <4>1, <1>6, <1>7
      <4>3. clauses'[v.ref].lits = clauses[v.ref].lits
        BY <4>1, <1>8 DEF SameLits
      <4> QED
        BY <4>1, <4>2, <4>3, <1>7
    <3> QED
      BY <3>1, <3>2, <1>15
  <2>2. ASSUME NEW v \in added PROVE v.ref = r /\ v.lit \notin clauses[r].watched
    BY <2>2, <1>11, <1>12, <1>14
  <2>3. ASSUME NEW v \in watches, v.ref = r PROVE v.lit \in clauses[r].watched
    BY <2>3, <1>1 DEF WatchesOK
  <2>4. ASSUME NEW v \in watches', NEW x \in watches', v.ref = x.ref, v.lit = x.lit
        PROVE  v = x
    <3>1. CASE v \in added /\ x \in added
      <4>1. PICK l \in DOMAIN imps : v = Watch(l, r, imps[l], Cardinality(clauses[r].lits))
        BY <3>1, <1>14
      <4>2. PICK k \in DOMAIN imps : x = Watch(k, r, imps[k], Cardinality(clauses[r].lits))
        BY <3>1, <1>14
      <4>3. v.lit = l /\ x.lit = k
        BY <4>1, <4>2, <1>12
      <4> QED
        BY <4>1, <4>2, <4>3, <2>4
    <3>2. CASE v \in watches /\ x \in watches
      BY <3>2, <2>4, <1>1 DEF WatchesOK
    <3> QED
      BY <3>1, <3>2, <2>2, <2>3, <2>4, <1>15
  <2>5. ASSUME NEW q \in Live, NEW k \in clauses'[q].watched
        PROVE  \E v \in watches' : v.ref = q /\ v.lit = k
    <3>1. CASE q = r /\ k \notin clauses[r].watched
      <4>1. k \in DOMAIN imps
        BY <2>5, <3>1, <1>6, <1>7, <1>11
      <4>2. PICK u : u = Watch(k, r, imps[k], Cardinality(clauses[r].lits))
        OBVIOUS
      <4>3. u \in watches'
        BY <4>1, <4>2, <1>13, <1>t
      <4> QED
        BY <3>1, <4>1, <4>2, <4>3, <1>12
    <3>2. CASE ~ (q = r /\ k \notin clauses[r].watched)
      <4>1. k \in clauses[q].watched /\ (q = r => k \in pair)
        BY <2>5, <3>2, <1>6, <1>7 DEF Live
      <4>2. PICK v \in watches : v.ref = q /\ v.lit = k
        BY <2>5, <4>1, <1>1 DEF WatchesOK
      <4> QED
        BY <4>1, <4>2, <1>t
    <3> QED
      BY <3>1, <3>2
  <2> QED
    BY <1>9, <2>1, <2>4, <2>5 DEF WatchesOK
<1> QED
  BY <1>6, <1>7, <1>8, <1>9, <1>10, <1>16

\* What chronoAnalyze does when the conflict is not one of level 0.
LEMMA ChronoFacts ==
    ASSUME Core, ChronoAnalyze, Highest(clauses[conflict].lits) # 0
    PROVE  LET c     == clauses[conflict]
               level == Highest(c.lits)
           IN /\ level \in 1 .. DL
              /\ \A l \in c.lits : IsFalse(l) /\ ~ Unassigned(l) /\ l \in Lits /\ LevelOf(l) <= level
              /\ \E pair :
                     /\ \A l \in c.lits \ pair, k \in pair : LevelOf(l) <= LevelOf(k)
                     /\ clauses'[conflict].watched = pair
                     /\ pair \in SUBSET c.lits /\ IsPair(pair)
              /\ SameLits /\ Live' = Live /\ ClausesOK' /\ WatchesOK'
              /\ \A q \in DOMAIN clauses : q # conflict => clauses'[q] = clauses[q]
              /\ \/ \E l \in c.lits :
                        /\ LevelOf(l) = level /\ \A k \in c.lits \ {l} : LevelOf(k) <= level - 1
                        /\ Backtrack(level - 1, <<Implied(l, conflict)>>)
                        /\ conflict' = NOREF /\ pc' = "search" /\ uip' = uip
                 \/ /\ Backtrack(level, <<>>) /\ StartUip /\ pc' = "uip" /\ conflict' = conflict
                    /\ \A l \in c.lits : LevelOf(l) = level =>
                           \E k \in c.lits \ {l} : LevelOf(k) = level
              /\ cnfstate' = cnfstate
<1>1. PICK c : c = clauses[conflict]
  OBVIOUS
<1>2. PICK level : level = Highest(c.lits)
  OBVIOUS
<1>3. PICK top : top = {l \in c.lits : LevelOf(l) = level}
  OBVIOUS
<1> DEFINE c0 == clauses[conflict]
           level0 == Highest(c0.lits)
           top0 == {l \in c0.lits : LevelOf(l) = level0}
<1>a. /\ pc = "analyze" /\ cnfstate' = cnfstate
      /\ \E pair \in TopPairs(c0) :
             \E imps \in [pair \ c0.watched -> pair \cup c0.watched] :
                /\ \A l \in DOMAIN imps : imps[l] # l
                /\ clauses' = [clauses EXCEPT ![conflict].watched = pair]
                /\ watches' = TopWatches(conflict, c0.lits, pair, imps)
      /\ IF Cardinality(top0) = 1
         THEN /\ \E l \in top0 : Backtrack(level0 - 1, <<Implied(l, conflict)>>)
              /\ conflict' = NOREF
              /\ pc' = "search"
              /\ UNCHANGED uip
         ELSE /\ Backtrack(level0, <<>>)
              /\ StartUip
              /\ UNCHANGED conflict
  <2>1. \/ level0 = 0
        \/ /\ level0 > 0
           /\ \E pair \in TopPairs(c0) :
                  \E imps \in [pair \ c0.watched -> pair \cup c0.watched] :
                     /\ \A l \in DOMAIN imps : imps[l] # l
                     /\ clauses' = [clauses EXCEPT ![conflict].watched = pair]
                     /\ watches' = TopWatches(conflict, c0.lits, pair, imps)
           /\ IF Cardinality(top0) = 1
              THEN /\ \E l \in top0 : Backtrack(level0 - 1, <<Implied(l, conflict)>>)
                   /\ conflict' = NOREF
                   /\ pc' = "search"
                   /\ UNCHANGED uip
              ELSE /\ Backtrack(level0, <<>>)
                   /\ StartUip
                   /\ UNCHANGED conflict
           /\ UNCHANGED cnfstate
    BY Zenon DEF ChronoAnalyze, TopWatches
  <2>2. pc = "analyze"
    BY DEF ChronoAnalyze
  <2> QED
    BY <2>1, <2>2
<1>b. c0 = c /\ level0 = level /\ top0 = top
  BY <1>1, <1>2, <1>3
<1> HIDE DEF c0, level0, top0
<1>4. /\ pc = "analyze" /\ cnfstate' = cnfstate
      /\ \E pair \in TopPairs(c) :
             \E imps \in [pair \ c.watched -> pair \cup c.watched] :
                /\ \A l \in DOMAIN imps : imps[l] # l
                /\ clauses' = [clauses EXCEPT ![conflict].watched = pair]
                /\ watches' = TopWatches(conflict, c.lits, pair, imps)
      /\ IF Cardinality(top) = 1
         THEN /\ \E l \in top : Backtrack(level - 1, <<Implied(l, conflict)>>)
              /\ conflict' = NOREF
              /\ pc' = "search"
              /\ UNCHANGED uip
         ELSE /\ Backtrack(level, <<>>)
              /\ StartUip
              /\ UNCHANGED conflict
  BY <1>a, <1>b
<1>5. /\ TrailOK /\ PositionsOK /\ Analyzing /\ conflict \in Live /\ c \in ClauseType
      /\ c.watched \subseteq c.lits /\ IsPair(c.watched) /\ c.lits \in SUBSET Lits
      /\ \A l \in c.lits : IsFalse(l) /\ ~ Unassigned(l)
  <2>1. Analyzing
    BY <1>4 DEF Analyzing
  <2> QED
    BY <1>1, <1>4, <2>1, ConflictFacts, PositionsHold DEF Core
<1>6. level \in 0 .. DL /\ \A l \in c.lits : LevelOf(l) <= level
  BY <1>2, <1>5, HighestFacts
<1>7. level # 0 /\ DL \in Nat
  BY <1>1, <1>2, <1>5, Levels
<1>8. level \in 1 .. DL
  BY <1>6, <1>7
<1>9. PICK pair \in TopPairs(c) :
             \E imps \in [pair \ c.watched -> pair \cup c.watched] :
                /\ \A l \in DOMAIN imps : imps[l] # l
                /\ clauses' = [clauses EXCEPT ![conflict].watched = pair]
                /\ watches' = TopWatches(conflict, c.lits, pair, imps)
  BY <1>4
<1>10. /\ pair \in SUBSET c.lits /\ IsPair(pair)
       /\ \A l \in c.lits \ pair, k \in pair : LevelOf(l) <= LevelOf(k)
  BY <1>5, <1>9, TopPairFacts
<1>11. PICK r : r = conflict
  OBVIOUS
<1>12. PICK imps \in [pair \ clauses[r].watched -> pair \cup clauses[r].watched] :
                /\ \A l \in DOMAIN imps : imps[l] # l
                /\ clauses' = [clauses EXCEPT ![r].watched = pair]
                /\ watches' = TopWatches(r, clauses[r].lits, pair, imps)
  BY <1>1, <1>9, <1>11
<1>13. /\ SameLits /\ Live' = Live /\ ClausesOK' /\ WatchesOK' /\ clauses'[r].watched = pair
       /\ \A q \in DOMAIN clauses : q # r => clauses'[q] = clauses[q]
  <2>1. r \in Live /\ pair \in SUBSET clauses[r].lits /\ IsPair(pair)
    BY <1>1, <1>5, <1>10, <1>11
  <2> QED
    BY <1>12, <2>1, TopWatchesKept, Zenon
<1>14. \/ \E l \in c.lits :
              /\ LevelOf(l) = level /\ \A k \in c.lits \ {l} : LevelOf(k) <= level - 1
              /\ Backtrack(level - 1, <<Implied(l, conflict)>>)
              /\ conflict' = NOREF /\ pc' = "search" /\ uip' = uip
       \/ /\ Backtrack(level, <<>>) /\ StartUip /\ pc' = "uip" /\ conflict' = conflict
          /\ \A l \in c.lits : LevelOf(l) = level => \E k \in c.lits \ {l} : LevelOf(k) = level
  <2>1. CASE Cardinality(top) = 1
    <3>1. PICK l \in top : Backtrack(level - 1, <<Implied(l, conflict)>>)
      BY <1>4, <2>1
    <3>2. top = {l}
      <4>1. top \in SUBSET Lits
        BY <1>3, <1>5
      <4>2. IsFiniteSet(top)
        BY <4>1, FiniteLits
      <4> QED
        BY <2>1, <3>1, <4>2, FS_Singleton
    <3>3. ASSUME NEW k \in c.lits \ {l} PROVE LevelOf(k) <= level - 1
      <4>1. LevelOf(k) # level
        BY <1>3, <3>2, <3>3
      <4>2. LevelOf(k) \in Nat /\ LevelOf(k) <= level
        BY <1>5, <1>6, <3>3 DEF PositionsOK
      <4> QED
        BY <1>6, <1>7, <4>1, <4>2
    <3>4. l \in c.lits /\ LevelOf(l) = level
      BY <1>3
    <3> QED
      BY <1>4, <2>1, <3>1, <3>3, <3>4
  <2>2. CASE Cardinality(top) # 1
    <3>1. ASSUME NEW l \in c.lits, LevelOf(l) = level, \A k \in c.lits \ {l} : LevelOf(k) # level
          PROVE  FALSE
      <4>1. top = {l}
        BY <1>3, <3>1
      <4> QED
        BY <2>2, <4>1, FS_Singleton
    <3> QED
      BY <1>4, <2>2, <3>1 DEF StartUip
  <2> QED
    BY <2>1, <2>2
<1>15. \A l \in c.lits : IsFalse(l) /\ ~ Unassigned(l) /\ l \in Lits /\ LevelOf(l) <= level
  BY <1>5, <1>6
<1> HIDE <1>1, <1>2
<1>16. /\ clauses[conflict] = c /\ Highest(c.lits) = level
  BY <1>1, <1>2
<1> QED
  BY <1>4, <1>8, <1>10, <1>11, <1>13, <1>14, <1>15, <1>16

\* chronoAnalyze keeps the invariant, whether it asserts a literal, starts the
\* analysis below DL, or ends the call.
LEMMA ChronoAnalyzeKeeps == Core /\ ChronoAnalyze => Core'
<1> SUFFICES ASSUME Core, ChronoAnalyze PROVE Core'
  OBVIOUS
<1>1. /\ pc = "analyze" /\ rested' = FALSE
      /\ UNCHANGED <<problem, opts, visiting, reduced, calls, assumptions, iconflict>>
  BY DEF ChronoAnalyze
<1>2. TrailOK /\ PositionsOK /\ DL \in 0 .. DL /\ DL \in Nat /\ Analyzing /\ ClausesOK
  BY <1>1, Levels, PositionsHold DEF Core, Analyzing
<1>3. PICK r : r = conflict
  OBVIOUS
<1>4. PICK lits : lits = clauses[r].lits
  OBVIOUS
<1>5. r \in Live /\ r \in DOMAIN clauses /\ r \in Nat /\ r # NOREF /\ visiting = {}
      /\ lits \in SUBSET Lits
      /\ \A l \in lits : IsFalse(l) /\ ~ Unassigned(l)
  BY <1>1, <1>2, <1>3, <1>4, ConflictFacts DEF ClausesOK
<1>6. PICK level : level = Highest(lits)
  OBVIOUS
<1>7. level \in 0 .. DL /\ \A l \in lits : LevelOf(l) <= level
  BY <1>2, <1>5, <1>6, HighestFacts
<1>8. VisitingOK'
  BY <1>1, <1>5 DEF VisitingOK
<1>9. ASSUME NEW l \in Lits, Spent(l)
      PROVE  /\ LevelOf(l) = DL /\ \A k \in lits : PositionOf(k) < PositionOf(l)
             /\ \E k \in lits : LevelOf(k) = DL
  BY <1>1, <1>3, <1>4, <1>9 DEF Spent, Pivots
<1>10. CASE level = 0 /\ ~ Analyzing' /\ pc' = "idle" /\ cnfstate' = "unsat"
            /\ UNCHANGED <<search, conflict, uip>>
  <2>1. UNCHANGED <<clauses, watches, trail, propagated, dlevels>> /\ SameLits
    BY <1>10 DEF search, SameLits, Core, ClausesOK
  <2>2. TrailOK' /\ Moves(DL, {})
    BY <1>2, <2>1, UnchangedMoves DEF TrailOK, DL
  <2>3. /\ Sound' /\ Complete' /\ Live' = Live
        /\ \A l \in Lits : l \in Assigned' => SourceOf(l)' \in {NOREF} \cup DOMAIN clauses'
    BY <1>1, <1>2, <2>1, <2>2, SameLitsKeeps
  <2>4. ClausesOK' /\ WatchesOK'
    BY <2>1, <2>3 DEF Core, ClausesOK, WatchesOK
  <2>5. RestOK'
    BY <1>1, <1>10, <2>1, <2>3 DEF Core, RestOK, Propagating
  <2>6. ASSUME NEW l \in Lits, HasReason(l)
        PROVE  ReasonFor(l, SourceOf(l)) /\ KeepsReason(l)
    <3>1. ~ Spent(l)
      <4>1. SUFFICES ASSUME Spent(l) PROVE FALSE
        OBVIOUS
      <4>2. PICK k \in lits : LevelOf(k) = DL
        BY <1>9, <4>1
      <4>3. LevelOf(l) = DL /\ DL <= 0
        BY <1>7, <1>9, <1>10, <4>1, <4>2
      <4> QED
        BY <1>2, <2>6, <4>3 DEF HasReason
    <3>2. ReasonFor(l, SourceOf(l))
      BY <2>6, <3>1 DEF Core, ReasonsOK
    <3> QED
      BY <2>1, <2>3, <3>2 DEF KeepsReason, ReasonFor
  <2>7. ReasonsOK'
    <3>1. \A e \in {} : e.source # NOREF /\ e.level > 0 => ReasonFor(e.lit, e.source)'
      OBVIOUS
    <3> QED
      BY <1>2, <2>2, <2>6, <3>1, ReasonsMove
  <2>8. AnalysisOK' /\ UipSound'
    <3>1. uip' = uip
      BY <1>10
    <3> QED
      BY <1>10, <3>1 DEF Core, AnalysisOK, UipSound, Analyzing
  <2> QED
    BY <1>8, <2>2, <2>3, <2>4, <2>5, <2>7, <2>8 DEF Core
<1>11. CASE level # 0
  <2>1. /\ level \in 1 .. DL
        /\ \E pair :
               /\ \A l \in lits \ pair, k \in pair : LevelOf(l) <= LevelOf(k)
               /\ clauses'[r].watched = pair
               /\ pair \in SUBSET lits /\ IsPair(pair)
        /\ SameLits /\ Live' = Live /\ ClausesOK' /\ WatchesOK'
        /\ \A q \in DOMAIN clauses : q # r => clauses'[q] = clauses[q]
        /\ \/ \E l \in lits :
                  /\ LevelOf(l) = level /\ \A k \in lits \ {l} : LevelOf(k) <= level - 1
                  /\ Backtrack(level - 1, <<Implied(l, r)>>)
                  /\ conflict' = NOREF /\ pc' = "search" /\ uip' = uip
           \/ Backtrack(level, <<>>) /\ StartUip /\ pc' = "uip" /\ conflict' = r
        /\ cnfstate' = cnfstate
    BY <1>3, <1>4, <1>6, <1>11, ChronoFacts
  <2>2. PICK pair :
               /\ \A l \in lits \ pair, k \in pair : LevelOf(l) <= LevelOf(k)
               /\ clauses'[r].watched = pair
               /\ pair \in SUBSET lits /\ IsPair(pair)
    BY <2>1
  <2>3. clauses'[r].lits = lits
    BY <1>4, <1>5, <2>1 DEF SameLits
  <2>4. ASSUME NEW l \in Lits, HasReason(l), ReasonFor(l, SourceOf(l)) PROVE KeepsReason(l)
    <3>1. PICK q : q = SourceOf(l)
      OBVIOUS
    <3>2. q \in Live /\ l \in clauses[q].watched /\ l \in Assigned /\ q \in DOMAIN clauses
      BY <2>4, <3>1 DEF ReasonFor, HasReason, Live
    <3>3. q # r
      <4>1. clauses[q].watched \subseteq clauses[q].lits
        BY <1>2, <3>2 DEF ClausesOK
      <4>2. q = r => l \in lits
        BY <1>4, <3>2, <4>1
      <4> QED
        BY <1>2, <1>5, <2>4, <3>2, <4>2 DEF IsFalse, PositionsOK
    <3>4. clauses'[q] = clauses[q] /\ q \in Live'
      BY <2>1, <3>2, <3>3
    <3> QED
      BY <3>1, <3>2, <3>4 DEF KeepsReason
  <2>5. CASE Backtrack(level, <<>>) /\ StartUip /\ pc' = "uip" /\ conflict' = r
    <3>1. TrailOK' /\ Moves(level, {}) /\ DL' = level /\ level \in 0 .. DL
      <4>1. Enqueued(<<>>, {}, level)
        BY DEF Enqueued
      <4> QED
        BY <1>2, <1>7, <2>5, <4>1, BacktrackKeepsTrailOK, BacktrackMoves
    <3>2. /\ Sound' /\ Complete'
          /\ \A l \in Lits : l \in Assigned' => SourceOf(l)' \in {NOREF} \cup DOMAIN clauses'
      BY <1>1, <1>2, <2>1, <3>1, SameLitsKeeps
    <3>3. AnalysisOK' /\ UipSound'
      <4>1. conflict' = conflict /\ conflict \in Live'
        BY <1>3, <1>5, <2>1, <2>5
      <4>2. clauses'[conflict].lits = clauses[conflict].lits
        BY <1>3, <1>4, <2>3
      <4>3. \A l \in clauses[conflict].lits : LevelOf(l) <= level
        BY <1>3, <1>4, <1>7
      <4> QED
        BY <1>1, <2>5, <3>1, <4>1, <4>2, <4>3, StartUipKeeps
    <3>4. RestOK'
      BY <1>1, <1>5, <2>1, <2>5, <3>2 DEF Core, RestOK, Propagating, SameLits
    <3>5. Pivots' = NonRoot(lits)
      <4>1. uip'.seen = NonRoot(lits)
        BY <1>3, <1>4, <2>5 DEF StartUip
      <4> QED
        BY <2>5, <4>1 DEF Pivots
    <3>6. ASSUME NEW l \in Lits, HasReason(l), LevelOf(l) <= level
          PROVE  (ReasonFor(l, SourceOf(l)) /\ KeepsReason(l)) \/ Spent(l)'
      <4>1. CASE ReasonFor(l, SourceOf(l))
        BY <2>4, <3>6, <4>1
      <4>2. CASE Spent(l)
        <5>1. LevelOf(l) = DL /\ level = DL
          BY <1>2, <1>7, <1>9, <3>6, <4>2
        <5>2. ~ Unassigned(l)
          BY <3>6 DEF HasReason, Unassigned
        <5>3. \A k \in lits : /\ k \in Lits /\ ~ Unassigned(k) /\ LevelOf(k) <= level
                              /\ PositionOf(k) < PositionOf(l)
          BY <1>5, <1>7, <1>9, <4>2
        <5>4. \A k \in lits : PositionOf(k)' < PositionOf(l)'
          BY <3>1, <3>6, <5>2, <5>3 DEF Moves
        <5>5. LevelOf(l)' = DL' /\ \A k \in lits : LevelOf(k)' = LevelOf(k)
          BY <3>1, <3>6, <5>1, <5>2, <5>3 DEF Moves
        <5>6. PICK k \in lits : LevelOf(k) = DL
          BY <1>9, <4>2
        <5>7. k \in NonRoot(lits) /\ LevelOf(k)' = DL'
          BY <1>2, <1>7, <1>11, <3>1, <5>1, <5>5, <5>6 DEF NonRoot
        <5>8. \A x \in NonRoot(lits) : PositionOf(x)' < PositionOf(l)'
          BY <5>4 DEF NonRoot
        <5>9. Analyzing'
          BY <2>5 DEF Analyzing
        <5> QED
          BY <3>5, <5>5, <5>7, <5>8, <5>9 DEF Spent
      <4> QED
        BY <3>6, <4>1, <4>2 DEF Core, ReasonsOK
    <3>7. ReasonsOK'
      <4>1. \A e \in {} : e.source # NOREF /\ e.level > 0 => ReasonFor(e.lit, e.source)'
        OBVIOUS
      <4> QED
        BY <1>2, <3>1, <3>6, <4>1, ReasonsMove
    <3> QED
      BY <1>8, <2>1, <3>1, <3>2, <3>3, <3>4, <3>7 DEF Core
  <2>6. ASSUME NEW l \in lits,
               LevelOf(l) = level, \A k \in lits \ {l} : LevelOf(k) <= level - 1,
               Backtrack(level - 1, <<Implied(l, r)>>),
               conflict' = NOREF, pc' = "search", uip' = uip
        PROVE  Core'
    <3>1. PICK j : j = level - 1
      OBVIOUS
    <3>2. j \in 0 .. DL /\ j < level /\ j < DL /\ j \in Nat
      BY <1>2, <2>1, <3>1
    <3>3. PICK s : s = lits \ {l}
      OBVIOUS
    <3>4. s \in SUBSET Lits /\ \A k \in s : ~ Unassigned(k) /\ IsFalse(k) /\ LevelOf(k) <= j
      BY <1>5, <2>6, <3>1, <3>3
    <3>5. Highest(s) \in 0 .. DL /\ (\A k \in s : LevelOf(k) <= Highest(s)) /\ Highest(s) <= j
      <4>1. /\ Highest(s) \in 0 .. DL /\ \A k \in s : LevelOf(k) <= Highest(s)
            /\ Highest(s) = 0 \/ \E k \in s : LevelOf(k) = Highest(s)
        BY <1>2, <3>4, HighestFacts
      <4> QED
        BY <3>2, <3>4, <4>1
    <3>6. PICK e : e = Implied(l, r)
      OBVIOUS
    <3>7. e.lit = l /\ e.level = Highest(s) /\ e.source = r /\ e \in EntryType
      BY <1>4, <1>5, <3>3, <3>5, <3>6 DEF Implied, Entry, EntryType
    <3>8. Enqueued(<<e>>, {e}, j) /\ Backtrack(j, <<e>>)
      <4>1. e.level <= j /\ e.source # NOREF /\ LevelOf(e.lit) > j
        BY <1>5, <2>6, <3>2, <3>5, <3>7
      <4> QED
        BY <2>6, <3>1, <3>6, <3>7, <4>1 DEF Enqueued
    <3>9. TrailOK' /\ Moves(j, {e}) /\ PositionsOK'
      BY <1>2, <3>2, <3>8, BacktrackKeepsTrailOK, BacktrackMoves, PositionsHoldAfter
    <3>10. l \in pair
      <4>1. SUFFICES ASSUME l \notin pair PROVE FALSE
        OBVIOUS
      <4>2. PICK k \in pair : TRUE
        BY <2>2 DEF IsPair
      <4>3. k \in lits \ {l} /\ LevelOf(l) <= LevelOf(k)
        BY <2>2, <4>1, <4>2
      <4>4. LevelOf(k) <= j /\ LevelOf(k) \in Nat
        BY <1>2, <1>5, <2>6, <3>1, <4>3 DEF PositionsOK
      <4> QED
        BY <2>1, <2>6, <3>2, <4>3, <4>4
    <3>11. ReasonFor(l, r)'
      <4>1. \A k \in clauses'[r].lits \ {e.lit} :
                k \in Lits /\ IsFalse(k) /\ LevelOf(k) <= j /\ LevelOf(k) <= e.level
        BY <2>3, <3>3, <3>4, <3>5, <3>7
      <4>2. r \in Live' /\ e.lit \in clauses'[r].watched
        BY <1>5, <2>1, <2>2, <3>7, <3>10
      <4>3. ReasonFor(e.lit, r)'
        BY <1>2, <3>2, <3>9, <4>1, <4>2, NewReason
      <4> QED
        BY <3>7, <4>3
    <3>12. \A x \in {e} : x.source # NOREF /\ x.level > 0 => ReasonFor(x.lit, x.source)'
      BY <3>7, <3>11
    <3>13. ASSUME e.level = 0, NEW m \in Models PROVE e.lit \in m
      <4>1. Roots \subseteq m /\ Satisfies(m, lits) /\ m \in Assignments
        BY <1>4, <1>5, <3>13, ModelFacts DEF Core, Sound
      <4>2. PICK x \in lits : x \in m
        BY <4>1 DEF Satisfies
      <4>3. ASSUME x # l PROVE FALSE
        <5>1. x \in s /\ x \in Lits /\ IsFalse(x) /\ LevelOf(x) <= 0 /\ LevelOf(x) \in Nat
          <6>1. x \in s /\ x \in Lits /\ IsFalse(x) /\ ~ Unassigned(x)
            BY <3>3, <3>4, <4>2, <4>3
          <6>2. LevelOf(x) <= Highest(s) /\ Highest(s) = 0
            BY <3>5, <3>7, <3>13, <6>1
          <6> QED
            BY <1>2, <6>1, <6>2 DEF PositionsOK
        <5>2. x \notin m
          BY <1>2, <4>1, <5>1, RootFalseInModels
        <5> QED
          BY <4>2, <5>2
      <4> QED
        BY <3>7, <4>2, <4>3
    <3>14. /\ Sound' /\ Complete'
           /\ \A x \in Lits : x \in Assigned' => SourceOf(x)' \in {NOREF} \cup DOMAIN clauses'
      <4>1. \A x \in {e} : x.source \in {NOREF} \cup DOMAIN clauses
        BY <1>5, <3>7
      <4>2. \A x \in {e} : x.level = 0 => \A m \in Models : x.lit \in m
        BY <3>13
      <4> QED
        BY <1>1, <2>1, <3>2, <3>9, <4>1, <4>2, SameLitsKeeps
    <3>15. ReasonsOK'
      <4>1. ASSUME NEW x \in Lits, HasReason(x), LevelOf(x) <= j
            PROVE  ReasonFor(x, SourceOf(x)) /\ KeepsReason(x)
        <5>1. ~ Spent(x)
          BY <1>2, <1>9, <3>2, <4>1
        <5> QED
          BY <2>4, <4>1, <5>1 DEF Core, ReasonsOK
      <4> QED
        BY <1>2, <3>2, <3>9, <3>12, <4>1, ReasonsMove
    <3>16. AnalysisOK' /\ UipSound'
      BY <2>6 DEF Core, AnalysisOK, UipSound, Analyzing
    <3>17. RestOK'
      BY <1>1, <2>1, <2>6, <3>14 DEF Core, RestOK, Propagating, SameLits
    <3> QED
      BY <1>8, <2>1, <3>9, <3>14, <3>15, <3>16, <3>17 DEF Core
  <2> QED
    BY <2>1, <2>5, <2>6
<1>12. \/ level # 0
       \/ /\ level = 0 /\ ~ Analyzing' /\ pc' = "idle" /\ cnfstate' = "unsat"
          /\ UNCHANGED <<search, conflict, uip>>
  BY <1>3, <1>4, <1>6 DEF ChronoAnalyze, Answer, Analyzing
<1> QED
  BY <1>10, <1>11, <1>12

\* A set of more than one element has another one.
LEMMA AnotherOf ==
    ASSUME NEW s \in SUBSET Lits, Cardinality(s) > 1, NEW t \in s
    PROVE  \E x \in s : x # t
<1>1. SUFFICES ASSUME \A x \in s : x = t PROVE FALSE
  OBVIOUS
<1>2. s = {t}
  BY <1>1
<1>3. Cardinality({t}) = 1
  BY FS_Singleton
<1> QED
  BY <1>2, <1>3

\* The literal that is resolved on: the last of those of DL, which has a reason.
LEMMA ParentFacts ==
    ASSUME Core, pc = "uip", Cardinality(Tracked) > 1, NEW p, p = Parent.lit, NEW r, r = Parent.source
    PROVE  /\ p \in Lits /\ -p \in Lits /\ p \in Assigned /\ ~ Unassigned(p)
           /\ -p \in Tracked /\ PositionOf(-p) = PositionOf(p)
           /\ r # NOREF /\ SourceOf(p) = r /\ LevelOf(p) = DL /\ DL > 0
           /\ \A k \in Tracked \ {-p} : PositionOf(k) < PositionOf(p)
           /\ \E k \in Tracked : k # -p
           /\ ReasonFor(p, r)
<1>1. TrailOK /\ PositionsOK /\ DL \in Nat
  BY PositionsHold, Levels DEF Core
<1>2. /\ uip.seen \subseteq Lits
      /\ \A l \in uip.seen : IsFalse(l) /\ LevelOf(l) > 0 /\ ~ Unassigned(l)
  BY DEF Core, AnalysisOK, IsFalse, Unassigned
<1>3. Tracked \in SUBSET Lits /\ Tracked \subseteq uip.seen /\ \A l \in Tracked : LevelOf(l) = DL
  BY <1>2 DEF Tracked, Resolvent
<1>4. Tracked # {}
  <2>1. Cardinality({}) = 0
    BY FS_EmptySet
  <2> QED
    BY <2>1
<1> DEFINE S == {PositionOf(l) : l \in Tracked}
<1>5. Len(trail) \in Nat /\ S \in SUBSET (0 .. Len(trail)) /\ S # {}
  <2>1. \A l \in Tracked : PositionOf(l) \in 1 .. Len(trail)
    BY <1>1, <1>2, <1>3 DEF PositionsOK
  <2>2. Len(trail) \in Nat
    BY <1>1, Levels
  <2> QED
    BY <1>4, <2>1, <2>2
<1>6. PICK i : i = Max(S)
  OBVIOUS
<1>7. i \in S /\ \A x \in S : x <= i
  BY <1>5, <1>6, GreatestOf
<1>8. PICK t \in Tracked : PositionOf(t) = i
  BY <1>7
<1>9. Parent = trail[i]
  BY <1>6 DEF Parent
<1>10. t \in Lits /\ -t \in Assigned /\ ~ Unassigned(t) /\ LevelOf(t) = DL /\ LevelOf(t) > 0
       /\ i \in 1 .. Len(trail) /\ t \notin Assigned
  <2>1. t \in Lits /\ -t \in Assigned /\ ~ Unassigned(t) /\ LevelOf(t) = DL /\ LevelOf(t) > 0
    BY <1>2, <1>3, <1>8 DEF IsFalse
  <2>2. -(-t) = t
    BY <2>1, Negation
  <2> QED
    BY <1>1, <1>8, <2>1, <2>2 DEF PositionsOK
<1>11. p = -t /\ -p = t /\ p \in Lits
  <2>1. p \in Assigned /\ p \in {t, -t}
    BY <1>1, <1>8, <1>9, <1>10 DEF PositionsOK
  <2> QED
    BY <1>10, <2>1, Negation
<1>12. PositionOf(p) = i /\ LevelOf(p) = DL /\ SourceOf(p) = r /\ ~ Unassigned(p)
  <2>1. PositionOf(p) = i /\ LevelOf(p) = LevelOf(t)
    BY <1>1, <1>8, <1>10, <1>11 DEF PositionsOK
  <2> QED
    BY <1>9, <1>10, <1>11, <2>1 DEF SourceOf, Unassigned
<1>13. ASSUME NEW k \in Tracked \ {-p} PROVE PositionOf(k) < PositionOf(p)
  <2>1. PositionOf(k) <= i /\ PositionOf(k) \in 1 .. Len(trail) /\ k \in Lits /\ ~ Unassigned(k)
        /\ IsFalse(k)
    BY <1>1, <1>2, <1>3, <1>7, <1>13 DEF PositionsOK
  <2>2. PositionOf(k) # i
    <3>1. ASSUME PositionOf(k) = i PROVE FALSE
      <4>1. k \in {t, -t}
        BY <1>1, <1>8, <1>10, <2>1, <3>1 DEF PositionsOK
      <4>2. k = -t
        BY <1>11, <1>13, <4>1
      <4> QED
        BY <1>10, <2>1, <4>2, Negation DEF IsFalse
    <3> QED
      BY <3>1
  <2> QED
    BY <1>10, <1>12, <2>1, <2>2
<1>14. PICK k \in Tracked : k # t
  BY <1>3, <1>8, AnotherOf
<1>15. r # NOREF
  <2>1. SUFFICES ASSUME r = NOREF PROVE FALSE
    OBVIOUS
  <2>2. trail[i].source = NOREF /\ trail[i].level = DL /\ i \in DOMAIN trail /\ DL > 0
    <3>1. DOMAIN trail = 1 .. Len(trail)
      BY <1>1 DEF TrailOK
    <3>2. trail[i].level = LevelOf(p)
      BY <1>12 DEF LevelOf
    <3> QED
      BY <1>9, <1>10, <1>12, <2>1, <3>1, <3>2
  <2>3. i = dlevels[DL] + 1
    BY <1>1, <2>2 DEF TrailOK
  <2>4. PositionOf(k) < i /\ PositionOf(k) \in 1 .. Len(trail) /\ LevelOf(k) = DL
    BY <1>1, <1>2, <1>3, <1>11, <1>12, <1>13, <1>14 DEF PositionsOK
  <2>5. DL \in 1 .. DL /\ dlevels[DL] \in Nat
    BY <1>1, <2>2, Levels
  <2>6. PositionOf(k) \in 1 .. dlevels[DL]
    BY <2>3, <2>4, <2>5
  <2>7. trail[PositionOf(k)].level < DL
    BY <1>1, <2>5, <2>6 DEF TrailOK
  <2> QED
    BY <1>1, <2>4, <2>7 DEF LevelOf
<1>16. HasReason(p)
  BY <1>10, <1>11, <1>12, <1>15 DEF HasReason
<1>17. ~ Spent(p)
  <2>1. -p \in Pivots
    BY <1>3, <1>8, <1>11 DEF Pivots
  <2>2. PositionOf(-p) = PositionOf(p)
    BY <1>8, <1>11, <1>12
  <2>3. PositionOf(p) \in Nat
    BY <1>10, <1>12
  <2>4. ~ (PositionOf(-p) < PositionOf(p))
    BY <2>2, <2>3
  <2> QED
    BY <2>1, <2>4 DEF Spent
<1>18. ReasonFor(p, r)
  BY <1>11, <1>12, <1>16, <1>17 DEF Core, ReasonsOK
<1> QED
  BY <1>8, <1>10, <1>11, <1>12, <1>13, <1>14, <1>15, <1>18, Negation

\* What the reason of the parent adds to the resolvent.
LEMMA ReasonLitsFacts ==
    ASSUME Core, pc = "uip", Cardinality(Tracked) > 1, NEW p, p = Parent.lit, NEW r, r = Parent.source
    PROVE  /\ r \in Live /\ r \in DOMAIN clauses /\ clauses[r] \in ClauseType
           /\ p \in clauses[r].watched /\ p \in clauses[r].lits
           /\ \A k \in clauses[r].lits \ {p} :
                  /\ k \in Lits /\ IsFalse(k) /\ ~ Unassigned(k) /\ PositionOf(k) < PositionOf(p)
                  /\ LevelOf(k) \in Nat /\ LevelOf(k) <= DL
           /\ ReasonLits = {k \in clauses[r].lits \ {p} : LevelOf(k) > 0}
           /\ ReasonLits \in SUBSET Lits
           /\ \A k \in ReasonLits : IsFalse(k) /\ LevelOf(k) > 0 /\ PositionOf(k) < PositionOf(p)
           /\ -p \notin ReasonLits /\ -p \notin uip.resolved
           /\ \A k \in ReasonLits : k \notin uip.resolved
           /\ \A k \in uip.resolved : PositionOf(p) < PositionOf(k)
           /\ PositionOf(p) \in Nat
<1>1. TrailOK /\ PositionsOK /\ DL \in Nat
  BY PositionsHold, Levels DEF Core
<1>2. /\ p \in Lits /\ -p \in Lits /\ p \in Assigned /\ ~ Unassigned(p)
      /\ -p \in Tracked /\ PositionOf(-p) = PositionOf(p) /\ LevelOf(p) = DL
      /\ ReasonFor(p, r)
  BY ParentFacts
<1>3. r \in Live /\ r \in DOMAIN clauses /\ p \in clauses[r].watched
      /\ \A k \in clauses[r].lits \ {p} :
             IsFalse(k) /\ PositionOf(k) < PositionOf(p) /\ LevelOf(k) <= DL
  BY <1>2 DEF ReasonFor, Live
<1>4. clauses[r] \in ClauseType /\ p \in clauses[r].lits /\ clauses[r].lits \in SUBSET Lits
  <2>1. clauses[r] \in ClauseType /\ clauses[r].watched \subseteq clauses[r].lits
    BY <1>3 DEF Core, ClausesOK
  <2> QED
    BY <1>3, <2>1 DEF ClauseType
<1>5. ASSUME NEW k \in clauses[r].lits \ {p}
      PROVE  k \in Lits /\ ~ Unassigned(k) /\ LevelOf(k) \in Nat
  <2>1. k \in Lits /\ ~ Unassigned(k)
    BY <1>3, <1>4, <1>5 DEF IsFalse, Unassigned
  <2> QED
    BY <1>1, <2>1 DEF PositionsOK
<1>6. ReasonLits = {k \in clauses[r].lits \ {p} : LevelOf(k) > 0}
  BY DEF ReasonLits, NonRoot, Reason
<1>7. ReasonLits \in SUBSET Lits
      /\ \A k \in ReasonLits : IsFalse(k) /\ LevelOf(k) > 0 /\ PositionOf(k) < PositionOf(p)
  BY <1>3, <1>4, <1>6
<1>8. PositionOf(p) \in Nat
  BY <1>1, <1>2 DEF PositionsOK
<1>9. ASSUME NEW k \in uip.resolved PROVE PositionOf(p) < PositionOf(k)
  <2>1. PositionOf(-p) < PositionOf(k)
    BY <1>2, <1>9 DEF Core, AnalysisOK
  <2> QED
    BY <1>2, <2>1
<1>10. -p \notin ReasonLits /\ -p \notin uip.resolved
  BY <1>2, <1>7, <1>8, <1>9
<1>11. ASSUME NEW k \in ReasonLits PROVE k \notin uip.resolved
  <2>1. SUFFICES ASSUME k \in uip.resolved PROVE FALSE
    OBVIOUS
  <2>2. PositionOf(k) < PositionOf(p) /\ PositionOf(p) < PositionOf(k)
    BY <1>7, <1>9, <1>11, <2>1
  <2>3. PositionOf(k) \in Nat
    BY <1>1, <1>5, <1>6, <1>11 DEF PositionsOK
  <2> QED
    BY <1>8, <2>2, <2>3
<1> QED
  BY <1>3, <1>4, <1>5, <1>6, <1>7, <1>8, <1>9, <1>10, <1>11

\* The resolvent with the reason is true in all models.
LEMMA ResolventSound ==
    ASSUME Core, pc = "uip", Cardinality(Tracked) > 1, NEW m \in Models
    PROVE  Satisfies(m, Resolved.seen \ Resolved.resolved)
<1>1. PICK p : p = Parent.lit
  OBVIOUS
<1>2. PICK r : r = Parent.source
  OBVIOUS
<1>3. PositionsOK
  BY PositionsHold DEF Core
<1>4. /\ p \in Lits /\ -p \in Lits
      /\ r \in DOMAIN clauses
      /\ \A k \in clauses[r].lits \ {p} :
             k \in Lits /\ IsFalse(k) /\ LevelOf(k) \in Nat
      /\ ReasonLits = {k \in clauses[r].lits \ {p} : LevelOf(k) > 0}
      /\ -p \notin ReasonLits /\ \A k \in ReasonLits : k \notin uip.resolved
  BY <1>1, <1>2, ParentFacts, ReasonLitsFacts
<1>5. Resolved.seen = uip.seen \cup ReasonLits /\ Resolved.resolved = uip.resolved \cup {-p}
  BY <1>1 DEF Resolved
<1>6. PICK x \in uip.seen \ uip.resolved : x \in m
  BY DEF Core, UipSound, Satisfies, Resolvent
<1>7. CASE x # -p
  BY <1>5, <1>6, <1>7 DEF Satisfies
<1>8. CASE x = -p
  <2>1. p \notin m /\ m \in Assignments
    BY <1>4, <1>6, <1>8, ModelFacts
  <2>2. Roots \subseteq m /\ Satisfies(m, clauses[r].lits)
    BY <1>4 DEF Core, Sound
  <2>3. PICK y \in clauses[r].lits : y \in m
    BY <2>2 DEF Satisfies
  <2>4. y \in clauses[r].lits \ {p}
    BY <2>1, <2>3
  <2>5. LevelOf(y) # 0
    BY <1>3, <1>4, <2>1, <2>2, <2>3, <2>4, RootFalseInModels
  <2>6. y \in ReasonLits
    BY <1>4, <2>4, <2>5
  <2> QED
    BY <1>4, <1>5, <2>3, <2>6 DEF Satisfies
<1> QED
  BY <1>7, <1>8

\* Resolving with the reason of the last literal keeps the invariant.
LEMMA ResolveKeeps == Core /\ Resolve => Core'
<1> SUFFICES ASSUME Core, Resolve PROVE Core'
  OBVIOUS
<1>1. /\ pc = "uip" /\ pc' = "uip" /\ Cardinality(Tracked) > 1 /\ uip' = Resolved
      /\ UNCHANGED <<problem, opts, clauses, watches, trail, propagated, dlevels, visiting,
                     conflict, rested, reduced, calls, assumptions, iconflict, cnfstate>>
  BY DEF Resolve, search, limits, call
<1>2. TrailOK /\ PositionsOK /\ DL \in 0 .. DL /\ DL \in Nat /\ Analyzing /\ ClausesOK
  BY <1>1, Levels, PositionsHold DEF Core, Analyzing
<1>3. TrailOK' /\ Moves(DL, {}) /\ DL' = DL /\ PositionsOK'
  BY <1>1, <1>2, UnchangedMoves, PositionsHoldAfter DEF TrailOK, DL
<1>4. SameLits
  BY <1>1 DEF SameLits, Core, ClausesOK
<1>5. /\ Sound' /\ Complete' /\ Live' = Live
      /\ \A l \in Lits : l \in Assigned' => SourceOf(l)' \in {NOREF} \cup DOMAIN clauses'
  BY <1>1, <1>2, <1>3, <1>4, SameLitsKeeps
<1>6. ClausesOK' /\ WatchesOK'
  BY <1>1, <1>5 DEF Core, ClausesOK, WatchesOK
<1>7. VisitingOK'
  <2>1. visiting = {}
    BY <1>2, ConflictFacts
  <2> QED
    BY <1>1, <2>1 DEF VisitingOK
<1>8. RestOK'
  BY <1>1, <1>5 DEF Core, RestOK, Propagating
<1>9. PICK p : p = Parent.lit
  OBVIOUS
<1>10. PICK r : r = Parent.source
  OBVIOUS
<1>11. /\ p \in Lits /\ -p \in Lits /\ -p \in Tracked /\ PositionOf(-p) = PositionOf(p)
       /\ DL > 0
       /\ \A k \in Tracked \ {-p} : PositionOf(k) < PositionOf(p)
  BY <1>1, <1>9, ParentFacts
<1>12. /\ ReasonLits \in SUBSET Lits
       /\ \A k \in ReasonLits : IsFalse(k) /\ LevelOf(k) > 0 /\ PositionOf(k) < PositionOf(p)
       /\ -p \notin ReasonLits /\ -p \notin uip.resolved
       /\ \A k \in ReasonLits : k \notin uip.resolved
       /\ \A k \in uip.resolved : PositionOf(p) < PositionOf(k)
       /\ PositionOf(p) \in Nat
  BY <1>1, <1>9, <1>10, ReasonLitsFacts
<1>13. uip'.seen = uip.seen \cup ReasonLits /\ uip'.resolved = uip.resolved \cup {-p}
  BY <1>1, <1>9 DEF Resolved
<1>14. \A k : /\ IsFalse(k)' <=> IsFalse(k)
              /\ LevelOf(k)' = LevelOf(k) /\ PositionOf(k)' = PositionOf(k)
  BY <1>1 DEF IsFalse, Assigned, LevelOf, PositionOf
<1>15. /\ conflict \in Live /\ uip.seen \subseteq Lits /\ uip.resolved \subseteq uip.seen
       /\ \A l \in uip.seen : IsFalse(l) /\ LevelOf(l) > 0
       /\ \A l \in uip.resolved, k \in Tracked : PositionOf(k) < PositionOf(l)
       /\ \A l \in Lits : IsFalse(l) => PositionOf(l) \in Nat
  BY <1>1, <1>2 DEF Core, AnalysisOK, PositionsOK, IsFalse, Unassigned
<1>16. AnalysisOK'
  <2>1. uip'.seen \subseteq Lits /\ uip'.resolved \subseteq uip'.seen /\ uip'.resolved # {}
    BY <1>11, <1>12, <1>13, <1>15 DEF Tracked, Resolvent
  <2>2. \A l \in uip'.seen : IsFalse(l)' /\ LevelOf(l)' > 0
    BY <1>12, <1>13, <1>14, <1>15
  <2>3. ASSUME NEW l \in uip'.resolved, NEW k \in Tracked' PROVE PositionOf(k)' < PositionOf(l)'
    <3>1. k \in (Tracked \ {-p}) \cup ReasonLits
      BY <1>3, <1>13, <1>14, <2>3 DEF Tracked, Resolvent
    <3>2. PositionOf(k) < PositionOf(p) /\ k \in Lits /\ IsFalse(k)
      BY <1>11, <1>12, <1>15, <3>1 DEF Tracked, Resolvent
    <3>3. l = -p \/ PositionOf(p) < PositionOf(l)
      BY <1>12, <1>13, <2>3
    <3>4. PositionOf(l) \in Nat /\ PositionOf(k) \in Nat
      BY <1>11, <1>12, <1>13, <1>15, <2>3, <3>2
    <3> QED
      BY <1>11, <1>12, <1>14, <3>2, <3>3, <3>4
  <2> QED
    BY <1>1, <1>5, <1>15, <2>1, <2>2, <2>3 DEF AnalysisOK, Analyzing
<1>17. UipSound'
  <2>1. Models' = Models
    BY <1>1 DEF Models
  <2>2. Resolvent' = Resolved.seen \ Resolved.resolved
    BY <1>1 DEF Resolvent
  <2>3. \A m \in Models : Satisfies(m, Resolved.seen \ Resolved.resolved)
    BY <1>1, ResolventSound
  <2> QED
    BY <2>1, <2>2, <2>3 DEF UipSound, Satisfies
<1>18. ReasonsOK'
  <2>1. ASSUME NEW l \in Lits, HasReason(l)
        PROVE  (ReasonFor(l, SourceOf(l)) /\ KeepsReason(l)) \/ Spent(l)'
    <3>1. CASE ReasonFor(l, SourceOf(l))
      BY <1>1, <1>5, <3>1 DEF KeepsReason, ReasonFor
    <3>2. CASE Spent(l)
      <4>1. /\ LevelOf(l) = DL
            /\ \A k \in uip.seen : PositionOf(k) < PositionOf(l)
            /\ \E k \in uip.seen : LevelOf(k) = DL
        BY <1>1, <3>2 DEF Spent, Pivots
      <4>2. PositionOf(p) < PositionOf(l) /\ PositionOf(l) \in Nat
        <5>1. PositionOf(-p) < PositionOf(l)
          BY <1>11, <4>1 DEF Tracked, Resolvent
        <5> QED
          BY <1>2, <1>11, <2>1, <5>1 DEF PositionsOK, HasReason, Unassigned
      <4>3. \A k \in ReasonLits : PositionOf(k) < PositionOf(l)
        BY <1>12, <1>15, <4>2
      <4>4. Pivots' = uip.seen \cup ReasonLits /\ Analyzing'
        BY <1>1, <1>13 DEF Pivots, Analyzing
      <4> QED
        BY <1>3, <1>14, <4>1, <4>3, <4>4 DEF Spent
    <3> QED
      BY <2>1, <3>1, <3>2 DEF Core, ReasonsOK
  <2>2. \A e \in {} : e.source # NOREF /\ e.level > 0 => ReasonFor(e.lit, e.source)'
    OBVIOUS
  <2> QED
    BY <1>2, <1>3, <2>1, <2>2, ReasonsMove
<1> QED
  BY <1>3, <1>5, <1>6, <1>7, <1>8, <1>16, <1>17, <1>18 DEF Core

\* A resolvent that is smaller than the reason is the reason without the parent.
LEMMA SubsumingResolvent ==
    ASSUME Core, pc = "uip", Cardinality(Tracked) > 1, SubsumesReason
    PROVE  /\ Resolved.seen \ Resolved.resolved = ReasonLits
           /\ ResolventSize = Cardinality(ReasonLits)
<1>1. PICK p : p = Parent.lit
  OBVIOUS
<1>2. PICK r : r = Parent.source
  OBVIOUS
<1>3. /\ ReasonLits \in SUBSET Lits
      /\ -p \notin ReasonLits /\ \A k \in ReasonLits : k \notin uip.resolved
  BY <1>1, <1>2, ReasonLitsFacts
<1>4. uip.seen \subseteq Lits
  BY DEF Core, AnalysisOK
<1>5. PICK s : s = Resolved.seen \ Resolved.resolved
  OBVIOUS
<1>6. s = (uip.seen \cup ReasonLits) \ (uip.resolved \cup {-p})
  BY <1>1, <1>5 DEF Resolved
<1>7. s \in SUBSET Lits /\ ReasonLits \in SUBSET s
  BY <1>3, <1>4, <1>6
<1>8. IsFiniteSet(s) /\ Cardinality(s) \in Nat /\ Cardinality(ReasonLits) \in Nat
  BY <1>3, <1>7, FiniteLits
<1>9. Cardinality(ReasonLits) <= Cardinality(s)
      /\ (Cardinality(s) = Cardinality(ReasonLits) => s = ReasonLits)
  BY <1>7, <1>8, FS_Subset
<1>10. ResolventSize = Cardinality(s)
  BY <1>5 DEF ResolventSize
<1>11. Cardinality(s) < Cardinality(ReasonLits) + 1
  BY <1>10 DEF SubsumesReason
<1> QED
  BY <1>5, <1>8, <1>9, <1>10, <1>11

\* What is subsumed: the conflict is the reason, with the parent false in it.
LEMMA SubsumedConflict ==
    ASSUME Core, pc = "uip", Cardinality(Tracked) > 1, SubsumesReason,
           NEW p, p = Parent.lit, uip.resolved = {},
           ResolventSize < Cardinality(NonRoot(clauses[conflict].lits))
    PROVE  ReasonLits \subseteq clauses[conflict].lits /\ Parent.source # conflict
<1>1. PICK r : r = Parent.source
  OBVIOUS
<1>2. PICK c : c = clauses[conflict].lits
  OBVIOUS
<1>3. uip.seen = NonRoot(c) /\ uip.seen \subseteq Lits /\ NonRoot(c) \subseteq c
      /\ \A l \in uip.seen : IsFalse(l)
  BY <1>2 DEF Core, AnalysisOK, NonRoot
<1>4. /\ ReasonLits = (uip.seen \cup ReasonLits) \ {-p}
      /\ ResolventSize = Cardinality(ReasonLits)
  <2>1. Resolved.seen = uip.seen \cup ReasonLits /\ Resolved.resolved = {-p}
    BY DEF Resolved
  <2> QED
    BY <2>1, SubsumingResolvent
<1>5. /\ p \in Lits /\ p \in Assigned /\ -p \in Tracked /\ LevelOf(p) = DL /\ DL > 0
  BY ParentFacts
<1>6. /\ ReasonLits \in SUBSET Lits /\ p \in clauses[r].lits
  BY <1>1, ReasonLitsFacts
<1>7. -p \in uip.seen
  BY <1>5 DEF Tracked, Resolvent
<1>8. PICK s : s = uip.seen \ {-p}
  OBVIOUS
<1>9. /\ IsFiniteSet(uip.seen) /\ Cardinality(uip.seen) \in Nat
      /\ Cardinality(s) = Cardinality(uip.seen) - 1
      /\ IsFiniteSet(ReasonLits) /\ Cardinality(ReasonLits) \in Nat
  BY <1>3, <1>6, <1>7, <1>8, FiniteLits, FS_RemoveElement
<1>10. s \in SUBSET ReasonLits
  BY <1>4, <1>8
<1>11. Cardinality(s) <= Cardinality(ReasonLits)
       /\ (Cardinality(ReasonLits) = Cardinality(s) => ReasonLits = s)
  BY <1>9, <1>10, FS_Subset
<1>12. Cardinality(ReasonLits) < Cardinality(uip.seen)
  BY <1>2, <1>3, <1>4
<1>13. ReasonLits = s
  BY <1>9, <1>11, <1>12
<1>14. r # conflict
  <2>1. SUFFICES ASSUME r = conflict PROVE FALSE
    OBVIOUS
  <2>2. p \in NonRoot(c)
    BY <1>2, <1>5, <1>6, <2>1 DEF NonRoot
  <2>3. IsFalse(p) /\ PositionsOK
    BY <1>3, <2>2, PositionsHold DEF Core
  <2> QED
    BY <1>5, <2>3 DEF IsFalse, PositionsOK
<1> QED
  BY <1>1, <1>2, <1>3, <1>8, <1>13, <1>14

-----------------------------------------------------------------------------
(***************************************************************************)
(* On-the-fly strengthening.                                               *)
(***************************************************************************)
\* What strengthenOTF does to clause r, of which p is implied.
StrengthenedTo(p, r, first, second, lits) ==
    /\ first # p /\ first # second /\ clauses[r].watched = {first, p}
    /\ lits = {first} \cup ReasonLits /\ {first, second} \subseteq lits
    /\ LevelOf(second) = Highest(lits \ {first})
    /\ lits \subseteq clauses[r].lits \ {p}
    /\ clauses'[r].lits = lits /\ clauses'[r].watched = {first, second}
    /\ clauses'[r].learnt = clauses[r].learnt
    /\ clauses'[r].deleted = clauses[r].deleted
    /\ clauses' \in Seq(ClauseType) /\ DOMAIN clauses' = DOMAIN clauses
    /\ \A q \in DOMAIN clauses : q # r /\ q # conflict => clauses'[q] = clauses[q]
    /\ conflict # r =>
           /\ clauses'[conflict].lits = clauses[conflict].lits
           /\ clauses'[conflict].watched = clauses[conflict].watched
           /\ clauses'[conflict].learnt = clauses[conflict].learnt
           /\ \/ clauses'[conflict].deleted = clauses[conflict].deleted
              \/ /\ clauses'[conflict].deleted = TRUE
                 /\ uip.resolved = {} /\ ReasonLits \subseteq clauses[conflict].lits
                 /\ ~ clauses[r].learnt \/ clauses[conflict].learnt
    /\ watches' = StrengthenedWatches(r, first, second, Cardinality(lits))

\* strengthenOTF does what StrengthenedTo says.
LEMMA StrengthenFacts ==
    ASSUME Core, Strengthen, NEW p, p = Parent.lit, NEW r, r = Parent.source
    PROVE  \E first, second, lits : StrengthenedTo(p, r, first, second, lits)
<1>1. pc = "uip" /\ Cardinality(Tracked) > 1 /\ SubsumesReason /\ Analyzing
  BY DEF Strengthen, Analyzing
<1>2. /\ r \in Live /\ r \in DOMAIN clauses /\ clauses[r] \in ClauseType
      /\ p \in clauses[r].watched
      /\ ReasonLits = {k \in clauses[r].lits \ {p} : LevelOf(k) > 0}
      /\ ReasonLits \in SUBSET Lits
  BY <1>1, ReasonLitsFacts
<1>3. IsPair(clauses[r].watched) /\ clauses[r].watched \subseteq clauses[r].lits
      /\ clauses \in Seq(ClauseType)
  BY <1>2 DEF Core, ClausesOK
<1>4. PICK first : first # p /\ clauses[r].watched = {first, p}
  <2>1. PICK a, b : a # b /\ clauses[r].watched = {a, b}
    BY <1>3 DEF IsPair
  <2>2. CASE p = a
    BY <2>1, <2>2
  <2>3. CASE p = b
    <3>1. a # p /\ clauses[r].watched = {a, p}
      BY <2>1, <2>3
    <3> QED
      BY <3>1
  <2> QED
    BY <1>2, <2>1, <2>2, <2>3
<1>5. PICK lits : lits = {first} \cup ReasonLits
  OBVIOUS
<1>6. PICK subsumed : subsumed = (/\ uip.resolved = {}
                                  /\ ResolventSize < Cardinality(NonRoot(clauses[conflict].lits))
                                  /\ ~ Reason.learnt \/ clauses[conflict].learnt)
  OBVIOUS
<1>7. (CHOOSE l \in Reason.watched : l # Parent.lit) = first /\ Reason = clauses[r]
  BY <1>4 DEF Reason
<1>8. lits = {first} \cup NonRoot(Reason.lits \ {p})
  BY <1>5 DEF ReasonLits
<1>9. PICK second \in lits \ {first} :
          /\ LevelOf(second) = Highest(lits \ {first})
          /\ clauses' = [clauses EXCEPT
                       ![r].lits = lits, ![r].watched = {first, second},
                       ![conflict].deleted = @ \/ subsumed]
          /\ watches' = StrengthenedWatches(r, first, second, Cardinality(lits))
  <2> DEFINE first0 == CHOOSE l \in Reason.watched : l # Parent.lit
             lits0 == {first0} \cup NonRoot(Reason.lits \ {Parent.lit})
             subsumed0 == /\ uip.resolved = {}
                          /\ ResolventSize < Cardinality(NonRoot(clauses[conflict].lits))
                          /\ ~ Reason.learnt \/ clauses[conflict].learnt
  <2>1. \E second \in lits0 \ {first0} :
          /\ LevelOf(second) = Highest(lits0 \ {first0})
          /\ clauses' = [clauses EXCEPT
                       ![Parent.source].lits = lits0, ![Parent.source].watched = {first0, second},
                       ![conflict].deleted = @ \/ subsumed0]
          /\ watches' = StrengthenedWatches(Parent.source, first0, second, Cardinality(lits0))
    BY Zenon DEF Strengthen
  <2>2. first0 = first /\ lits0 = lits /\ (subsumed0 = subsumed)
    BY <1>6, <1>7, <1>8
  <2> HIDE DEF first0, lits0, subsumed0
  <2> QED
    BY <2>1, <2>2
<1>10. /\ conflict \in DOMAIN clauses /\ clauses[conflict] \in ClauseType
  BY <1>1, ConflictFacts
<1>11. subsumed \in BOOLEAN
  BY <1>6
<1>12. lits \in SUBSET Lits /\ {first, second} \in SUBSET Lits /\ {first, second} \subseteq lits
       /\ first # second /\ lits \subseteq clauses[r].lits \ {p}
  <2>1. first \in clauses[r].lits \ {p}
    BY <1>3, <1>4
  <2>2. first \in Lits
    BY <1>2, <2>1 DEF ClauseType
  <2> QED
    BY <1>2, <1>5, <1>9, <2>1, <2>2
<1>13. PICK c1 : c1 = [[clauses[r] EXCEPT !.lits = lits] EXCEPT !.watched = {first, second}]
  OBVIOUS
<1>14. /\ c1 \in ClauseType /\ c1.lits = lits /\ c1.watched = {first, second}
       /\ c1.learnt = clauses[r].learnt /\ c1.deleted = clauses[r].deleted
  BY <1>2, <1>12, <1>13 DEF ClauseType
<1>15. PICK cls : cls = [clauses EXCEPT ![r] = c1]
  OBVIOUS
<1>16. cls \in Seq(ClauseType) /\ DOMAIN cls = DOMAIN clauses /\ cls[r] = c1
       /\ \A q \in DOMAIN clauses : q # r => cls[q] = clauses[q]
  BY <1>2, <1>3, <1>14, <1>15
<1>17. PICK c2 : c2 = [cls[conflict] EXCEPT !.deleted = cls[conflict].deleted \/ subsumed]
  OBVIOUS
<1>18. cls[conflict] \in ClauseType
  BY <1>10, <1>16
<1>19. /\ c2 \in ClauseType /\ c2.lits = cls[conflict].lits /\ c2.watched = cls[conflict].watched
       /\ c2.learnt = cls[conflict].learnt /\ c2.deleted = (cls[conflict].deleted \/ subsumed)
  BY <1>11, <1>17, <1>18 DEF ClauseType
<1>20. clauses' = [cls EXCEPT ![conflict] = c2]
  BY <1>2, <1>3, <1>9, <1>10, <1>13, <1>15, <1>17
<1>21. clauses' \in Seq(ClauseType) /\ DOMAIN clauses' = DOMAIN clauses /\ clauses'[conflict] = c2
       /\ \A q \in DOMAIN clauses : q # conflict => clauses'[q] = cls[q]
  BY <1>10, <1>16, <1>19, <1>20
<1>22. subsumed => /\ uip.resolved = {} /\ ReasonLits \subseteq clauses[conflict].lits
                   /\ ~ clauses[r].learnt \/ clauses[conflict].learnt
                   /\ r # conflict
  BY <1>1, <1>6, <1>7, SubsumedConflict
<1>23. /\ clauses'[r].lits = lits /\ clauses'[r].watched = {first, second}
       /\ clauses'[r].learnt = clauses[r].learnt
       /\ clauses'[r].deleted = clauses[r].deleted
  <2>1. CASE r = conflict
    <3>1. c2.deleted = c1.deleted
      <4>1. c1.deleted \in BOOLEAN /\ ~ subsumed
        BY <1>14, <1>22, <2>1 DEF ClauseType
      <4> QED
        BY <1>16, <1>19, <2>1, <4>1
    <3> QED
      BY <1>14, <1>16, <1>19, <1>21, <2>1, <3>1
  <2>2. CASE r # conflict
    BY <1>2, <1>14, <1>16, <1>21, <2>2
  <2> QED
    BY <2>1, <2>2
<1>24. conflict # r =>
           /\ clauses'[conflict].lits = clauses[conflict].lits
           /\ clauses'[conflict].watched = clauses[conflict].watched
           /\ clauses'[conflict].learnt = clauses[conflict].learnt
           /\ \/ clauses'[conflict].deleted = clauses[conflict].deleted
              \/ /\ clauses'[conflict].deleted = TRUE
                 /\ uip.resolved = {} /\ ReasonLits \subseteq clauses[conflict].lits
                 /\ ~ clauses[r].learnt \/ clauses[conflict].learnt
  <2>1. SUFFICES ASSUME conflict # r
                 PROVE  /\ clauses'[conflict].lits = clauses[conflict].lits
                        /\ clauses'[conflict].watched = clauses[conflict].watched
                        /\ clauses'[conflict].learnt = clauses[conflict].learnt
                        /\ \/ clauses'[conflict].deleted = clauses[conflict].deleted
                           \/ /\ clauses'[conflict].deleted = TRUE
                              /\ uip.resolved = {} /\ ReasonLits \subseteq clauses[conflict].lits
                              /\ ~ clauses[r].learnt \/ clauses[conflict].learnt
    OBVIOUS
  <2>2. cls[conflict] = clauses[conflict]
    BY <1>10, <1>16, <2>1
  <2>3. clauses[conflict].deleted \in BOOLEAN
    BY <1>10 DEF ClauseType
  <2>4. CASE subsumed
    <3>1. c2.deleted = TRUE
      BY <1>19, <2>4
    <3> QED
      BY <1>19, <1>21, <1>22, <2>2, <2>4, <3>1
  <2>5. CASE ~ subsumed
    <3>1. c2.deleted = clauses[conflict].deleted
      BY <1>19, <2>2, <2>3, <2>5
    <3> QED
      BY <1>19, <1>21, <2>2, <3>1
  <2> QED
    BY <2>4, <2>5
<1>25. \A q \in DOMAIN clauses : q # r /\ q # conflict => clauses'[q] = clauses[q]
  BY <1>16, <1>21
<1>26. StrengthenedTo(p, r, first, second, lits)
  BY <1>4, <1>5, <1>9, <1>12, <1>21, <1>23, <1>24, <1>25 DEF StrengthenedTo
<1> QED
  BY <1>26

\* The watches of r, replaced by two: as strengthenOTF does.
LEMMA StrengthenedWatchesOK ==
    ASSUME Core, NEW r \in DOMAIN clauses, NEW first, NEW second, first # second,
           clauses' \in Seq(ClauseType), DOMAIN clauses' = DOMAIN clauses, r \in Live,
           {first, second} \subseteq clauses'[r].lits, clauses'[r].watched = {first, second},
           \A q \in DOMAIN clauses : q # r =>
               /\ clauses'[q].lits = clauses[q].lits
               /\ clauses'[q].watched = clauses[q].watched,
           Live' \subseteq Live,
           watches' = StrengthenedWatches(r, first, second, Cardinality(clauses'[r].lits))
    PROVE  WatchesOK'
<1>1. WatchesOK /\ r \in Nat /\ clauses'[r].lits \in SUBSET Lits
  <2>1. clauses'[r] \in ClauseType /\ clauses \in Seq(ClauseType)
    BY DEF Core, ClausesOK
  <2> QED
    BY <2>1 DEF Core, ClauseType
<1>2. PICK c : c = Cardinality(clauses'[r].lits)
  OBVIOUS
<1>3. PICK u : u = Watch(first, r, second, c)
  OBVIOUS
<1>4. PICK v : v = Watch(second, r, first, c)
  OBVIOUS
<1>5. watches' = {w \in watches : w.ref # r} \cup {u, v}
  BY <1>2, <1>3, <1>4 DEF StrengthenedWatches
<1>6. /\ u \in WatchType /\ u.ref = r /\ u.lit = first /\ u.imp = second /\ (u.binary <=> c = 2)
      /\ v \in WatchType /\ v.ref = r /\ v.lit = second /\ v.imp = first /\ (v.binary <=> c = 2)
  BY <1>1, <1>3, <1>4 DEF Watch, WatchType
<1>7. ASSUME NEW w \in watches'
      PROVE  (w \in watches /\ w.ref # r) \/ w = u \/ w = v
  BY <1>5
<1>8. ASSUME NEW w \in watches'
      PROVE  /\ w \in WatchType /\ w.ref \in DOMAIN clauses'
             /\ w.lit \in clauses'[w.ref].watched /\ w.lit \in clauses'[w.ref].lits
             /\ w.imp \in clauses'[w.ref].lits \ {w.lit}
             /\ w.binary <=> Cardinality(clauses'[w.ref].lits) = 2
  <2>1. CASE w = u \/ w = v
    BY <2>1, <1>2, <1>6
  <2>2. CASE w \in watches /\ w.ref # r
    <3>1. /\ w \in WatchType /\ w.ref \in DOMAIN clauses
          /\ w.lit \in clauses[w.ref].watched /\ w.lit \in clauses[w.ref].lits
          /\ w.imp \in clauses[w.ref].lits \ {w.lit}
          /\ w.binary <=> Cardinality(clauses[w.ref].lits) = 2
      BY <2>2, <1>1 DEF WatchesOK
    <3> QED
      BY <2>2, <3>1
  <2> QED
    BY <2>1, <2>2, <1>7
<1>9. ASSUME NEW x \in watches', NEW w \in watches', x.ref = w.ref, x.lit = w.lit
      PROVE  x = w
  <2>1. CASE x.ref = r
    BY <2>1, <1>6, <1>7, <1>9
  <2>2. CASE x.ref # r
    <3>1. x \in watches /\ w \in watches
      BY <2>2, <1>6, <1>7, <1>9
    <3> QED
      BY <3>1, <1>1, <1>9 DEF WatchesOK
  <2> QED
    BY <2>1, <2>2
<1>10. ASSUME NEW q \in Live', NEW l \in clauses'[q].watched
       PROVE  \E w \in watches' : w.ref = q /\ w.lit = l
  <2>1. CASE q = r
    BY <2>1, <1>5, <1>6, <1>10
  <2>2. CASE q # r
    <3>1. q \in Live /\ l \in clauses[q].watched
      <4>1. q \in Live /\ q \in DOMAIN clauses
        BY <1>10 DEF Live
      <4> QED
        BY <2>2, <1>10, <4>1
    <3>2. PICK w \in watches : w.ref = q /\ w.lit = l
      BY <3>1, <1>1 DEF WatchesOK
    <3> QED
      BY <2>2, <3>2, <1>5
  <2> QED
    BY <2>1, <2>2
<1> QED
  BY <1>8, <1>9, <1>10 DEF WatchesOK

\* Strengthening a reason on the fly keeps the invariant: the clause follows from
\* the formula, and what was implied by it is behind the analysis.
LEMMA StrengthenKeeps == Core /\ Strengthen => Core'
<1> SUFFICES ASSUME Core, Strengthen PROVE Core'
  OBVIOUS
<1>1. PICK p : p = Parent.lit
  OBVIOUS
<1>2. PICK r : r = Parent.source
  OBVIOUS
<1>3. /\ pc = "uip" /\ pc' = "analyze" /\ Cardinality(Tracked) > 1 /\ SubsumesReason
      /\ conflict' = r
      /\ UNCHANGED <<problem, opts, trail, propagated, dlevels, visiting, uip,
                     rested, reduced, calls, assumptions, iconflict, cnfstate>>
  BY <1>2 DEF Strengthen, limits, call
<1>4. PICK first, second, lits :
               /\ first # p /\ first # second /\ clauses[r].watched = {first, p}
               /\ lits = {first} \cup ReasonLits /\ {first, second} \subseteq lits
               /\ lits \subseteq clauses[r].lits \ {p}
               /\ clauses'[r].lits = lits /\ clauses'[r].watched = {first, second}
               /\ clauses'[r].learnt = clauses[r].learnt
               /\ clauses'[r].deleted = clauses[r].deleted
               /\ clauses' \in Seq(ClauseType) /\ DOMAIN clauses' = DOMAIN clauses
               /\ \A q \in DOMAIN clauses : q # r /\ q # conflict => clauses'[q] = clauses[q]
               /\ conflict # r =>
                      /\ clauses'[conflict].lits = clauses[conflict].lits
                      /\ clauses'[conflict].watched = clauses[conflict].watched
                      /\ clauses'[conflict].learnt = clauses[conflict].learnt
                      /\ \/ clauses'[conflict].deleted = clauses[conflict].deleted
                         \/ /\ clauses'[conflict].deleted = TRUE
                            /\ uip.resolved = {} /\ ReasonLits \subseteq clauses[conflict].lits
                            /\ ~ clauses[r].learnt \/ clauses[conflict].learnt
               /\ watches' = StrengthenedWatches(r, first, second, Cardinality(lits))
  <2>1. PICK first, second, lits : StrengthenedTo(p, r, first, second, lits)
    BY <1>1, <1>2, StrengthenFacts
  <2> QED
    BY <2>1 DEF StrengthenedTo
<1>5. TrailOK /\ PositionsOK /\ DL \in 0 .. DL /\ DL \in Nat /\ Analyzing /\ ClausesOK
  BY <1>3, Levels, PositionsHold DEF Core, Analyzing
<1>6. TrailOK' /\ Moves(DL, {}) /\ DL' = DL /\ PositionsOK'
  BY <1>3, <1>5, UnchangedMoves, PositionsHoldAfter DEF TrailOK, DL
<1>7. /\ p \in Lits /\ -p \in Lits /\ p \in Assigned /\ ~ Unassigned(p)
      /\ -p \in Tracked /\ PositionOf(-p) = PositionOf(p)
      /\ r # NOREF /\ SourceOf(p) = r /\ LevelOf(p) = DL /\ DL > 0
      /\ \E k \in Tracked : k # -p
  BY <1>1, <1>2, <1>3, ParentFacts
<1>8. /\ r \in Live /\ r \in DOMAIN clauses /\ clauses[r] \in ClauseType
      /\ \A k \in clauses[r].lits \ {p} :
             /\ k \in Lits /\ IsFalse(k) /\ ~ Unassigned(k) /\ PositionOf(k) < PositionOf(p)
             /\ LevelOf(k) \in Nat
      /\ ReasonLits = {k \in clauses[r].lits \ {p} : LevelOf(k) > 0}
      /\ PositionOf(p) \in Nat
  BY <1>1, <1>2, <1>3, ReasonLitsFacts
<1>9. conflict \in DOMAIN clauses /\ conflict \in Live /\ visiting = {}
  BY <1>5, ConflictFacts
<1>10. \A q \in DOMAIN clauses : q # r =>
           /\ clauses'[q].lits = clauses[q].lits
           /\ clauses'[q].watched = clauses[q].watched
           /\ clauses'[q].learnt = clauses[q].learnt
  BY <1>4
<1>11. Live' \subseteq Live /\ r \in Live' /\ \A q \in Live : q \notin Live' => q = conflict /\ q # r
  BY <1>4, <1>8 DEF Live
<1>12. ClausesOK'
  <2>1. ASSUME NEW q \in Live'
        PROVE  clauses'[q].watched \subseteq clauses'[q].lits /\ IsPair(clauses'[q].watched)
    <3>1. CASE q = r
      <4>1. IsPair({first, second})
        BY <1>4 DEF IsPair
      <4> QED
        BY <3>1, <4>1, <1>4
    <3>2. CASE q # r
      <4>1. q \in Live /\ q \in DOMAIN clauses
        BY <1>11 DEF Live
      <4> QED
        BY <3>2, <4>1, <1>5, <1>10 DEF ClausesOK
    <3> QED
      BY <3>1, <3>2
  <2> QED
    BY <1>4, <2>1 DEF ClausesOK
<1>13. WatchesOK'
  <2>1. /\ {first, second} \subseteq clauses'[r].lits
        /\ watches' = StrengthenedWatches(r, first, second, Cardinality(clauses'[r].lits))
        /\ \A q \in DOMAIN clauses : q # r =>
               /\ clauses'[q].lits = clauses[q].lits
               /\ clauses'[q].watched = clauses[q].watched
    BY <1>4, <1>10
  <2>2. /\ first # second /\ clauses' \in Seq(ClauseType) /\ DOMAIN clauses' = DOMAIN clauses
        /\ clauses'[r].watched = {first, second} /\ r \in DOMAIN clauses /\ r \in Live
        /\ Live' \subseteq Live
    BY <1>4, <1>8, <1>11
  <2> QED
    BY <2>1, <2>2, StrengthenedWatchesOK, Zenon
<1>14. VisitingOK'
  BY <1>3, <1>9 DEF VisitingOK
<1>15. \A k : /\ IsFalse(k)' <=> IsFalse(k)
              /\ LevelOf(k)' = LevelOf(k) /\ PositionOf(k)' = PositionOf(k)
  BY <1>3 DEF IsFalse, Assigned, LevelOf, PositionOf
<1>16. \A k \in lits : IsFalse(k) /\ PositionOf(k) < PositionOf(p) /\ k \in Lits /\ LevelOf(k) \in Nat
  BY <1>4, <1>8
<1>17. AnalysisOK' /\ UipSound'
  <2>1. \A l \in clauses'[conflict'].lits : IsFalse(l)'
    BY <1>3, <1>4, <1>15, <1>16
  <2> QED
    BY <1>3, <1>11, <2>1 DEF Core, AnalysisOK, UipSound
<1>18. \A l \in Lits : l \in Assigned' => SourceOf(l)' \in {NOREF} \cup DOMAIN clauses'
  <2>1. \A l \in Lits : l \in Assigned => SourceOf(l) \in {NOREF} \cup DOMAIN clauses
    BY DEF Core, RestOK
  <2>2. PICK refs : refs = {NOREF} \cup DOMAIN clauses
    OBVIOUS
  <2>3. refs = {NOREF} \cup DOMAIN clauses'
    BY <1>4, <2>2
  <2>4. \A e \in {} : e.source \in refs
    OBVIOUS
  <2>5. \A l \in Lits : l \in Assigned' => SourceOf(l)' \in refs
    BY <1>5, <1>6, <2>1, <2>2, <2>4, SourcesMove
  <2> QED
    BY <2>3, <2>5
<1>19. RestOK'
  BY <1>3, <1>4, <1>8, <1>18 DEF Core, RestOK, Propagating
<1>20. \A m \in Models : Satisfies(m, ReasonLits)
  BY <1>3, ResolventSound, SubsumingResolvent
<1>21. Sound'
  <2>1. ASSUME NEW q \in DOMAIN clauses', NEW m \in Models PROVE Satisfies(m, clauses'[q].lits)
    <3>1. CASE q = r
      BY <3>1, <1>4, <1>20, <2>1 DEF Satisfies
    <3>2. CASE q # r
      BY <3>2, <1>4, <1>10, <2>1 DEF Core, Sound, Satisfies
    <3> QED
      BY <3>1, <3>2
  <2> QED
    BY <1>3, <1>5, <1>6, <2>1, SoundMoves DEF Core
<1>22. Complete'
  <2>1. ASSUME NEW m \in Assignments, Roots \subseteq m,
               \A q \in Live' : ~ clauses'[q].learnt => Satisfies(m, clauses'[q].lits),
               NEW q \in Live, ~ clauses[q].learnt
        PROVE  Satisfies(m, clauses[q].lits)
    <3>1. CASE q = r
      <4>1. Satisfies(m, lits)
        BY <3>1, <1>4, <1>11, <2>1
      <4> QED
        BY <3>1, <4>1, <1>4 DEF Satisfies
    <3>2. CASE q # r /\ q \in Live'
      BY <3>2, <1>10, <2>1 DEF Live
    <3>3. CASE q # r /\ q \notin Live'
      <4>1. q = conflict /\ q \in DOMAIN clauses
        BY <3>3, <1>11, <2>1 DEF Live
      <4>2. ~ clauses[r].learnt /\ ReasonLits \subseteq clauses[conflict].lits
        BY <3>3, <4>1, <1>4, <2>1 DEF Live
      <4>3. Satisfies(m, lits)
        BY <4>2, <1>4, <1>11, <2>1
      <4>4. PICK x \in lits : x \in m
        BY <4>3 DEF Satisfies
      <4>5. LevelOf(x) # 0
        BY <1>5, <1>16, <2>1, <4>4, RootFalseInModels
      <4>6. x \in ReasonLits
        BY <1>4, <1>8, <1>16, <4>4, <4>5
      <4> QED
        BY <4>1, <4>2, <4>4, <4>6 DEF Satisfies
    <3> QED
      BY <3>1, <3>2, <3>3
  <2>2. Complete
    BY DEF Core
  <2> QED
    BY <1>3, <1>5, <1>6, <2>1, <2>2, CompleteMoves
<1>23. ReasonsOK'
  <2>1. Pivots' = lits /\ Analyzing' /\ DL' = DL
    BY <1>3, <1>4, <1>6 DEF Pivots, Analyzing
  <2>2. \E k \in lits : LevelOf(k) = DL
    <3>1. PICK k \in Tracked : k # -p
      BY <1>7
    <3>2. k \in Resolved.seen \ Resolved.resolved /\ LevelOf(k) = DL
      BY <1>1, <3>1 DEF Resolved, Tracked, Resolvent
    <3>3. k \in ReasonLits
      BY <1>3, <3>2, SubsumingResolvent
    <3> QED
      BY <1>4, <3>2, <3>3
  <2>3. ASSUME NEW l \in Lits, LevelOf(l) = DL,
               \A k \in lits : PositionOf(k) < PositionOf(l)
        PROVE  Spent(l)'
    BY <1>15, <2>1, <2>2, <2>3 DEF Spent
  <2>4. ASSUME NEW l \in Lits, HasReason(l)
        PROVE  (ReasonFor(l, SourceOf(l)) /\ KeepsReason(l)) \/ Spent(l)'
    <3>1. l \in Assigned /\ ~ Unassigned(l) /\ PositionOf(l) \in Nat /\ LevelOf(l) > 0
      BY <1>5, <2>4 DEF HasReason, Unassigned, PositionsOK
    <3>2. CASE Spent(l)
      <4>1. LevelOf(l) = DL /\ \A k \in uip.seen : PositionOf(k) < PositionOf(l)
        BY <1>3, <3>2 DEF Spent, Pivots
      <4>2. PositionOf(-p) < PositionOf(l)
        BY <1>7, <4>1 DEF Tracked, Resolvent
      <4>3. ASSUME NEW k \in lits PROVE PositionOf(k) < PositionOf(l)
        <5>1. PositionOf(k) < PositionOf(p) /\ PositionOf(p) < PositionOf(l)
          BY <1>7, <1>16, <4>2
        <5>2. PositionOf(k) \in Nat
          BY <1>5, <1>16 DEF PositionsOK, IsFalse, Unassigned
        <5> QED
          BY <1>8, <3>1, <5>1, <5>2
      <4> QED
        BY <2>3, <4>1, <4>3
    <3>3. CASE ReasonFor(l, SourceOf(l))
      <4>1. PICK q : q = SourceOf(l)
        OBVIOUS
      <4>2. /\ q \in Live /\ l \in clauses[q].watched /\ q \in DOMAIN clauses
            /\ \A k \in clauses[q].lits \ {l} : IsFalse(k)
        BY <3>3, <4>1 DEF ReasonFor, Live
      <4>3. CASE q = r
        <5>1. l = p
          <6>1. p \in clauses[r].lits
            BY <1>5, <1>8, <1>4 DEF ClausesOK
          <6>2. ~ IsFalse(p)
            BY <1>5, <1>7 DEF IsFalse, PositionsOK
          <6> QED
            BY <4>2, <4>3, <6>1, <6>2
        <5> QED
          BY <1>7, <1>16, <2>3, <5>1
      <4>4. CASE q # r
        <5>1. q \in Live'
          <6>1. SUFFICES ASSUME q \notin Live' PROVE FALSE
            OBVIOUS
          <6>2. q = conflict /\ uip.resolved = {}
            BY <1>4, <1>11, <4>2, <4>4, <6>1 DEF Live
          <6>3. uip.seen = NonRoot(clauses[conflict].lits)
            BY <1>3, <6>2 DEF Core, AnalysisOK
          <6>4. l \in clauses[conflict].lits
            BY <1>5, <4>2, <6>2 DEF ClausesOK
          <6>5. l \in uip.seen
            BY <3>1, <6>3, <6>4 DEF NonRoot
          <6>6. IsFalse(l)
            BY <1>3, <6>5 DEF Core, AnalysisOK
          <6> QED
            BY <1>5, <3>1, <6>6 DEF IsFalse, PositionsOK
        <5> QED
          BY <1>10, <3>3, <4>1, <4>2, <4>4, <5>1 DEF KeepsReason
      <4> QED
        BY <4>3, <4>4
    <3> QED
      BY <2>4, <3>2, <3>3 DEF Core, ReasonsOK
  <2>5. \A e \in {} : e.source # NOREF /\ e.level > 0 => ReasonFor(e.lit, e.source)'
    OBVIOUS
  <2> QED
    BY <1>5, <1>6, <2>4, <2>5, ReasonsMove
<1> QED
  BY <1>6, <1>12, <1>13, <1>14, <1>17, <1>19, <1>21, <1>22, <1>23 DEF Core

-----------------------------------------------------------------------------
(***************************************************************************)
(* Minimizing and learning a clause.                                       *)
(***************************************************************************)
MixedLevel(l) == Cardinality({k \in Lower : LevelOf(k) = LevelOf(l)}) > 1

GoneStep(f, i) ==
    \/ trail[i].level = 0
    \/ -trail[i].lit \in Lower
    \/ /\ trail[i].source # NOREF /\ MixedLevel(trail[i].lit)
       /\ \A k \in clauses[trail[i].source].lits \ {trail[i].lit} :
              PositionOf(k) \in 1 .. i - 1 /\ f[PositionOf(k)]

\* The function that Removable chooses exists.
LEMMA GoneSteps ==
    ASSUME trail \in Seq(EntryType)
    PROVE  \E f : /\ \A i \in DOMAIN trail : f[i] <=> GoneStep(f, i)
                  /\ Removable = {l \in Lower :
                         LET e == trail[PositionOf(l)] IN
                         /\ e.source # NOREF /\ MixedLevel(l)
                         /\ \A k \in clauses[e.source].lits \ {e.lit} : f[PositionOf(k)]}
<1> DEFINE Is(f, n) == f = [i \in 1 .. n |-> GoneStep(f, i)]
           S == {n \in Nat : \E f : Is(f, n)}
<1> HIDE DEF S
<1>1. ASSUME NEW n \in Nat, \A m \in 0 .. n - 1 : m \in S
      PROVE  n \in S
  <2>1. CASE n = 0
    <3> DEFINE g == [i \in 1 .. n |-> TRUE]
    <3>1. Is(g, n)
      BY <2>1
    <3> QED
      BY <3>1 DEF S
  <2>2. CASE n > 0
    <3>1. n - 1 \in S
      BY <1>1, <2>2
    <3>2. PICK f : Is(f, n - 1)
      BY <3>1 DEF S
    <3> DEFINE g == [i \in 1 .. n |-> GoneStep(f, i)]
    <3>3. \A i \in 1 .. n - 1 : g[i] = f[i]
      BY <3>2
    <3> HIDE DEF g
    <3>4. ASSUME NEW i \in 1 .. n PROVE GoneStep(f, i) = GoneStep(g, i)
      <4>1. \A h \in 1 .. i - 1 : g[h] = f[h]
        <5>1. \A h \in 1 .. i - 1 : h \in 1 .. n - 1
          BY <3>4
        <5> QED
          BY <3>3, <5>1
      <4>2. GoneStep(f, i) <=> GoneStep(g, i)
        BY <4>1 DEF GoneStep
      <4>3. GoneStep(f, i) \in BOOLEAN /\ GoneStep(g, i) \in BOOLEAN
        BY DEF GoneStep
      <4> QED
        BY <4>2, <4>3
    <3>5. Is(g, n)
      BY <3>4 DEF g
    <3> QED
      BY <3>5 DEF S
  <2> QED
    BY <2>1, <2>2
<1>2. Len(trail) \in S
  BY <1>1, NaturalInduction
<1>3. DOMAIN trail = 1 .. Len(trail)
  OBVIOUS
<1> DEFINE IsGone(f) == f = [i \in DOMAIN trail |-> GoneStep(f, i)]
<1>4. PICK f0 : IsGone(f0)
  BY <1>2, <1>3 DEF S
<1> DEFINE f == CHOOSE g : IsGone(g)
<1>5. IsGone(f)
  BY <1>4
<1>6. Removable = {l \in Lower :
                         LET e == trail[PositionOf(l)] IN
                         /\ e.source # NOREF /\ MixedLevel(l)
                         /\ \A k \in clauses[e.source].lits \ {e.lit} : f[PositionOf(k)]}
  BY DEF Removable, MixedLevel, GoneStep
<1> HIDE DEF f
<1>7. \A i \in DOMAIN trail : f[i] = GoneStep(f, i)
  BY <1>5
<1>8. \A i \in DOMAIN trail : f[i] <=> GoneStep(f, i)
  BY <1>7
<1> QED
  BY <1>6, <1>8

\* A literal of a lower level with a reason is implied by the others of its clause.
LEMMA LowerReason ==
    ASSUME Core, NEW i \in 1 .. Len(trail), trail[i].source # NOREF,
           trail[i].level > 0, trail[i].level < DL
    PROVE  ReasonFor(trail[i].lit, trail[i].source)
<1>1. PICK e : e = trail[i]
  OBVIOUS
<1>2. TrailOK /\ PositionsOK /\ DL \in Nat
  BY PositionsHold, Levels DEF Core
<1>3. e.lit \in Assigned /\ LevelOf(e.lit) = e.level /\ SourceOf(e.lit) = e.source
      /\ e \in EntryType
  BY <1>1, <1>2 DEF PositionsOK
<1>4. HasReason(e.lit) /\ e.lit \in Lits /\ e.level \in Nat
  BY <1>1, <1>3 DEF HasReason, EntryType
<1>5. ~ Spent(e.lit)
  BY <1>1, <1>2, <1>3, <1>4 DEF Spent
<1> QED
  BY <1>1, <1>3, <1>4, <1>5 DEF Core, ReasonsOK

\* Minimizing the resolvent, by reasons and by binary clauses, leaves a clause that
\* follows from the formula.
LEMMA MinimizedSound ==
    ASSUME Core, pc = "uip", NEW l, Tracked = {l}, NEW m \in Models,
           NEW small, small = Lower \ Removable,
           NEW rest, rest = small \ RemovableByBinary(l, small)
    PROVE  Satisfies(m, {l} \cup rest)
<1>1. SUFFICES ASSUME ~ Satisfies(m, {l} \cup rest) PROVE FALSE
  OBVIOUS
<1>2. TrailOK /\ PositionsOK /\ DL \in Nat
  BY PositionsHold, Levels DEF Core
<1>3. /\ uip.seen \subseteq Lits
      /\ \A k \in uip.seen : IsFalse(k) /\ LevelOf(k) > 0 /\ ~ Unassigned(k)
  BY DEF Core, AnalysisOK, IsFalse, Unassigned
<1>4. \A k \in Lower : /\ k \in Lits /\ IsFalse(k) /\ ~ Unassigned(k)
                       /\ LevelOf(k) > 0 /\ LevelOf(k) < DL
  BY <1>3 DEF Lower, Resolvent
<1>5. l \in Lits /\ l \notin m
  BY <1>1, <1>3 DEF Tracked, Resolvent, Satisfies
<1>6. Roots \subseteq m /\ (\A r \in DOMAIN clauses : Satisfies(m, clauses[r].lits))
      /\ m \in Assignments
  BY ModelFacts DEF Core, Sound
<1>7. ASSUME NEW k \in small PROVE k \notin m
  <2>1. CASE k \in rest
    BY <1>1, <2>1 DEF Satisfies
  <2>2. CASE k \notin rest
    <3>1. k \in RemovableByBinary(l, small) /\ k \in Lits
      BY <1>4, <1>7, <2>2
    <3>2. PICK w \in watches : w.lit = l /\ w.binary /\ w.imp = -k
      BY <3>1 DEF RemovableByBinary
    <3>3. /\ w.ref \in DOMAIN clauses /\ w.lit \in clauses[w.ref].lits
          /\ w.imp \in clauses[w.ref].lits \ {w.lit} /\ Cardinality(clauses[w.ref].lits) = 2
      BY <3>2 DEF Core, WatchesOK
    <3>4. clauses[w.ref].lits \in SUBSET Lits
      <4>1. clauses[w.ref] \in ClauseType
        BY <3>3 DEF Core, ClausesOK
      <4> QED
        BY <4>1 DEF ClauseType
    <3>5. IsPair(clauses[w.ref].lits)
      BY <3>3, <3>4, Pairs
    <3>6. clauses[w.ref].lits = {l, -k}
      BY <3>2, <3>3, <3>5 DEF IsPair
    <3>7. -k \in m
      BY <1>5, <1>6, <3>3, <3>6 DEF Satisfies
    <3> QED
      BY <1>6, <3>1, <3>7, AssignmentFacts
  <2> QED
    BY <2>1, <2>2
<1>8. PICK f : /\ \A i \in DOMAIN trail : f[i] <=> GoneStep(f, i)
               /\ Removable = {k \in Lower :
                         LET e == trail[PositionOf(k)] IN
                         /\ e.source # NOREF /\ MixedLevel(k)
                         /\ \A x \in clauses[e.source].lits \ {e.lit} : f[PositionOf(x)]}
  BY <1>2, GoneSteps DEF TrailOK
<1> DEFINE S == {i \in Nat : i \in 1 .. Len(trail) /\ f[i] => trail[i].lit \in m}
<1>9. \A i \in Nat : i \in S <=> (i \in 1 .. Len(trail) /\ f[i] => trail[i].lit \in m)
  OBVIOUS
<1> HIDE DEF S
\* One step of the argument: the other literals of the reason are false in m.
<1>10. ASSUME NEW i \in 1 .. Len(trail), \A h \in 0 .. i - 1 : h \in S,
              trail[i].source # NOREF, trail[i].level > 0, trail[i].level < DL,
              \A x \in clauses[trail[i].source].lits \ {trail[i].lit} : f[PositionOf(x)]
       PROVE  trail[i].lit \in m
  <2>1. PICK e : e = trail[i]
    OBVIOUS
  <2>2. ReasonFor(e.lit, e.source)
    BY <1>10, <2>1, LowerReason
  <2>3. /\ e.source \in DOMAIN clauses
        /\ \A x \in clauses[e.source].lits \ {e.lit} :
               IsFalse(x) /\ PositionOf(x) < PositionOf(e.lit)
    BY <2>2 DEF ReasonFor, Live
  <2>4. PositionOf(e.lit) = i
    BY <1>2, <2>1 DEF PositionsOK
  <2>5. PICK y \in clauses[e.source].lits : y \in m
    BY <1>6, <2>3 DEF Satisfies
  <2>6. ASSUME y # e.lit PROVE FALSE
    <3>1. y \in Lits /\ -(-y) = y /\ -y \in Lits
      <4>1. clauses[e.source] \in ClauseType
        BY <2>3 DEF Core, ClausesOK
      <4>2. y \in Lits
        BY <4>1, <2>5 DEF ClauseType
      <4> QED
        BY <4>2, Negation
    <3>2. IsFalse(y) /\ PositionOf(y) < i /\ f[PositionOf(y)]
      BY <1>10, <2>1, <2>3, <2>4, <2>5, <2>6
    <3>3. -y \in Assigned /\ ~ Unassigned(y)
      BY <3>2 DEF IsFalse, Unassigned
    <3>4. PositionOf(y) \in 1 .. Len(trail) /\ trail[PositionOf(y)].lit = -y
      BY <1>2, <3>1, <3>3 DEF PositionsOK
    <3>5. PositionOf(y) \in 0 .. i - 1 /\ PositionOf(y) \in Nat
      BY <3>2, <3>4
    <3>6. -y \in m
      BY <1>9, <1>10, <3>2, <3>4, <3>5
    <3> QED
      BY <1>6, <2>5, <3>1, <3>6, AssignmentFacts
  <2> QED
    BY <2>1, <2>5, <2>6
<1>11. ASSUME NEW k \in Removable, NEW i, i = PositionOf(k), \A h \in 0 .. i - 1 : h \in S
       PROVE  trail[i].lit \in m /\ trail[i].lit = -k
  <2>1. k \in Lower /\ trail[i].source # NOREF
        /\ \A x \in clauses[trail[i].source].lits \ {trail[i].lit} : f[PositionOf(x)]
    BY <1>8, <1>11
  <2>2. k \in Lits /\ IsFalse(k) /\ ~ Unassigned(k) /\ LevelOf(k) > 0 /\ LevelOf(k) < DL
    BY <1>4, <2>1
  <2>3. i \in 1 .. Len(trail) /\ trail[i].level = LevelOf(k)
    BY <1>2, <1>11, <2>2 DEF PositionsOK, LevelOf
  <2>4. trail[i].lit = -k
    <3>1. -k \in Assigned /\ PositionOf(-k) = i
      BY <1>2, <1>11, <2>2 DEF IsFalse, PositionsOK
    <3> QED
      BY <1>2, <3>1 DEF PositionsOK
  <2>5. trail[i].lit \in m
    BY <1>10, <1>11, <2>1, <2>2, <2>3
  <2> QED
    BY <2>4, <2>5
<1>12. ASSUME NEW i \in Nat, \A h \in 0 .. i - 1 : h \in S
       PROVE  i \in S
  <2>1. SUFFICES ASSUME i \in 1 .. Len(trail), f[i] PROVE trail[i].lit \in m
    BY <1>9
  <2>2. PICK e : e = trail[i]
    OBVIOUS
  <2>3. /\ e \in EntryType /\ e.lit \in Assigned /\ e.lit \in Lits /\ LevelOf(e.lit) = e.level
        /\ -e.lit \in Lits /\ -(-e.lit) = e.lit /\ PositionOf(-e.lit) = i /\ e.level \in Nat
    <3>1. e \in EntryType /\ e.lit \in Assigned /\ LevelOf(e.lit) = e.level /\ PositionOf(-e.lit) = i
      BY <1>2, <2>1, <2>2 DEF PositionsOK
    <3> QED
      BY <3>1, Negation DEF EntryType
  <2>4. GoneStep(f, i)
    <3>1. i \in DOMAIN trail
      BY <1>2, <2>1 DEF TrailOK
    <3> QED
      BY <1>8, <2>1, <3>1
  <2>5. CASE e.level = 0
    BY <1>6, <2>2, <2>3, <2>5 DEF Roots
  <2>6. CASE -e.lit \in Lower
    <3>1. CASE -e.lit \in small
      <4>1. -e.lit \notin m
        BY <1>7, <3>1
      <4> QED
        BY <1>6, <2>2, <2>3, <4>1, AssignmentFacts
    <3>2. CASE -e.lit \in Removable
      BY <1>11, <1>12, <2>3, <3>2
    <3> QED
      BY <2>6, <3>1, <3>2
  <2>7. CASE /\ e.level # 0 /\ e.source # NOREF /\ MixedLevel(e.lit)
             /\ \A k \in clauses[e.source].lits \ {e.lit} :
                    PositionOf(k) \in 1 .. i - 1 /\ f[PositionOf(k)]
    <3>1. PICK k \in Lower : LevelOf(k) = LevelOf(e.lit)
      <4>1. PICK mixed : mixed = {k \in Lower : LevelOf(k) = LevelOf(e.lit)}
        OBVIOUS
      <4>2. Cardinality(mixed) > 1
        BY <2>7, <4>1, Zenon DEF MixedLevel
      <4>3. Cardinality({}) = 0
        BY FS_EmptySet
      <4>4. mixed # {}
        BY <4>2, <4>3
      <4> QED
        BY <4>1, <4>4
    <3>2. e.level > 0 /\ e.level < DL
      BY <1>4, <2>3, <3>1
    <3> QED
      BY <1>10, <1>12, <2>1, <2>2, <2>7, <3>2
  <2> QED
    BY <2>2, <2>4, <2>5, <2>6, <2>7 DEF GoneStep
<1>13. Nat \subseteq S
  BY <1>12, NaturalInduction
<1>14. ASSUME NEW k \in Lower PROVE k \notin m
  <2>1. CASE k \in small
    BY <1>7, <2>1
  <2>2. CASE k \in Removable
    <3>1. PICK i : i = PositionOf(k)
      OBVIOUS
    <3>2. i \in 1 .. Len(trail) /\ k \in Lits
      BY <1>2, <1>4, <1>14, <3>1 DEF PositionsOK
    <3>3. \A h \in 0 .. i - 1 : h \in S
      BY <1>13, <3>2
    <3>4. -k \in m
      BY <1>11, <2>2, <3>1, <3>3
    <3> QED
      BY <1>6, <3>2, <3>4, AssignmentFacts
  <2> QED
    BY <1>14, <2>1, <2>2
<1>15. PICK x \in Resolvent : x \in m
  BY DEF Core, UipSound, Satisfies
<1>16. x \in Lower \/ x = l
  <2>1. x \in Lits /\ ~ Unassigned(x)
    BY <1>3, <1>15 DEF Resolvent
  <2>2. LevelOf(x) \in 0 .. DL
    BY <1>2, <2>1, Levels
  <2> QED
    BY <1>2, <1>15, <2>2 DEF Tracked, Lower
<1> QED
  BY <1>5, <1>14, <1>15, <1>16

\* What learning {l} \cup rest does, with a backtrack to level j: the clauses that it
\* subsumes go, and l is asserted.
Learns(l, rest, j, ref) ==
    /\ IsFalse(l) /\ LevelOf(l) = DL /\ ~ Unassigned(l) /\ l \notin rest
    /\ Tracked = {l} /\ rest \subseteq uip.seen
    /\ j = JumpLevel(rest) /\ j < DL /\ (rest = {} /\ ~ opts.chrono => j = 0)
    /\ \A k \in rest : IsFalse(k) /\ LevelOf(k) <= j /\ LevelOf(k) > 0
    /\ \A m \in Models : Satisfies(m, {l} \cup rest)
    /\ ref = Len(clauses) + 1
    /\ IF rest = {}
       THEN Backtrack(j, <<Entry(l, 0, NOREF)>>) /\ UNCHANGED <<clauses, watches>>
       ELSE /\ Backtrack(j, <<Entry(l, j, ref)>>)
            /\ \E second \in rest :
                   /\ LevelOf(second) = Highest(rest)
                   /\ clauses' = Append(
                          [r \in DOMAIN clauses |->
                              [clauses[r] EXCEPT !.deleted =
                                  @ \/ (clauses[r].learnt
                                        /\ ({l} \cup rest) \subseteq clauses[r].lits)]],
                          [lits |-> {l} \cup rest, watched |-> {l, second},
                           learnt |-> TRUE, deleted |-> FALSE])
                   /\ watches' = watches \cup
                          {Watch(l, ref, second, Cardinality({l} \cup rest)),
                           Watch(second, ref, l, Cardinality({l} \cup rest))}

\* What is learnt, and how far the backtrack goes.
LEMMA LearnFacts ==
    ASSUME Core, Learn
    PROVE  \E l \in Lits : \E rest \in SUBSET Lits : \E j \in 0 .. DL :
               Learns(l, rest, j, Len(clauses) + 1)
<1> DEFINE l == CHOOSE k \in Tracked : TRUE
           small == Lower \ Removable
           rest == small \ RemovableByBinary(l, small)
           learnt == {l} \cup rest
           ref == Len(clauses) + 1
           j == JumpLevel(rest)
<1>1. /\ pc = "uip" /\ Cardinality(Tracked) = 1
      /\ IF rest = {}
         THEN Backtrack(j, <<Entry(l, 0, NOREF)>>) /\ UNCHANGED <<clauses, watches>>
         ELSE /\ Backtrack(j, <<Entry(l, j, ref)>>)
              /\ \E second \in rest :
                     /\ LevelOf(second) = Highest(rest)
                     /\ clauses' = Append(
                            [r \in DOMAIN clauses |->
                                [clauses[r] EXCEPT !.deleted =
                                    @ \/ (clauses[r].learnt /\ learnt \subseteq clauses[r].lits)]],
                            [lits |-> learnt, watched |-> {l, second},
                             learnt |-> TRUE, deleted |-> FALSE])
                     /\ watches' = watches \cup
                            {Watch(l, ref, second, Cardinality(learnt)),
                             Watch(second, ref, l, Cardinality(learnt))}
  BY DEF Learn
<1>2. TrailOK /\ PositionsOK /\ DL \in Nat
  BY PositionsHold, Levels DEF Core
<1>3. /\ uip.seen \subseteq Lits
      /\ \A k \in uip.seen : IsFalse(k) /\ LevelOf(k) > 0 /\ ~ Unassigned(k)
  BY <1>1 DEF Core, AnalysisOK, IsFalse, Unassigned
<1>4. Tracked = {l}
  <2>1. Tracked \in SUBSET Lits
    BY <1>3 DEF Tracked, Resolvent
  <2>2. IsFiniteSet(Tracked)
    BY <2>1, FiniteLits
  <2>3. PICK x : Tracked = {x}
    BY <1>1, <2>2, FS_Singleton
  <2> QED
    BY <2>3
<1>5. \A m \in Models : Satisfies(m, {l} \cup rest)
  BY <1>1, <1>4, MinimizedSound
<1>6. rest \subseteq Lower
  OBVIOUS
<1>7. l \in Tracked
  BY <1>4
<1> HIDE DEF l, small, rest
<1>8. l \in Lits /\ IsFalse(l) /\ LevelOf(l) = DL /\ ~ Unassigned(l) /\ DL > 0
  BY <1>3, <1>7 DEF Tracked, Resolvent
<1>9. \A k \in Lower : k \in Lits /\ IsFalse(k) /\ ~ Unassigned(k) /\ LevelOf(k) > 0 /\ LevelOf(k) < DL
  BY <1>3 DEF Lower, Resolvent
<1>10. rest \in SUBSET Lits /\ l \notin rest
  BY <1>2, <1>6, <1>8, <1>9
<1>11. Highest(rest) \in 0 .. DL /\ (\A k \in rest : LevelOf(k) <= Highest(rest)) /\ Highest(rest) < DL
  <2>1. /\ Highest(rest) \in 0 .. DL /\ \A k \in rest : LevelOf(k) <= Highest(rest)
        /\ Highest(rest) = 0 \/ \E k \in rest : LevelOf(k) = Highest(rest)
    BY <1>2, <1>6, <1>9, <1>10, HighestFacts
  <2> QED
    BY <1>6, <1>8, <1>9, <2>1
<1>12. j \in 0 .. DL /\ j < DL /\ Highest(rest) <= j
  BY <1>2, <1>8, <1>11 DEF JumpLevel
<1>13. \A k \in rest : IsFalse(k) /\ LevelOf(k) <= j /\ LevelOf(k) > 0
  <2>1. \A k \in rest : LevelOf(k) \in Nat
    BY <1>2, <1>6, <1>9 DEF PositionsOK
  <2> QED
    BY <1>2, <1>6, <1>9, <1>11, <1>12, <2>1
<1>14. rest = {} /\ ~ opts.chrono => j = 0
  <2>1. SUFFICES ASSUME rest = {}, ~ opts.chrono PROVE j = 0
    OBVIOUS
  <2>2. Highest(rest) = 0
    BY <1>2, <1>10, <2>1, HighestFacts
  <2> QED
    BY <2>1, <2>2 DEF JumpLevel
<1>15. rest \subseteq uip.seen
  BY <1>6 DEF Lower, Resolvent
<1>16. j = JumpLevel(rest)
  OBVIOUS
<1> HIDE DEF j
<1> QED
  BY <1>1, <1>4, <1>5, <1>8, <1>10, <1>12, <1>13, <1>14, <1>15, <1>16 DEF Learns

\* What adding clause c does to the clauses; those that it subsumes go.
Added(c, ref) ==
    /\ clauses' \in Seq(ClauseType) /\ DOMAIN clauses' = DOMAIN clauses \cup {ref}
    /\ ref \notin DOMAIN clauses /\ ref # NOREF /\ ref \in Nat
    /\ clauses'[ref] = c
    /\ \A r \in DOMAIN clauses :
           /\ clauses'[r].lits = clauses[r].lits /\ clauses'[r].watched = clauses[r].watched
           /\ clauses'[r].learnt = clauses[r].learnt
           /\ \/ clauses'[r].deleted = clauses[r].deleted
              \/ clauses[r].learnt /\ clauses'[r].deleted = TRUE /\ c.lits \subseteq clauses[r].lits

\* What Append adds to a sequence.
LEMMA AppendFacts ==
    ASSUME NEW T, NEW s \in Seq(T), NEW c \in T, NEW t, t = Append(s, c)
    PROVE  /\ t \in Seq(T) /\ Len(t) = Len(s) + 1 /\ t[Len(s) + 1] = c
           /\ \A r \in 1 .. Len(s) : t[r] = s[r]
OBVIOUS

\* Appending a clause to the others does what Added says.
LEMMA AppendedClause ==
    ASSUME clauses \in Seq(ClauseType), NEW c \in ClauseType,
           clauses' = Append(
                [r \in DOMAIN clauses |->
                    [clauses[r] EXCEPT !.deleted =
                        @ \/ (clauses[r].learnt /\ c.lits \subseteq clauses[r].lits)]], c)
    PROVE  Added(c, Len(clauses) + 1)
<1> DEFINE n == Len(clauses)
           mark(r) == clauses[r].learnt /\ c.lits \subseteq clauses[r].lits
           new(r) == [clauses[r] EXCEPT !.deleted = clauses[r].deleted \/ mark(r)]
           cls == [r \in 1 .. n |-> new(r)]
<1>1. n \in Nat /\ DOMAIN clauses = 1 .. n /\ \A r \in 1 .. n : clauses[r] \in ClauseType
  OBVIOUS
<1>2. ASSUME NEW r \in 1 .. n
      PROVE  /\ new(r) \in ClauseType
             /\ new(r).lits = clauses[r].lits /\ new(r).watched = clauses[r].watched
             /\ new(r).learnt = clauses[r].learnt
             /\ new(r).deleted = (clauses[r].deleted \/ mark(r))
             /\ clauses[r].deleted \in BOOLEAN
  BY <1>1 DEF ClauseType
<1>3. clauses' = Append(cls, c)
  BY <1>1
<1> HIDE DEF n, new
<1>4. cls \in Seq(ClauseType) /\ Len(cls) = n /\ \A r \in 1 .. n : cls[r] = new(r)
  BY <1>1, <1>2
<1> HIDE DEF cls
<1>5. clauses' \in Seq(ClauseType) /\ Len(clauses') = n + 1 /\ clauses'[n + 1] = c
      /\ \A r \in 1 .. n : clauses'[r] = new(r)
  <2>1. PICK s \in Seq(ClauseType) : s = cls
    BY <1>4
  <2>2. PICK t : t = clauses'
    OBVIOUS
  <2>3. t = Append(s, c)
    BY <1>3, <2>1, <2>2
  <2>4. t \in Seq(ClauseType) /\ Len(t) = Len(s) + 1 /\ t[Len(s) + 1] = c
        /\ \A r \in 1 .. Len(s) : t[r] = s[r]
    BY <2>3, AppendFacts
  <2> QED
    BY <1>4, <2>1, <2>2, <2>4
<1>6. DOMAIN clauses' = 1 .. n + 1 /\ 1 .. n + 1 = (1 .. n) \cup {n + 1} /\ n + 1 \notin 1 .. n
  BY <1>1, <1>5
<1>7. ASSUME NEW r \in 1 .. n
      PROVE  \/ clauses'[r].deleted = clauses[r].deleted
             \/ clauses[r].learnt /\ clauses'[r].deleted = TRUE /\ c.lits \subseteq clauses[r].lits
  BY <1>2, <1>5, <1>7
<1>8. n + 1 # NOREF /\ n + 1 \in Nat
  BY <1>1 DEF NOREF
<1>9. n = Len(clauses)
  BY DEF n
<1>10. \A r \in DOMAIN clauses :
          /\ clauses'[r].lits = clauses[r].lits /\ clauses'[r].watched = clauses[r].watched
          /\ clauses'[r].learnt = clauses[r].learnt
          /\ \/ clauses'[r].deleted = clauses[r].deleted
             \/ clauses[r].learnt /\ clauses'[r].deleted = TRUE /\ c.lits \subseteq clauses[r].lits
  <2>1. SUFFICES ASSUME NEW r \in 1 .. n
                 PROVE  /\ clauses'[r].lits = clauses[r].lits
                        /\ clauses'[r].watched = clauses[r].watched
                        /\ clauses'[r].learnt = clauses[r].learnt
                        /\ \/ clauses'[r].deleted = clauses[r].deleted
                           \/ /\ clauses[r].learnt /\ clauses'[r].deleted = TRUE
                              /\ c.lits \subseteq clauses[r].lits
    BY <1>1
  <2>2. clauses'[r] = new(r)
    BY <1>5
  <2> QED
    BY <1>2, <1>7, <2>2
<1>11. DOMAIN clauses' = DOMAIN clauses \cup {n + 1} /\ n + 1 \notin DOMAIN clauses
  BY <1>1, <1>6
<1> QED
  BY <1>5, <1>8, <1>9, <1>10, <1>11 DEF Added

\* The two watches of a clause that is added.
LEMMA AddedWatchesOK ==
    ASSUME Core, NEW ref, NEW c \in ClauseType, Added(c, ref), NEW a, NEW b, a # b,
           {a, b} \subseteq c.lits, c.watched = {a, b}, ~ c.deleted,
           watches' = watches \cup {Watch(a, ref, b, Cardinality(c.lits)),
                                    Watch(b, ref, a, Cardinality(c.lits))}
    PROVE  WatchesOK' /\ ClausesOK' /\ Live' \subseteq Live \cup {ref} /\ ref \in Live'
<1>1. WatchesOK /\ c.lits \in SUBSET Lits /\ ref \in Nat /\ ref \notin DOMAIN clauses
      /\ ref \in DOMAIN clauses' /\ clauses'[ref] = c
  BY DEF Core, ClauseType, Added
<1>2. \A r \in DOMAIN clauses :
          clauses'[r].lits = clauses[r].lits /\ clauses'[r].watched = clauses[r].watched
  BY DEF Added
<1>3. Live' \subseteq Live \cup {ref} /\ ref \in Live'
  BY DEF Live, Added
<1>4. PICK n : n = Cardinality(c.lits)
  OBVIOUS
<1>5. PICK u : u = Watch(a, ref, b, n)
  OBVIOUS
<1>6. PICK v : v = Watch(b, ref, a, n)
  OBVIOUS
<1>7. watches' = watches \cup {u, v}
  BY <1>4, <1>5, <1>6
<1>8. /\ u \in WatchType /\ u.ref = ref /\ u.lit = a /\ u.imp = b /\ (u.binary <=> n = 2)
      /\ v \in WatchType /\ v.ref = ref /\ v.lit = b /\ v.imp = a /\ (v.binary <=> n = 2)
  BY <1>1, <1>5, <1>6 DEF Watch, WatchType
<1>9. ASSUME NEW w \in watches PROVE w.ref \in DOMAIN clauses
  BY <1>1, <1>9 DEF WatchesOK
<1>10. ASSUME NEW w \in watches'
      PROVE  /\ w \in WatchType /\ w.ref \in DOMAIN clauses'
             /\ w.lit \in clauses'[w.ref].watched /\ w.lit \in clauses'[w.ref].lits
             /\ w.imp \in clauses'[w.ref].lits \ {w.lit}
             /\ w.binary <=> Cardinality(clauses'[w.ref].lits) = 2
  <2>1. CASE w = u \/ w = v
    BY <2>1, <1>1, <1>4, <1>8
  <2>2. CASE w \in watches
    <3>1. /\ w \in WatchType /\ w.ref \in DOMAIN clauses
          /\ w.lit \in clauses[w.ref].watched /\ w.lit \in clauses[w.ref].lits
          /\ w.imp \in clauses[w.ref].lits \ {w.lit}
          /\ w.binary <=> Cardinality(clauses[w.ref].lits) = 2
      BY <2>2, <1>1 DEF WatchesOK
    <3>2. w.ref \in DOMAIN clauses'
      BY <3>1 DEF Added
    <3> QED
      BY <3>1, <3>2, <1>2
  <2> QED
    BY <2>1, <2>2, <1>7
<1>11. ASSUME NEW x \in watches', NEW w \in watches', x.ref = w.ref, x.lit = w.lit
      PROVE  x = w
  <2>1. CASE x \in watches /\ w \in watches
    BY <2>1, <1>1, <1>11 DEF WatchesOK
  <2>2. CASE ~ (x \in watches /\ w \in watches)
    BY <2>2, <1>1, <1>7, <1>8, <1>9, <1>11
  <2> QED
    BY <2>1, <2>2
<1>12. ASSUME NEW q \in Live', NEW l \in clauses'[q].watched
       PROVE  \E w \in watches' : w.ref = q /\ w.lit = l
  <2>1. CASE q = ref
    BY <2>1, <1>1, <1>7, <1>8, <1>12
  <2>2. CASE q # ref
    <3>1. q \in Live /\ q \in DOMAIN clauses
      BY <2>2, <1>3, <1>12 DEF Live
    <3>2. PICK w \in watches : w.ref = q /\ w.lit = l
      BY <3>1, <1>1, <1>2, <1>12 DEF WatchesOK
    <3> QED
      BY <3>2, <1>7
  <2> QED
    BY <2>1, <2>2
<1>13. WatchesOK'
  BY <1>10, <1>11, <1>12 DEF WatchesOK
<1>14. ASSUME NEW q \in Live'
       PROVE  clauses'[q].watched \subseteq clauses'[q].lits /\ IsPair(clauses'[q].watched)
  <2>1. CASE q = ref
    BY <2>1, <1>1 DEF IsPair
  <2>2. CASE q # ref
    <3>1. q \in Live /\ q \in DOMAIN clauses
      BY <2>2, <1>3, <1>14 DEF Live
    <3> QED
      BY <3>1, <1>2 DEF Core, ClausesOK
  <2> QED
    BY <2>1, <2>2
<1>15. ClausesOK'
  BY <1>14 DEF ClausesOK, Added
<1> QED
  BY <1>3, <1>13, <1>15

\* The rest of the state, after something is learnt.
LEMMA LearntRest ==
    ASSUME Core, Learn, \A l \in Lits : l \in Assigned' => SourceOf(l)' \in {NOREF} \cup DOMAIN clauses'
    PROVE  AnalysisOK' /\ UipSound' /\ VisitingOK' /\ RestOK' /\ ~ Analyzing'
<1>1. /\ pc = "uip" /\ pc' = "search" /\ conflict' = NOREF
      /\ uip' = [seen |-> {}, resolved |-> {}]
      /\ UNCHANGED <<problem, opts, visiting, rested, reduced, calls, assumptions,
                     iconflict, cnfstate>>
  BY DEF Learn, limits, call
<1>2. visiting = {}
  BY <1>1, IdleNotVisiting DEF Propagating
<1>3. AnalysisOK' /\ UipSound' /\ ~ Analyzing'
  BY <1>1 DEF AnalysisOK, UipSound, Analyzing
<1>4. VisitingOK'
  BY <1>1, <1>2 DEF VisitingOK
<1>5. RestOK'
  BY <1>1 DEF Core, RestOK, Propagating
<1> QED
  BY <1>3, <1>4, <1>5

\* Learning a clause keeps the invariant: it is the reason for what it asserts, and
\* the clauses that it subsumes are nobody's.
LEMMA LearnKeeps == Core /\ Learn => Core'
<1> SUFFICES ASSUME Core, Learn PROVE Core'
  OBVIOUS
<1>1. /\ pc = "uip" /\ Analyzing /\ problem' = problem
      /\ TrailOK /\ PositionsOK /\ DL \in Nat /\ ClausesOK /\ Sound /\ Complete
      /\ clauses \in Seq(ClauseType)
  BY PositionsHold, Levels DEF Core, Learn, Analyzing, ClausesOK
<1> DEFINE Marked(l, rest) ==
               [r \in DOMAIN clauses |->
                    [clauses[r] EXCEPT !.deleted =
                        @ \/ (clauses[r].learnt /\ ({l} \cup rest) \subseteq clauses[r].lits)]]
<1>0. PICK l \in Lits, rest \in SUBSET Lits, j \in 0 .. DL : Learns(l, rest, j, Len(clauses) + 1)
  BY LearnFacts
<1>r. PICK ref : ref = Len(clauses) + 1
  OBVIOUS
<1>2. /\ IsFalse(l) /\ LevelOf(l) = DL /\ ~ Unassigned(l) /\ l \notin rest
      /\ j < DL /\ (rest = {} /\ ~ opts.chrono => j = 0)
      /\ \A k \in rest : IsFalse(k) /\ LevelOf(k) <= j /\ LevelOf(k) > 0
      /\ \A m \in Models : Satisfies(m, {l} \cup rest)
      /\ ref = Len(clauses) + 1
      /\ IF rest = {}
         THEN Backtrack(j, <<Entry(l, 0, NOREF)>>) /\ UNCHANGED <<clauses, watches>>
         ELSE /\ Backtrack(j, <<Entry(l, j, ref)>>)
              /\ \E second \in rest :
                     /\ clauses' = Append(Marked(l, rest),
                            [lits |-> {l} \cup rest, watched |-> {l, second},
                             learnt |-> TRUE, deleted |-> FALSE])
                     /\ watches' = watches \cup
                            {Watch(l, ref, second, Cardinality({l} \cup rest)),
                             Watch(second, ref, l, Cardinality({l} \cup rest))}
  BY <1>0, <1>r DEF Learns
<1>3. j \in Nat /\ ref \in Nat /\ ref # NOREF /\ 0 <= j
  BY <1>1, <1>2 DEF NOREF
<1>4. ASSUME NEW k \in Lits, HasReason(k), LevelOf(k) <= j
      PROVE  ReasonFor(k, SourceOf(k))
  <2>1. ~ Spent(k)
    BY <1>1, <1>2, <1>3, <1>4 DEF Spent
  <2> QED
    BY <1>4, <2>1 DEF Core, ReasonsOK
<1>5. CASE rest = {}
  <2>1. PICK e : e = Entry(l, 0, NOREF)
    OBVIOUS
  <2>2. e.lit = l /\ e.level = 0 /\ e.source = NOREF /\ e \in EntryType
    BY <1>2, <2>1 DEF Entry, EntryType, NOREF
  <2>3. Backtrack(j, <<e>>) /\ UNCHANGED <<clauses, watches>>
    BY <1>2, <1>5, <2>1
  <2>4. Enqueued(<<e>>, {e}, j)
    BY <1>2, <1>3, <2>2 DEF Enqueued
  <2>5. TrailOK' /\ Moves(j, {e}) /\ PositionsOK'
    BY <1>1, <2>3, <2>4, BacktrackKeepsTrailOK, BacktrackMoves, PositionsHoldAfter
  <2>6. SameLits /\ Live' = Live
    BY <1>1, <2>3 DEF SameLits, Live
  <2>7. /\ Sound' /\ Complete'
        /\ \A x \in Lits : x \in Assigned' => SourceOf(x)' \in {NOREF} \cup DOMAIN clauses'
    <3>1. \A x \in {e} : x.source \in {NOREF} \cup DOMAIN clauses
      BY <2>2
    <3>2. \A x \in {e} : x.level = 0 => \A m \in Models : x.lit \in m
      BY <1>2, <1>5, <2>2 DEF Satisfies
    <3> QED
      BY <1>1, <2>5, <2>6, <3>1, <3>2, SameLitsKeeps
  <2>8. ClausesOK' /\ WatchesOK'
    BY <2>3, <2>6 DEF Core, ClausesOK, WatchesOK
  <2>9. ReasonsOK'
    <3>1. \A k \in Lits : HasReason(k) /\ LevelOf(k) <= j => ReasonFor(k, SourceOf(k)) /\ KeepsReason(k)
      BY <1>4, <2>3, <2>6 DEF KeepsReason, ReasonFor
    <3>2. \A x \in {e} : x.source # NOREF /\ x.level > 0 => ReasonFor(x.lit, x.source)'
      BY <2>2
    <3> QED
      BY <1>1, <2>5, <3>1, <3>2, ReasonsMove
  <2>10. AnalysisOK' /\ UipSound' /\ VisitingOK' /\ RestOK'
    BY <2>7, LearntRest
  <2> QED
    BY <2>5, <2>7, <2>8, <2>9, <2>10 DEF Core
<1>6. CASE rest # {}
  <2>1. PICK lits : lits = {l} \cup rest
    OBVIOUS
  <2>2. PICK second \in rest :
            /\ clauses' = Append(Marked(l, rest),
                   [lits |-> {l} \cup rest, watched |-> {l, second},
                    learnt |-> TRUE, deleted |-> FALSE])
            /\ watches' = watches \cup
                   {Watch(l, ref, second, Cardinality({l} \cup rest)),
                    Watch(second, ref, l, Cardinality({l} \cup rest))}
    BY <1>2, <1>6
  <2>3. PICK c : c = [lits |-> {l} \cup rest, watched |-> {l, second},
                      learnt |-> TRUE, deleted |-> FALSE]
    OBVIOUS
  <2>4. /\ c \in ClauseType /\ c.lits = lits /\ c.watched = {l, second} /\ c.learnt /\ ~ c.deleted
        /\ second # l /\ {l, second} \subseteq lits
    BY <1>2, <2>1, <2>3 DEF ClauseType
  <2>5. clauses' = Append(
                [r \in DOMAIN clauses |->
                    [clauses[r] EXCEPT !.deleted =
                        @ \/ (clauses[r].learnt /\ c.lits \subseteq clauses[r].lits)]], c)
    <3>1. c.lits = {l} \cup rest
      BY <2>1, <2>4
    <3> QED
      BY <2>2, <2>3, <3>1
  <2>6. Added(c, ref)
    BY <1>1, <1>2, <2>4, <2>5, AppendedClause
  <2>7. watches' = watches \cup {Watch(l, ref, second, Cardinality(c.lits)),
                                 Watch(second, ref, l, Cardinality(c.lits))}
    BY <2>1, <2>2, <2>4
  <2>8. WatchesOK' /\ ClausesOK' /\ Live' \subseteq Live \cup {ref} /\ ref \in Live'
    BY <2>4, <2>6, <2>7, AddedWatchesOK
  <2>9. PICK e : e = Entry(l, j, ref)
    OBVIOUS
  <2>10. e.lit = l /\ e.level = j /\ e.source = ref /\ e \in EntryType
    BY <1>2, <1>3, <2>9 DEF Entry, EntryType
  <2>11. Backtrack(j, <<e>>)
    BY <1>2, <1>6, <2>9
  <2>12. Enqueued(<<e>>, {e}, j)
    BY <1>2, <1>3, <2>10 DEF Enqueued
  <2>13. TrailOK' /\ Moves(j, {e}) /\ PositionsOK'
    BY <1>1, <2>11, <2>12, BacktrackKeepsTrailOK, BacktrackMoves, PositionsHoldAfter
  <2>14. /\ clauses'[ref] = c /\ ref \notin DOMAIN clauses
         /\ DOMAIN clauses' = DOMAIN clauses \cup {ref}
         /\ \A r \in DOMAIN clauses :
               /\ clauses'[r].lits = clauses[r].lits /\ clauses'[r].watched = clauses[r].watched
               /\ clauses'[r].learnt = clauses[r].learnt
               /\ \/ clauses'[r].deleted = clauses[r].deleted
                  \/ clauses[r].learnt /\ clauses'[r].deleted = TRUE /\ lits \subseteq clauses[r].lits
    BY <2>4, <2>6 DEF Added
  <2>15. j > 0
    <3>1. PICK k \in rest : TRUE
      BY <1>6
    <3>2. LevelOf(k) <= j /\ LevelOf(k) > 0 /\ LevelOf(k) \in Nat
      BY <1>1, <1>2, <3>1 DEF PositionsOK, IsFalse, Unassigned
    <3> QED
      BY <1>3, <3>2
  <2>16. ReasonFor(e.lit, ref)'
    <3>1. \A k \in clauses'[ref].lits \ {e.lit} :
               k \in Lits /\ IsFalse(k) /\ LevelOf(k) <= j /\ LevelOf(k) <= e.level
      BY <1>2, <2>1, <2>4, <2>10, <2>14
    <3>2. e.lit \in clauses'[ref].watched
      BY <2>4, <2>10, <2>14
    <3> QED
      BY <1>1, <2>8, <2>13, <3>1, <3>2, NewReason
  <2>17. ReasonsOK'
    <3>1. ASSUME NEW k \in Lits, HasReason(k), LevelOf(k) <= j
          PROVE  ReasonFor(k, SourceOf(k)) /\ KeepsReason(k)
      <4>1. PICK r : r = SourceOf(k)
        OBVIOUS
      <4>2. /\ ReasonFor(k, r) /\ r \in Live /\ k \in clauses[r].watched /\ r \in DOMAIN clauses
            /\ \A x \in clauses[r].lits \ {k} : LevelOf(x) <= LevelOf(k)
        BY <1>4, <3>1, <4>1 DEF ReasonFor, Live
      <4>3. ~ (lits \subseteq clauses[r].lits)
        <5>1. SUFFICES ASSUME l \in clauses[r].lits PROVE FALSE
          BY <2>1
        <5>2. l # k
          BY <1>1, <1>2, <3>1 DEF IsFalse, HasReason, PositionsOK
        <5>3. DL <= LevelOf(k) /\ LevelOf(k) \in Nat
          BY <1>1, <1>2, <3>1, <4>2, <5>1, <5>2 DEF HasReason, PositionsOK, Unassigned
        <5> QED
          BY <1>1, <1>2, <1>3, <3>1, <5>3
      <4>4. r \in Live'
        BY <2>14, <4>2, <4>3 DEF Live
      <4> QED
        BY <2>14, <4>1, <4>2, <4>4 DEF KeepsReason
    <3>2. \A x \in {e} : x.source # NOREF /\ x.level > 0 => ReasonFor(x.lit, x.source)'
      BY <2>10, <2>16
    <3> QED
      BY <1>1, <2>13, <3>1, <3>2, ReasonsMove
  <2>18. Sound'
    <3>1. ASSUME NEW r \in DOMAIN clauses', NEW m \in Models PROVE Satisfies(m, clauses'[r].lits)
      <4>1. CASE r = ref
        BY <1>2, <2>1, <2>4, <2>14, <3>1, <4>1
      <4>2. CASE r # ref
        BY <1>1, <2>14, <3>1, <4>2 DEF Sound, Satisfies
      <4> QED
        BY <4>1, <4>2
    <3>2. \A x \in {e} : x.level = 0 => \A m \in Models : x.lit \in m
      BY <2>10, <2>15
    <3> QED
      BY <1>1, <2>13, <3>1, <3>2, SoundMoves
  <2>19. Complete'
    <3>1. ASSUME NEW m \in Assignments, Roots \subseteq m,
                 \A r \in Live' : ~ clauses'[r].learnt => Satisfies(m, clauses'[r].lits),
                 NEW r \in Live, ~ clauses[r].learnt
          PROVE  Satisfies(m, clauses[r].lits)
      <4>1. r \in Live' /\ ~ clauses'[r].learnt /\ clauses'[r].lits = clauses[r].lits
        BY <2>14, <3>1 DEF Live
      <4> QED
        BY <3>1, <4>1
    <3> QED
      BY <1>1, <2>13, <3>1, CompleteMoves
  <2>20. \A x \in Lits : x \in Assigned' => SourceOf(x)' \in {NOREF} \cup DOMAIN clauses'
    <3>1. \A x \in Lits : x \in Assigned => SourceOf(x) \in {NOREF} \cup DOMAIN clauses'
      BY <2>14 DEF Core, RestOK
    <3>2. \A x \in {e} : x.source \in {NOREF} \cup DOMAIN clauses'
      BY <2>10, <2>14
    <3>3. PICK refs : refs = {NOREF} \cup DOMAIN clauses'
      OBVIOUS
    <3> QED
      BY <1>1, <2>13, <3>1, <3>2, <3>3, SourcesMove
  <2>21. AnalysisOK' /\ UipSound' /\ VisitingOK' /\ RestOK'
    BY <2>20, LearntRest
  <2> QED
    BY <2>8, <2>13, <2>17, <2>18, <2>19, <2>21 DEF Core
<1> QED
  BY <1>5, <1>6

-----------------------------------------------------------------------------
(***************************************************************************)
(* Reducing the clauses.                                                   *)
(***************************************************************************)
\* A watched literal that is false at level 0 is in a satisfied clause.
WatchedAtRoot ==
    \A r \in Live : \A l \in clauses[r].watched :
        IsFalse(l) /\ LevelOf(l) = 0 => RootSatisfied(r)

\* What reduce does to the clauses: gone are the learnt that go for their age.
ReducedTo(gone) ==
    /\ clauses' \in Seq(ClauseType) /\ DOMAIN clauses' = DOMAIN clauses
    /\ gone \subseteq Learnt \ ReasonRefs
    /\ \A r \in DOMAIN clauses :
           /\ clauses'[r].lits \subseteq clauses[r].lits
           /\ \A l \in clauses[r].lits \ clauses'[r].lits : IsFalse(l) /\ LevelOf(l) = 0
           /\ clauses'[r].learnt = clauses[r].learnt
           /\ clauses'[r].deleted <=> clauses[r].deleted \/ RootTrue(clauses[r]) # {} \/ r \in gone
           /\ \/ clauses'[r].watched = clauses[r].watched
              \/ clauses'[r].watched \in SortedPairs(clauses'[r].lits)

\* What sortClause may put first: two literals, a literal that alone is true included.
LEMMA PairsOfClause ==
    ASSUME NEW lits \in SUBSET Lits, NEW pair \in SortedPairs(lits)
    PROVE  /\ pair \subseteq lits /\ IsPair(pair)
           /\ \A l \in lits : IsTrue(l) /\ (\A k \in lits \ {l} : IsFalse(k) /\ ~ IsTrue(k)) => l \in pair
<1>1. \A s : Seconds(s) \subseteq s
  BY DEF Seconds
<1>2. \A s : Firsts(s) \subseteq s
  <2>1. SUFFICES ASSUME NEW s PROVE Firsts(s) \subseteq s
    OBVIOUS
  <2>2. CASE \E l \in s : Unassigned(l)
    BY <2>2 DEF Firsts
  <2>3. CASE (~ \E l \in s : Unassigned(l)) /\ {l \in s : IsTrue(l)} # {}
    BY <2>3 DEF Firsts
  <2>4. CASE (~ \E l \in s : Unassigned(l)) /\ {l \in s : IsTrue(l)} = {}
    BY <2>4 DEF Firsts
  <2> QED
    BY <2>2, <2>3, <2>4
<1>3. PICK a \in Firsts(lits) : \E b \in Seconds(lits \ {a}) : pair = {a, b}
  BY DEF SortedPairs
<1>b. PICK b \in Seconds(lits \ {a}) : pair = {a, b}
  BY <1>3
<1>4. a \in lits /\ b \in lits /\ a # b
  BY <1>1, <1>2, <1>3, <1>b
<1>5. ASSUME NEW l \in lits, IsTrue(l), \A k \in lits \ {l} : IsFalse(k) /\ ~ IsTrue(k)
      PROVE  l \in pair
  <2>1. ~ \E k \in lits : Unassigned(k)
    BY <1>5 DEF Unassigned, IsTrue, IsFalse
  <2>2. {k \in lits : IsTrue(k)} = {l}
    BY <1>5
  <2>3. Firsts(lits) \subseteq {l}
    BY <2>1, <2>2 DEF Firsts
  <2> QED
    BY <1>b, <2>3
<1> QED
  BY <1>b, <1>4, <1>5 DEF IsPair

\* What shrink does to a clause.
LEMMA ShrunkFacts ==
    ASSUME ClausesOK, NEW r \in DOMAIN clauses
    PROVE  /\ DOMAIN Shrunk = DOMAIN clauses
           /\ Shrunk[r] \in ClauseType
           /\ Shrunk[r].lits \subseteq clauses[r].lits
           /\ \A l \in clauses[r].lits \ Shrunk[r].lits : IsFalse(l) /\ LevelOf(l) = 0
           /\ Shrunk[r].learnt = clauses[r].learnt
           /\ Shrunk[r].watched = clauses[r].watched
           /\ Shrunk[r].deleted <=> clauses[r].deleted \/ RootTrue(clauses[r]) # {}
<1>1. PICK c : c = clauses[r]
  OBVIOUS
<1>2. c \in ClauseType
  BY <1>1 DEF ClausesOK
<1>3. /\ c.lits \in SUBSET Lits /\ c.watched \in SUBSET Lits /\ c.learnt \in BOOLEAN
      /\ c.deleted \in BOOLEAN
  BY <1>2 DEF ClauseType
<1>4. PICK ls : ls = IF Cardinality({l \in c.lits : ~ IsFalse(l)}) < 2
                     THEN c.lits ELSE c.lits \ RootFalse(c)
  OBVIOUS
<1>5. ls \subseteq c.lits /\ \A l \in c.lits \ ls : IsFalse(l) /\ LevelOf(l) = 0
  BY <1>4 DEF RootFalse
<1>6. Shrunk[r] = [c EXCEPT !.deleted = c.deleted \/ RootTrue(c) # {}, !.lits = ls]
  BY <1>1, <1>4 DEF Shrunk
<1>7. PICK d : d = (c.deleted \/ RootTrue(c) # {})
  OBVIOUS
<1>8. d \in BOOLEAN
  BY <1>7
<1>9. PICK s : s = Shrunk[r]
  OBVIOUS
<1>10. s = [c EXCEPT !.deleted = d, !.lits = ls]
  BY <1>6, <1>7, <1>9
<1>11. /\ s \in ClauseType /\ s.lits = ls /\ s.learnt = c.learnt /\ s.watched = c.watched
       /\ s.deleted = d
  BY <1>2, <1>3, <1>5, <1>8, <1>10 DEF ClauseType
<1>12. DOMAIN Shrunk = DOMAIN clauses
  BY DEF Shrunk
<1> QED
  BY <1>1, <1>5, <1>7, <1>9, <1>11, <1>12

\* reduce does what ReducedTo says.
LEMMA ReduceLearntsStep ==
    ASSUME Core, ReduceLearnts, \E r \in Learnt : ~ Shrunk[r].deleted
    PROVE  (\E gone : ReducedTo(gone)) /\ watches' = Attached(clauses')
<1>1. ClausesOK /\ clauses \in Seq(ClauseType)
  BY DEF Core, ClausesOK
<1> DEFINE left == {r \in Learnt : ~ Shrunk[r].deleted}
           large == {r \in left : Cardinality(Shrunk[r].lits) > 2}
<1>2. left # {}
  OBVIOUS
<1>3. \E gone \in SUBSET (large \ ReasonRefs) :
          \E pairs \in [large \ gone -> UNION {SortedPairs(Shrunk[r].lits) : r \in large}] :
             /\ \A r \in DOMAIN pairs : pairs[r] \in SortedPairs(Shrunk[r].lits)
             /\ clauses' = [r \in DOMAIN Shrunk |->
                    [Shrunk[r] EXCEPT !.deleted = @ \/ r \in gone,
                                      !.watched = IF r \in DOMAIN pairs THEN pairs[r] ELSE @]]
  BY <1>2, Zenon DEF ReduceLearnts
<1>4. watches' = Attached(clauses')
  BY <1>2, Zenon DEF ReduceLearnts
<1>5. PICK gone \in SUBSET (large \ ReasonRefs) :
          \E pairs \in [large \ gone -> UNION {SortedPairs(Shrunk[r].lits) : r \in large}] :
             /\ \A r \in DOMAIN pairs : pairs[r] \in SortedPairs(Shrunk[r].lits)
             /\ clauses' = [r \in DOMAIN Shrunk |->
                    [Shrunk[r] EXCEPT !.deleted = @ \/ r \in gone,
                                      !.watched = IF r \in DOMAIN pairs THEN pairs[r] ELSE @]]
  BY <1>3
<1>6. PICK pairs :
             /\ \A r \in DOMAIN pairs : pairs[r] \in SortedPairs(Shrunk[r].lits)
             /\ clauses' = [r \in DOMAIN Shrunk |->
                    [Shrunk[r] EXCEPT !.deleted = @ \/ r \in gone,
                                      !.watched = IF r \in DOMAIN pairs THEN pairs[r] ELSE @]]
  BY <1>5
<1>7. gone \subseteq Learnt \ ReasonRefs
  OBVIOUS
<1>8. DOMAIN Shrunk = DOMAIN clauses
  BY DEF Shrunk
<1> HIDE DEF left, large
<1> DEFINE new(r) == [Shrunk[r] EXCEPT !.deleted = @ \/ r \in gone,
                                       !.watched = IF r \in DOMAIN pairs THEN pairs[r] ELSE @]
<1>9. ASSUME NEW r \in DOMAIN clauses
      PROVE  /\ new(r) \in ClauseType
             /\ new(r).lits = Shrunk[r].lits /\ new(r).learnt = Shrunk[r].learnt
             /\ new(r).deleted <=> Shrunk[r].deleted \/ r \in gone
             /\ new(r).watched = Shrunk[r].watched \/ new(r).watched \in SortedPairs(Shrunk[r].lits)
  <2>1. PICK s : s = Shrunk[r]
    OBVIOUS
  <2>2. s \in ClauseType
    BY <1>1, <2>1, ShrunkFacts
  <2>3. /\ s.lits \in SUBSET Lits /\ s.watched \in SUBSET Lits /\ s.learnt \in BOOLEAN
        /\ s.deleted \in BOOLEAN
    BY <2>2 DEF ClauseType
  <2>4. PICK p : p = IF r \in DOMAIN pairs THEN pairs[r] ELSE s.watched
    OBVIOUS
  <2>5. p \in SUBSET Lits /\ (p = s.watched \/ p \in SortedPairs(s.lits))
    <3>1. r \in DOMAIN pairs => pairs[r] \in SortedPairs(s.lits)
      BY <1>6, <2>1
    <3>2. r \in DOMAIN pairs => pairs[r] \subseteq s.lits
      BY <3>1, <2>3, PairsOfClause
    <3> QED
      BY <2>3, <2>4, <3>1, <3>2
  <2>6. PICK d : d = (s.deleted \/ r \in gone)
    OBVIOUS
  <2>7. d \in BOOLEAN
    BY <2>6
  <2>8. new(r) = [s EXCEPT !.deleted = d, !.watched = p]
    BY <2>1, <2>4, <2>6
  <2>9. PICK x : x = new(r)
    OBVIOUS
  <2>10. x = [s EXCEPT !.deleted = d, !.watched = p]
    BY <2>8, <2>9
  <2>11. /\ x \in ClauseType /\ x.lits = s.lits /\ x.learnt = s.learnt
         /\ x.deleted = d /\ x.watched = p
    BY <2>2, <2>3, <2>5, <2>7, <2>10 DEF ClauseType
  <2> QED
    BY <2>1, <2>5, <2>6, <2>9, <2>11
<1> HIDE DEF new
<1>10. DOMAIN clauses' = DOMAIN clauses
  BY <1>6, <1>8
<1>11. \A r \in DOMAIN clauses : clauses'[r] = new(r)
  BY <1>6, <1>8 DEF new
<1>12. clauses' \in Seq(ClauseType)
  <2>1. PICK n \in Nat : n = Len(clauses) /\ DOMAIN clauses = 1 .. n
    BY <1>1
  <2>2. clauses' = [r \in 1 .. n |-> new(r)]
    BY <1>6, <1>8, <2>1 DEF new
  <2>3. \A r \in 1 .. n : new(r) \in ClauseType
    BY <1>9, <2>1
  <2>4. [r \in 1 .. n |-> new(r)] \in Seq(ClauseType)
    BY <2>3
  <2> QED
    BY <2>2, <2>4
<1>13. ASSUME NEW r \in DOMAIN clauses
       PROVE  /\ clauses'[r].lits \subseteq clauses[r].lits
              /\ \A l \in clauses[r].lits \ clauses'[r].lits : IsFalse(l) /\ LevelOf(l) = 0
              /\ clauses'[r].learnt = clauses[r].learnt
              /\ clauses'[r].deleted <=> clauses[r].deleted \/ RootTrue(clauses[r]) # {} \/ r \in gone
              /\ \/ clauses'[r].watched = clauses[r].watched
                 \/ clauses'[r].watched \in SortedPairs(clauses'[r].lits)
  BY <1>1, <1>9, <1>11, <1>13, ShrunkFacts
<1>14. ReducedTo(gone)
  BY <1>7, <1>10, <1>12, <1>13 DEF ReducedTo
<1> QED
  BY <1>4, <1>14

\* recycleWT leaves one watch per watched literal.
LEMMA AttachedWatchesOK ==
    ASSUME ClausesOK', watches' = Attached(clauses')
    PROVE  WatchesOK'
<1> DEFINE Other2(l, r) == CHOOSE k \in clauses'[r].watched : k # l
           W(l, r) == Watch(l, r, Other2(l, r), Cardinality(clauses'[r].lits))
<1>1. clauses' \in Seq(ClauseType)
  BY DEF ClausesOK
<1>2. ASSUME NEW r \in Live', NEW l \in clauses'[r].watched
      PROVE  /\ r \in DOMAIN clauses' /\ W(l, r) \in WatchType
             /\ W(l, r).ref = r /\ W(l, r).lit = l
             /\ l \in clauses'[r].lits /\ W(l, r).imp \in clauses'[r].lits \ {l}
             /\ W(l, r).binary <=> Cardinality(clauses'[r].lits) = 2
  <2>1. r \in DOMAIN clauses' /\ clauses'[r] \in ClauseType
    BY <1>1, <1>2 DEF Live
  <2>2. r \in Nat /\ clauses'[r].lits \in SUBSET Lits
    BY <1>1, <2>1 DEF ClauseType
  <2>3. clauses'[r].watched \subseteq clauses'[r].lits /\ IsPair(clauses'[r].watched)
    BY <1>2 DEF ClausesOK
  <2>4. PICK k : k = Other2(l, r)
    OBVIOUS
  <2>5. k \in clauses'[r].watched /\ k # l
    <3>1. \E x \in clauses'[r].watched : x # l
      BY <2>3 DEF IsPair
    <3> QED
      BY <2>4, <3>1
  <2>6. PICK c : c = Cardinality(clauses'[r].lits)
    OBVIOUS
  <2>7. W(l, r) = Watch(l, r, k, c)
    BY <2>4, <2>6
  <2>8. PICK w : w = W(l, r)
    OBVIOUS
  <2>9. w = [lit |-> l, ref |-> r, imp |-> k, binary |-> c = 2]
    BY <2>7, <2>8 DEF Watch
  <2>10. l \in Lits /\ k \in Lits /\ l \in clauses'[r].lits /\ k \in clauses'[r].lits
    BY <1>2, <2>2, <2>3, <2>5
  <2>11. PICK b : b = (c = 2)
    OBVIOUS
  <2>12. b \in BOOLEAN /\ w = [lit |-> l, ref |-> r, imp |-> k, binary |-> b]
    BY <2>9, <2>11
  <2>13. w \in WatchType /\ w.ref = r /\ w.lit = l /\ w.imp = k /\ w.binary = b
    BY <2>2, <2>10, <2>12 DEF WatchType
  <2> QED
    BY <2>1, <2>5, <2>6, <2>8, <2>10, <2>11, <2>13
<1>3. watches' = UNION {{W(l, r) : l \in clauses'[r].watched} : r \in Live'}
  BY Zenon DEF Attached, Live
<1> HIDE DEF W
<1>4. ASSUME NEW w \in watches'
      PROVE  \E r \in Live' : \E l \in clauses'[r].watched : w = W(l, r)
  BY <1>3
<1>5. ASSUME NEW r \in Live', NEW l \in clauses'[r].watched PROVE W(l, r) \in watches'
  BY <1>3
<1>6. ASSUME NEW w \in watches'
      PROVE  /\ w \in WatchType /\ w.ref \in DOMAIN clauses'
             /\ w.lit \in clauses'[w.ref].watched /\ w.lit \in clauses'[w.ref].lits
             /\ w.imp \in clauses'[w.ref].lits \ {w.lit}
             /\ w.binary <=> Cardinality(clauses'[w.ref].lits) = 2
  <2>1. PICK r \in Live' : \E l \in clauses'[r].watched : w = W(l, r)
    BY <1>4
  <2>2. PICK l \in clauses'[r].watched : w = W(l, r)
    BY <2>1
  <2> QED
    BY <2>2, <1>2
<1>7. ASSUME NEW v \in watches', NEW w \in watches', v.ref = w.ref, v.lit = w.lit PROVE v = w
  <2>1. v = W(v.lit, v.ref)
    <3>1. PICK r \in Live' : \E l \in clauses'[r].watched : v = W(l, r)
      BY <1>4
    <3> QED
      BY <3>1, <1>2
  <2>2. w = W(w.lit, w.ref)
    <3>1. PICK r \in Live' : \E l \in clauses'[r].watched : w = W(l, r)
      BY <1>4
    <3> QED
      BY <3>1, <1>2
  <2> QED
    BY <1>7, <2>1, <2>2
<1>8. ASSUME NEW r \in Live', NEW l \in clauses'[r].watched
      PROVE  \E w \in watches' : w.ref = r /\ w.lit = l
  BY <1>2, <1>5
<1> QED
  BY <1>6, <1>7, <1>8 DEF WatchesOK

\* reduce keeps the invariant, if shrink leaves a learnt clause.
LEMMA ReduceLearntsKeeps ==
    ASSUME Core, ReduceLearnts, WatchedAtRoot, \E r \in Learnt : ~ Shrunk[r].deleted
    PROVE  Core'
<1>1. TrailOK /\ DL \in 0 .. DL /\ PositionsOK
  BY Levels, PositionsHold DEF Core
<1>2. /\ pc = "reduce" /\ pc' = "search" /\ visiting = {} /\ visiting' = {}
      /\ UNCHANGED <<problem, opts, trail, propagated, dlevels, uip, conflict,
                     rested, reduced, calls, assumptions, iconflict, cnfstate>>
  BY DEF ReduceLearnts, PropagationDone, limits, call
<1>3. TrailOK' /\ PositionsOK' /\ Moves(DL, {})
  BY <1>1, <1>2, UnchangedMoves, PositionsHoldAfter DEF TrailOK, DL
<1>4. PICK gone : ReducedTo(gone)
  BY ReduceLearntsStep
<1>5. /\ clauses' \in Seq(ClauseType) /\ DOMAIN clauses' = DOMAIN clauses
      /\ gone \subseteq Learnt /\ (\A r \in gone : r \notin ReasonRefs)
      /\ \A r \in DOMAIN clauses :
           /\ clauses'[r].lits \subseteq clauses[r].lits
           /\ \A l \in clauses[r].lits \ clauses'[r].lits : IsFalse(l) /\ LevelOf(l) = 0
           /\ clauses'[r].learnt = clauses[r].learnt
           /\ clauses'[r].deleted <=> clauses[r].deleted \/ RootTrue(clauses[r]) # {} \/ r \in gone
           /\ \/ clauses'[r].watched = clauses[r].watched
              \/ clauses'[r].watched \in SortedPairs(clauses'[r].lits)
  BY <1>4 DEF ReducedTo
<1>6. \A r \in DOMAIN clauses : clauses[r] \in ClauseType /\ clauses'[r] \in ClauseType
  BY <1>5 DEF Core, ClausesOK
<1>7. \A r \in DOMAIN clauses : clauses[r].lits \in SUBSET Lits /\ clauses'[r].lits \in SUBSET Lits
  BY <1>6 DEF ClauseType
<1>8. \A r \in Live' : r \in Live /\ RootTrue(clauses[r]) = {} /\ r \notin gone
  BY <1>5 DEF Live
<1>9. \A r \in DOMAIN clauses : RootTrue(clauses[r]) = clauses[r].lits \cap Roots
  BY DEF RootTrue, Roots, IsTrue
<1>10. \A l \in Lits : IsTrue(l) => ~ IsFalse(l)
  BY <1>1 DEF PositionsOK, IsTrue, IsFalse
<1>11. ASSUME NEW r \in Live'
       PROVE  clauses'[r].watched \subseteq clauses'[r].lits /\ IsPair(clauses'[r].watched)
  <2>1. r \in Live /\ r \in DOMAIN clauses /\ clauses[r].lits \cap Roots = {}
    BY <1>8, <1>9, <1>11 DEF Live
  <2>2. CASE clauses'[r].watched = clauses[r].watched
    <3>1. clauses[r].watched \subseteq clauses[r].lits /\ IsPair(clauses[r].watched)
      BY <2>1 DEF Core, ClausesOK
    <3>2. \A l \in clauses[r].watched : ~ (IsFalse(l) /\ LevelOf(l) = 0)
      BY <2>1 DEF WatchedAtRoot, RootSatisfied
    <3>3. \A l \in clauses[r].watched : l \in clauses'[r].lits
      BY <1>5, <2>1, <3>1, <3>2
    <3> QED
      BY <2>2, <3>1, <3>3
  <2>3. CASE clauses'[r].watched \in SortedPairs(clauses'[r].lits)
    BY <1>7, <2>1, <2>3, PairsOfClause
  <2> QED
    BY <1>5, <2>1, <2>2, <2>3
<1>12. ClausesOK'
  BY <1>5, <1>11 DEF ClausesOK
<1>13. WatchesOK'
  BY <1>12, ReduceLearntsStep, AttachedWatchesOK
<1>14. ~ Analyzing /\ ~ Analyzing'
  BY <1>2 DEF Analyzing
<1>15. ReasonsOK'
  <2>1. ASSUME NEW l \in Lits, HasReason(l)
        PROVE  ReasonFor(l, SourceOf(l)) /\ KeepsReason(l)
    <3>1. PICK r : r = SourceOf(l)
      OBVIOUS
    <3>2. ReasonFor(l, r)
      BY <1>14, <2>1, <3>1, ReasonsAtRest DEF Core
    <3>3. /\ r \in Live /\ r \in DOMAIN clauses /\ l \in clauses[r].watched
          /\ \A k \in clauses[r].lits \ {l} : IsFalse(k)
          /\ clauses[r].watched \subseteq clauses[r].lits
      BY <3>2 DEF ReasonFor, Live, Core, ClausesOK
    <3>4. IsTrue(l) /\ ~ IsFalse(l) /\ LevelOf(l) # 0 /\ LevelOf(l) \in Nat
      BY <1>1, <1>10, <2>1 DEF HasReason, IsTrue, PositionsOK, Unassigned
    <3>5. \A k \in clauses[r].lits \ {l} : k \in Lits /\ IsFalse(k) /\ ~ IsTrue(k)
      BY <1>7, <1>10, <3>3
    <3>6. RootTrue(clauses[r]) = {}
      BY <3>4, <3>5 DEF RootTrue
    <3>7. r \in ReasonRefs
      <4>1. PositionOf(l) \in 1 .. Len(trail)
        BY <1>1, <2>1 DEF HasReason, PositionsOK, Unassigned
      <4>2. PositionOf(l) \in DOMAIN trail
        BY <1>1, <4>1 DEF TrailOK
      <4>3. trail[PositionOf(l)].level > 0 /\ trail[PositionOf(l)].source = r
        BY <2>1, <3>1 DEF HasReason, LevelOf, SourceOf
      <4> QED
        BY <4>2, <4>3 DEF ReasonRefs
    <3>8. r \in Live'
      BY <1>5, <3>3, <3>6, <3>7 DEF Live
    <3>9. l \in clauses'[r].lits
      BY <1>5, <3>3, <3>4
    <3>10. l \in clauses'[r].watched
      <4>1. CASE clauses'[r].watched = clauses[r].watched
        BY <3>3, <4>1
      <4>2. CASE clauses'[r].watched \in SortedPairs(clauses'[r].lits)
        <5>1. \A k \in clauses'[r].lits \ {l} : IsFalse(k) /\ ~ IsTrue(k)
          BY <1>5, <3>3, <3>5
        <5>2. clauses'[r].lits \in SUBSET Lits
          BY <1>7, <3>3
        <5> QED
          BY <3>4, <3>9, <4>2, <5>1, <5>2, PairsOfClause
      <4> QED
        BY <1>5, <3>3, <4>1, <4>2
    <3>11. clauses'[r].lits \subseteq clauses[r].lits
      BY <1>5, <3>3
    <3> QED
      BY <3>1, <3>2, <3>8, <3>10, <3>11 DEF KeepsReason
  <2>2. ClausesOK
    BY DEF Core
  <2> QED
    BY <1>1, <1>3, <2>1, <2>2, ReasonsMove
<1>16. \A m \in Models : m \in Assignments /\ Roots \subseteq m
  BY ModelFacts DEF Core, Sound
<1>17. Sound'
  <2>1. ASSUME NEW r \in DOMAIN clauses', NEW m \in Models
        PROVE  Satisfies(m, clauses'[r].lits)
    <3>1. r \in DOMAIN clauses /\ Satisfies(m, clauses[r].lits)
      BY <1>5, <2>1 DEF Core, Sound
    <3>2. PICK l \in clauses[r].lits : l \in m
      BY <3>1 DEF Satisfies
    <3>3. ~ (IsFalse(l) /\ LevelOf(l) = 0)
      BY <1>1, <1>7, <1>16, <3>1, <3>2, RootFalseInModels
    <3>4. l \in clauses'[r].lits
      BY <1>5, <3>1, <3>2, <3>3
    <3> QED
      BY <3>2, <3>4 DEF Satisfies
  <2>2. Sound /\ problem' = problem
    BY <1>2 DEF Core
  <2> QED
    BY <1>1, <1>3, <2>1, <2>2, SoundMoves
<1>18. Complete'
  <2>1. ASSUME NEW m \in Assignments, Roots \subseteq m,
               \A r \in Live' : ~ clauses'[r].learnt => Satisfies(m, clauses'[r].lits),
               NEW r \in Live, ~ clauses[r].learnt
        PROVE  Satisfies(m, clauses[r].lits)
    <3>1. r \in DOMAIN clauses /\ r \notin gone /\ ~ clauses[r].deleted
      BY <1>5, <2>1 DEF Learnt, Live
    <3>2. CASE RootTrue(clauses[r]) = {}
      <4>1. r \in Live' /\ ~ clauses'[r].learnt
        BY <1>5, <2>1, <3>1, <3>2 DEF Live
      <4>2. Satisfies(m, clauses'[r].lits)
        BY <2>1, <4>1
      <4> QED
        BY <1>5, <3>1, <4>2 DEF Satisfies
    <3>3. CASE RootTrue(clauses[r]) # {}
      BY <1>9, <2>1, <3>1, <3>3 DEF Satisfies
    <3> QED
      BY <3>2, <3>3
  <2>2. Complete /\ problem' = problem
    BY <1>2 DEF Core
  <2> QED
    BY <1>1, <1>3, <2>1, <2>2, CompleteMoves
<1>19. AnalysisOK'
  BY <1>2 DEF Core, AnalysisOK, Analyzing
<1>20. VisitingOK'
  BY <1>2 DEF VisitingOK
<1>21. UipSound'
  BY <1>2 DEF UipSound
<1>22. RestOK'
  <2>1. \A l \in Lits : l \in Assigned' => SourceOf(l)' \in {NOREF} \cup DOMAIN clauses'
    <3>1. \A l : SourceOf(l)' = SourceOf(l)
      BY <1>2 DEF SourceOf, PositionOf
    <3>2. Assigned' = Assigned
      BY <1>2 DEF Assigned
    <3> QED
      BY <1>5, <3>1, <3>2 DEF Core, RestOK
  <2> QED
    BY <1>2, <1>5, <2>1 DEF Core, RestOK, Propagating
<1> QED
  BY <1>3, <1>12, <1>13, <1>15, <1>17, <1>18, <1>19, <1>20, <1>21, <1>22 DEF Core

-----------------------------------------------------------------------------
(***************************************************************************)
(* Watches and the literals of level 0.                                    *)
(***************************************************************************)
\* What is false below the cut was so before.
LEMMA WasFalse ==
    ASSUME TrailOK, TrailOK', NEW j \in 0 .. DL, NEW new, Moves(j, new),
           NEW l \in Lits, IsFalse(l)', PositionOf(l)' <= Cut(j)
    PROVE  IsFalse(l) /\ PositionOf(l) = PositionOf(l)' /\ LevelOf(l) <= j
<1>1. PositionsOK /\ PositionsOK'
  BY PositionsHold, PositionsHoldAfter
<1>2. ~ Unassigned(l)'
  BY DEF Unassigned, IsFalse
<1>3. ~ Unassigned(l) /\ LevelOf(l) <= j /\ PositionOf(l) = PositionOf(l)'
  BY <1>2 DEF Moves
<1>4. l \notin Assigned'
  <2>1. -l \in Assigned' /\ -l \in Lits /\ -(-l) = l
    BY Negation DEF IsFalse
  <2>2. \A x \in Assigned' : -x \notin Assigned'
    BY <1>1 DEF PositionsOK
  <2> QED
    BY <2>1, <2>2
<1>5. ~ IsTrue(l)
  BY <1>1, <1>3, <1>4, MovesKeeps DEF IsTrue
<1> QED
  BY <1>3, <1>5 DEF Unassigned, IsTrue, IsFalse

\* The literals of the first levels stay where they are.
LEMMA PrefixStays ==
    ASSUME TrailOK, TrailOK', NEW j \in 0 .. DL, NEW new, Moves(j, new),
           NEW b \in Nat, b <= Cut(j), b <= Len(trail'),
           NEW l \in Lits, ~ Unassigned(l), PositionOf(l) <= b
    PROVE  ~ Unassigned(l)' /\ PositionOf(l)' = PositionOf(l)
<1>1. PositionsOK /\ PositionsOK' /\ Cut(j) \in Nat /\ Len(trail') \in Nat
  BY PositionsHold, PositionsHoldAfter, Levels DEF TrailOK
<1>2. PICK p : p = PositionOf(l)
  OBVIOUS
<1>3. p \in Nat /\ p \in 1 .. Len(trail') /\ p <= Cut(j)
  <2>1. p \in 1 .. Len(trail) /\ Len(trail) \in Nat
    BY <1>1, <1>2, Levels DEF PositionsOK
  <2> QED
    BY <1>1, <1>2, <2>1
<1>4. PICK x : x = trail'[p].lit
  OBVIOUS
<1>5. x \in Lits /\ ~ Unassigned(x)' /\ PositionOf(x)' = p
  BY <1>1, <1>3, <1>4, EntryAtAfter
<1>6. ~ Unassigned(x) /\ PositionOf(x) = p
  BY <1>3, <1>5 DEF Moves
<1>7. l \in {x, -x}
  BY <1>1, <1>2, <1>5, <1>6 DEF PositionsOK
<1>8. ~ Unassigned(-x)' /\ PositionOf(-x)' = p
  <2>1. -(-x) = x
    BY <1>5, Negation
  <2> QED
    BY <1>1, <1>5, <2>1 DEF PositionsOK, Unassigned
<1> QED
  BY <1>2, <1>5, <1>7, <1>8

\* A clause that is satisfied at level 0 stays so.
LEMMA StaysSatisfied ==
    ASSUME TrailOK, TrailOK', NEW j \in 0 .. DL, NEW new, Moves(j, new),
           NEW r, clauses[r].lits \subseteq clauses'[r].lits, RootSatisfied(r)
    PROVE  RootSatisfied(r)'
<1>1. Roots \subseteq Roots'
  BY RootsMove, PositionsHoldAfter
<1> QED
  BY <1>1 DEF RootSatisfied

\* A literal of level 0 is beyond the first decision only if it was, or is new.
LEMMA NoLateRoot ==
    ASSUME TrailOK, TrailOK', NEW j \in 0 .. DL, NEW new, Moves(j, new), ~ HasLateRoot,
           DL > 0 => DL' = 0 \/ dlevels'[1] = dlevels[1],
           DL = 0 /\ DL' > 0 => dlevels'[1] = Len(trail),
           DL' > 0 => \A e \in new : e.level > 0,
           DL' > 0 => j = DL \/ j > 0
    PROVE  ~ HasLateRoot'
<1>1. SUFFICES ASSUME DL' > 0, NEW i \in dlevels'[1] + 1 .. Len(trail'), trail'[i].level = 0
               PROVE  FALSE
  BY DEF HasLateRoot
<1>2. /\ PositionsOK /\ PositionsOK' /\ DL \in Nat /\ Len(trail) \in Nat
      /\ Cut(j) \in Nat /\ Cut(DL) = Len(trail)
  BY Levels, PositionsHold, PositionsHoldAfter
<1>3. DL' \in Nat /\ Len(trail') \in Nat /\ dlevels'[1] \in Nat /\ dlevels'[1] <= Len(trail')
  <2>1. dlevels' \in Seq(Nat) /\ trail' \in Seq(EntryType) /\ propagated' \in 0 .. Len(trail')
    BY DEF TrailOK
  <2>2. DL' \in Nat /\ 1 \in 1 .. DL' /\ Len(trail') \in Nat
    BY <1>1, <2>1 DEF DL
  <2>3. dlevels'[1] \in Nat
    BY <2>1, <2>2 DEF DL
  <2>4. \A x \in 1 .. DL' : dlevels'[x] <= propagated'
    BY DEF TrailOK
  <2>5. dlevels'[1] <= propagated'
    BY <2>2, <2>4
  <2> QED
    BY <2>1, <2>2, <2>3, <2>5
<1>4. i \in 1 .. Len(trail')
  BY <1>1, <1>3
<1>5. PICK l : l = trail'[i].lit
  OBVIOUS
<1>6. l \in Lits /\ ~ Unassigned(l)' /\ PositionOf(l)' = i /\ LevelOf(l)' = 0 /\ l \in Assigned'
  <2>1. PositionOf(l)' = i /\ LevelOf(l)' = trail'[i].level /\ l \in Lits /\ ~ Unassigned(l)'
    BY <1>2, <1>4, <1>5, EntryAtAfter
  <2>2. l \in Assigned'
    BY <1>2, <1>4, <1>5 DEF PositionsOK
  <2> QED
    BY <1>1, <2>1, <2>2
<1>7. l \in Assigned /\ LevelOf(l) <= j /\ ~ Unassigned(l)
  <2>1. ~ \E e \in new : l = e.lit
    BY <1>1, <1>6 DEF Moves
  <2> QED
    BY <1>2, <1>6, <2>1, MovesKeeps DEF IsTrue, Unassigned
<1>8. LevelOf(l) = 0
  BY <1>2, <1>6, <1>7, MovesKeeps
<1>9. PICK p : p = PositionOf(l)
  OBVIOUS
<1>10. p \in 1 .. Len(trail) /\ trail[p].level = 0
  BY <1>2, <1>6, <1>7, <1>8, <1>9 DEF PositionsOK, LevelOf
<1>11. p <= dlevels'[1] /\ dlevels'[1] <= Cut(j)
  <2>1. CASE DL = 0
    <3>1. j = DL /\ dlevels'[1] = Len(trail)
      BY <1>1, <2>1
    <3> QED
      BY <1>2, <1>10, <3>1
  <2>2. CASE DL > 0
    <3>1. dlevels'[1] = dlevels[1] /\ 1 \in 1 .. DL
      BY <1>1, <1>2, <2>2
    <3>2. p <= dlevels[1]
      <4>1. ~ (p \in dlevels[1] + 1 .. Len(trail))
        BY <1>10, <2>2 DEF HasLateRoot
      <4> QED
        BY <1>2, <1>3, <1>10, <3>1, <4>1
    <3>3. j > 0 /\ 1 \in 1 .. j
      BY <1>1, <1>2, <2>2
    <3> QED
      BY <3>1, <3>2, <3>3, Levels
  <2> QED
    BY <1>2, <2>1, <2>2
<1>12. PositionOf(l)' = p
  BY <1>3, <1>6, <1>7, <1>9, <1>11, PrefixStays
<1> QED
  BY <1>1, <1>3, <1>4, <1>6, <1>10, <1>11, <1>12

\* What a backtrack leaves at level 0 was there.
LEMMA RootBefore ==
    ASSUME TrailOK, NEW j \in 0 .. DL, NEW enq, NEW new, Enqueued(enq, new, j),
           Backtrack(j, enq), DL > 0, NEW l \in Lits, IsFalse(l)',
           PositionOf(l)' <= IF j > 0 THEN dlevels'[1] ELSE propagated'
    PROVE  IsFalse(l) /\ PositionOf(l) <= dlevels[1] /\ LevelOf(l) = 0
<1>1. /\ TrailOK' /\ Moves(j, new) /\ DL' = j /\ \A h \in 1 .. j : dlevels'[h] = dlevels[h]
  BY BacktrackKeepsTrailOK, BacktrackMoves
<1>2. /\ PositionsOK /\ DL \in Nat /\ 1 \in 1 .. DL /\ dlevels[1] \in Nat /\ dlevels[1] <= propagated
      /\ propagated \in Nat /\ Cut(j) \in Nat
  BY Levels, PositionsHold
<1>3. PositionOf(l)' <= dlevels[1] /\ dlevels[1] <= Cut(j)
  <2>1. CASE j > 0
    <3>1. 1 \in 1 .. j
      BY <1>2, <2>1
    <3> QED
      BY <1>1, <2>1, <3>1, Levels
  <2>2. CASE ~ (j > 0)
    <3>1. j = 0 /\ Cut(j) = dlevels[1]
      BY <1>2, <2>2 DEF Cut
    <3>2. propagated' = IF propagated > Cut(j) THEN Cut(j) ELSE propagated
      BY DEF Backtrack
    <3>3. propagated' = dlevels[1]
      BY <1>2, <3>1, <3>2
    <3> QED
      BY <2>2, <3>1, <3>3, <1>2
  <2> QED
    BY <2>1, <2>2
<1>4. IsFalse(l) /\ PositionOf(l) = PositionOf(l)'
  <2>1. PositionOf(l)' \in Nat
    BY <1>1, PositionsHoldAfter DEF PositionsOK, IsFalse, Unassigned
  <2>2. PositionOf(l)' <= Cut(j)
    BY <1>2, <1>3, <2>1
  <2> QED
    BY <1>1, <2>2, WasFalse
<1>5. LevelOf(l) = 0
  <2>1. PositionOf(l) \in 1 .. Len(trail) /\ ~ Unassigned(l)
    BY <1>2, <1>4 DEF PositionsOK, IsFalse, Unassigned
  <2>2. \A i \in 1 .. dlevels[1] : trail[i].level < 1
    BY <1>2 DEF TrailOK
  <2>3. PositionOf(l) \in 1 .. dlevels[1]
    BY <1>2, <1>3, <1>4, <2>1
  <2>4. LevelOf(l) < 1 /\ LevelOf(l) \in Nat
    BY <1>2, <2>1, <2>2, <2>3 DEF LevelOf, PositionsOK
  <2> QED
    BY <2>4
<1> QED
  BY <1>3, <1>4, <1>5

\* So are the reasons why the clauses are satisfied there.
LEMMA BacktrackKeepsRoots ==
    ASSUME Core, RootsWatched, NEW j \in 0 .. DL, NEW enq, NEW new, Enqueued(enq, new, j),
           Backtrack(j, enq), clauses' = clauses, opts' = opts,
           DL = 0 => conflict = NOREF /\ visiting' = visiting,
           pc' = "reduce" => j = 0,
           ~ opts.chrono /\ j > 0 => \A e \in new : e.level > 0
    PROVE  RootsWatched'
<1>1. /\ TrailOK /\ TrailOK' /\ Moves(j, new) /\ DL' = j /\ DL \in Nat
  BY Levels, BacktrackKeepsTrailOK, BacktrackMoves DEF Core
<1>2. Live' = Live
  BY DEF Live
<1>3. ASSUME NEW r \in Live, NEW l \in clauses[r].watched PROVE l \in Lits
  <2>1. clauses[r].watched \subseteq clauses[r].lits /\ clauses[r] \in ClauseType
    BY <1>3 DEF Core, ClausesOK, Live
  <2> QED
    BY <1>3, <2>1 DEF ClauseType
<1>4. ASSUME NEW r, RootSatisfied(r) PROVE RootSatisfied(r)'
  BY <1>1, <1>4, StaysSatisfied
<1>5. ASSUME DL > 0, NEW r \in Live, NEW l \in clauses[r].watched, IsFalse(l)',
             PositionOf(l)' <= IF j > 0 THEN dlevels'[1] ELSE propagated'
      PROVE  RootSatisfied(r)'
  <2>1. IsFalse(l) /\ PositionOf(l) <= dlevels[1]
    BY <1>1, <1>3, <1>5, RootBefore
  <2>2. RootSatisfied(r)
    BY <1>5, <2>1 DEF RootsWatched
  <2> QED
    BY <1>4, <2>2
<1>6. ASSUME DL = 0, NEW r \in Live, NEW l \in clauses[r].watched, IsFalse(l)',
             PositionOf(l)' <= propagated', ~ ToVisit(l, r)'
      PROVE  RootSatisfied(r)'
  <2>1. j = 0 /\ Cut(j) = Len(trail) /\ propagated \in Nat /\ Len(trail) \in Nat
        /\ propagated <= Len(trail)
    BY <1>1, <1>6, Levels
  <2>2. propagated' = propagated
    BY <2>1 DEF Backtrack
  <2>3. PositionOf(l)' \in Nat
    BY <1>1, <1>3, <1>6, PositionsHoldAfter DEF PositionsOK, IsFalse, Unassigned
  <2>4. IsFalse(l) /\ PositionOf(l) = PositionOf(l)'
    BY <1>1, <1>3, <1>6, <2>1, <2>2, <2>3, WasFalse
  <2>5. ~ ToVisit(l, r)
    BY <1>6 DEF ToVisit
  <2>6. RootSatisfied(r)
    BY <1>6, <2>2, <2>4, <2>5 DEF RootsWatched
  <2> QED
    BY <1>4, <2>6
<1>7. DL' > 0 => \A r \in Live' : \A l \in clauses'[r].watched :
                      IsFalse(l)' /\ PositionOf(l)' <= dlevels'[1] => RootSatisfied(r)'
  BY <1>1, <1>2, <1>5
<1>8. DL' = 0 => \A r \in Live' : \A l \in clauses'[r].watched :
          IsFalse(l)' /\ PositionOf(l)' <= propagated' /\ ~ ToVisit(l, r)' => RootSatisfied(r)'
  <2>1. CASE DL > 0
    BY <1>1, <1>2, <1>5, <2>1
  <2>2. CASE ~ (DL > 0)
    BY <1>1, <1>2, <1>6, <2>2
  <2> QED
    BY <2>1, <2>2
<1>9. ~ opts'.chrono => ~ HasLateRoot'
  <2>1. SUFFICES ASSUME ~ opts.chrono PROVE ~ HasLateRoot'
    OBVIOUS
  <2>2. CASE DL' = 0
    BY <2>2 DEF HasLateRoot
  <2>3. CASE ~ (DL' = 0)
    <3>1. j > 0 /\ DL > 0 /\ DL' > 0
      BY <1>1, <2>3
    <3>2. ~ HasLateRoot
      BY <2>1 DEF RootsWatched
    <3>3. dlevels'[1] = dlevels[1]
      <4>1. 1 \in 1 .. j
        BY <3>1
      <4> QED
        BY <1>1, <4>1, BacktrackKeepsTrailOK
    <3>4. \A e \in new : e.level > 0
      BY <2>1, <3>1
    <3> QED
      BY <1>1, <3>1, <3>2, <3>3, <3>4, NoLateRoot
  <2> QED
    BY <2>2, <2>3
<1>10. pc' = "reduce" => DL' = 0
  BY <1>1
<1> QED
  BY <1>7, <1>8, <1>9, <1>10 DEF RootsWatched

\* A step that leaves the trail and the clauses alone.
LEMMA StillRootsWatched ==
    ASSUME RootsWatched, UNCHANGED <<trail, dlevels, propagated, visiting, clauses, opts>>,
           DL = 0 => conflict' = conflict,
           pc' = "reduce" => pc = "reduce" \/ (PropagationDone' /\ ~ HasLateRoot)
    PROVE  RootsWatched'
<1>1. /\ DL' = DL /\ Live' = Live
      /\ \A l : (IsFalse(l)' <=> IsFalse(l)) /\ PositionOf(l)' = PositionOf(l)
      /\ \A r : RootSatisfied(r)' <=> RootSatisfied(r)
      /\ \A l, r : ToVisit(l, r)' <=> ToVisit(l, r)
      /\ HasLateRoot' <=> HasLateRoot
  BY DEF DL, Live, IsFalse, PositionOf, RootSatisfied, ToVisit, HasLateRoot, Assigned, Roots, LevelOf
<1>2. DL' > 0 => \A r \in Live' : \A l \in clauses'[r].watched :
                      IsFalse(l)' /\ PositionOf(l)' <= dlevels'[1] => RootSatisfied(r)'
  BY <1>1 DEF RootsWatched
<1>3. DL' = 0 /\ conflict' = NOREF => \A r \in Live' : \A l \in clauses'[r].watched :
          IsFalse(l)' /\ PositionOf(l)' <= propagated' /\ ~ ToVisit(l, r)' => RootSatisfied(r)'
  BY <1>1 DEF RootsWatched
<1>4. ~ opts'.chrono => ~ HasLateRoot'
  BY <1>1 DEF RootsWatched
<1>5. pc' = "reduce" => DL' = 0 \/ (PropagationDone' /\ ~ HasLateRoot')
  <2>1. pc' = "reduce" /\ PropagationDone => PropagationDone'
    BY DEF PropagationDone, Propagating
  <2> QED
    BY <1>1, <2>1 DEF RootsWatched
<1> QED
  BY <1>2, <1>3, <1>4, <1>5 DEF RootsWatched

\* What is watched is a literal of the clause.
LEMMA WatchedInLits ==
    ASSUME ClausesOK, NEW r \in Live, NEW l \in clauses[r].watched
    PROVE  l \in Lits /\ l \in clauses[r].lits
<1>1. clauses[r].watched \subseteq clauses[r].lits /\ clauses[r] \in ClauseType
  BY DEF ClausesOK, Live
<1> QED
  BY <1>1 DEF ClauseType

\* When levels are added, the first of them begins after what was propagated.
LEMMA AddedLevelsRoots ==
    ASSUME Core, RootsWatched, TrailOK', propagated = Len(trail), visiting = {}, conflict = NOREF,
           NEW n \in Nat, DL' = DL + n, n > 0 /\ DL = 0 => dlevels'[1] = Len(trail),
           \A h \in 1 .. DL : dlevels'[h] = dlevels[h],
           NEW new, Moves(DL, new), \A e \in new : e.level > 0,
           UNCHANGED <<clauses, opts, conflict, propagated, visiting>>, pc' # "reduce"
    PROVE  RootsWatched'
<1>1. /\ TrailOK /\ DL \in Nat /\ DL \in 0 .. DL /\ Len(trail) \in Nat /\ Cut(DL) = Len(trail)
      /\ PositionsOK' /\ ClausesOK
  BY Levels, PositionsHoldAfter DEF Core
<1>a. \A h \in 1 .. DL : dlevels[h] \in Nat /\ dlevels[h] <= Len(trail)
  BY <1>1, Levels
<1>2. Live' = Live
  BY DEF Live
<1>3. ASSUME NEW r, RootSatisfied(r) PROVE RootSatisfied(r)'
  BY <1>1, <1>3, StaysSatisfied
<1>4. ASSUME NEW r \in Live, NEW l \in clauses[r].watched, IsFalse(l)',
             PositionOf(l)' <= Len(trail)
      PROVE  IsFalse(l) /\ PositionOf(l) = PositionOf(l)' /\ PositionOf(l) \in Nat
  <2>1. l \in Lits
    BY <1>1, <1>4, WatchedInLits
  <2>2. PositionOf(l)' \in Nat
    BY <1>1, <1>4, <2>1 DEF PositionsOK, IsFalse, Unassigned
  <2> QED
    BY <1>1, <1>4, <2>1, <2>2, WasFalse
<1>5. ASSUME DL' > 0, NEW r \in Live, NEW l \in clauses[r].watched, IsFalse(l)',
             PositionOf(l)' <= dlevels'[1]
      PROVE  RootSatisfied(r)'
  <2>1. l \in Lits /\ PositionOf(l)' \in Nat
    BY <1>1, <1>5, WatchedInLits DEF PositionsOK, IsFalse, Unassigned
  <2>2. CASE DL > 0
    <3>1. 1 \in 1 .. DL /\ dlevels'[1] = dlevels[1] /\ dlevels[1] \in Nat /\ dlevels[1] <= Len(trail)
      BY <1>1, <1>a, <2>2
    <3>2. PositionOf(l)' <= Len(trail)
      BY <1>1, <1>5, <2>1, <3>1
    <3>3. IsFalse(l) /\ PositionOf(l) <= dlevels[1]
      BY <1>4, <1>5, <3>1, <3>2
    <3> QED
      BY <1>3, <1>5, <2>2, <3>3 DEF RootsWatched
  <2>3. CASE DL = 0
    <3>1. dlevels'[1] = Len(trail)
      BY <1>1, <1>5, <2>3
    <3>2. IsFalse(l) /\ PositionOf(l) <= propagated
      BY <1>4, <1>5, <3>1
    <3>3. ~ ToVisit(l, r)
      BY DEF ToVisit
    <3> QED
      BY <1>3, <1>5, <2>3, <3>2, <3>3 DEF RootsWatched
  <2> QED
    BY <1>1, <2>2, <2>3
<1>6. ASSUME DL' = 0, NEW r \in Live, NEW l \in clauses[r].watched, IsFalse(l)',
             PositionOf(l)' <= propagated'
      PROVE  RootSatisfied(r)'
  <2>1. DL = 0
    BY <1>1, <1>6
  <2>2. IsFalse(l) /\ PositionOf(l) <= propagated
    BY <1>4, <1>6
  <2>3. ~ ToVisit(l, r)
    BY DEF ToVisit
  <2> QED
    BY <1>3, <1>6, <2>1, <2>2, <2>3 DEF RootsWatched
<1>7. ~ opts'.chrono => ~ HasLateRoot'
  <2>1. SUFFICES ASSUME ~ HasLateRoot PROVE ~ HasLateRoot'
    BY DEF RootsWatched
  <2>2. DL > 0 => dlevels'[1] = dlevels[1]
    BY <1>1
  <2>3. DL = 0 /\ DL' > 0 => dlevels'[1] = Len(trail)
    BY <1>1
  <2> QED
    BY <1>1, <2>1, <2>2, <2>3, NoLateRoot
<1> QED
  BY <1>2, <1>5, <1>6, <1>7 DEF RootsWatched

\* A decision comes after all that was propagated at level 0.
LEMMA DecideKeepsRoots == Core /\ RootsWatched /\ Decide => RootsWatched'
<1>1. SUFFICES ASSUME Core, RootsWatched, Decide PROVE RootsWatched'
  OBVIOUS
<1>2. PICK n \in Nat \ {0}, l \in Lits :
          /\ propagated = Len(trail) /\ TrailOK' /\ Moves(DL, {Entry(l, DL + n, NOREF)})
          /\ DL' = DL + n /\ (DL = 0 => dlevels'[1] = Len(trail))
          /\ \A h \in 1 .. DL : dlevels'[h] = dlevels[h]
  BY <1>1, DecideMoves
<1>3. /\ pc = "search" /\ pc' = "search" /\ visiting = {}
      /\ UNCHANGED <<clauses, opts, conflict, propagated, visiting>>
  BY <1>1 DEF Decide, Quiescent, PropagationDone
<1>4. conflict = NOREF
  BY <1>1, <1>3 DEF Core, RestOK, Propagating
<1>5. DL \in Nat
  BY <1>1, Levels DEF Core
<1>6. Entry(l, DL + n, NOREF).level > 0
  BY <1>5 DEF Entry
<1>7. \A e \in {Entry(l, DL + n, NOREF)} : e.level > 0
  BY <1>6
<1> QED
  BY <1>1, <1>2, <1>3, <1>4, <1>7, AddedLevelsRoots

\* So do the levels that a failed assumption adds.
LEMMA FailAssumptionKeepsRoots == Core /\ RootsWatched /\ FailAssumption => RootsWatched'
<1>1. SUFFICES ASSUME Core, RootsWatched, FailAssumption PROVE RootsWatched'
  OBVIOUS
<1>2. PICK n \in Nat :
          /\ TrailOK' /\ Moves(DL, {}) /\ DL' = DL + n
          /\ (n > 0 /\ DL = 0 => dlevels'[1] = Len(trail))
          /\ \A h \in 1 .. DL : dlevels'[h] = dlevels[h]
  BY <1>1, FailAssumptionMoves
<1>3. /\ pc = "search" /\ pc' = "idle" /\ visiting = {} /\ propagated = Len(trail)
      /\ UNCHANGED <<clauses, opts, conflict, propagated, visiting>>
  BY <1>1 DEF FailAssumption, Quiescent, PropagationDone, Answer
<1>4. conflict = NOREF
  BY <1>1, <1>3 DEF Core, RestOK, Propagating
<1>5. \A e \in {} : e.level > 0
  OBVIOUS
<1> QED
  BY <1>1, <1>2, <1>3, <1>4, <1>5, AddedLevelsRoots

\* The steps that backtrack, and learn nothing.
LEMMA BackingKeepsRoots ==
    ASSUME Core, RootsWatched, NEW j \in 0 .. DL, Backtrack(j, <<>>),
           UNCHANGED <<clauses, opts, visiting>>, pc' = "reduce" => j = 0, conflict = NOREF
    PROVE  RootsWatched'
<1>1. Enqueued(<<>>, {}, j)
  BY DEF Enqueued
<1>2. \A e \in {} : e.level > 0
  OBVIOUS
<1> QED
  BY <1>1, <1>2, BacktrackKeepsRoots

\* A call goes back to level 0.
LEMMA CallKeepsRoots == Core /\ RootsWatched /\ Call /\ conflict = NOREF => RootsWatched'
<1>1. SUFFICES ASSUME Core, RootsWatched, Call, conflict = NOREF PROVE RootsWatched'
  OBVIOUS
<1>2. 0 \in 0 .. DL
  BY <1>1, Levels DEF Core
<1>3. Backtrack(0, <<>>) /\ UNCHANGED <<clauses, opts, visiting>> /\ pc' # "reduce"
  BY <1>1 DEF Call
<1> QED
  BY <1>1, <1>2, <1>3, BackingKeepsRoots

\* reduce goes back to level 0 if a literal of level 0 is out of place.
LEMMA ReduceKeepsRoots == Core /\ RootsWatched /\ Reduce => RootsWatched'
<1>1. SUFFICES ASSUME Core, RootsWatched, Reduce PROVE RootsWatched'
  OBVIOUS
<1>2. /\ pc = "search" /\ PropagationDone /\ pc' = "reduce"
      /\ UNCHANGED <<clauses, opts, visiting, conflict>>
      /\ IF opts.chrono /\ HasLateRoot THEN Backtrack(0, <<>>)
         ELSE UNCHANGED <<trail, propagated, dlevels>>
  BY <1>1 DEF Reduce, Quiescent
<1>3. 0 \in 0 .. DL /\ conflict = NOREF
  BY <1>1, <1>2, Levels DEF Core, RestOK, PropagationDone
<1>4. CASE opts.chrono /\ HasLateRoot
  BY <1>1, <1>2, <1>3, <1>4, BackingKeepsRoots
<1>5. CASE ~ (opts.chrono /\ HasLateRoot)
  <2>1. UNCHANGED <<trail, dlevels, propagated, visiting, clauses, opts, conflict>>
    BY <1>2, <1>5
  <2>2. PropagationDone'
    BY <1>2, <2>1 DEF PropagationDone, Propagating
  <2>3. ~ HasLateRoot
    BY <1>1, <1>5 DEF RootsWatched
  <2> QED
    BY <1>1, <2>1, <2>2, <2>3, StillRootsWatched
<1> QED
  BY <1>4, <1>5

\* A restart only goes back.
LEMMA RestartKeepsRoots == Core /\ RootsWatched /\ Restart => RootsWatched'
<1>1. SUFFICES ASSUME Core, RootsWatched, Restart PROVE RootsWatched'
  OBVIOUS
<1>2. pc = "search" /\ pc' = "search" /\ UNCHANGED <<clauses, opts, visiting, conflict>>
  BY <1>1 DEF Restart, Quiescent
<1>3. PICK j \in 0 .. DL : Backtrack(j, <<>>)
  BY <1>1 DEF Restart
<1>4. conflict = NOREF
  BY <1>1, <1>2 DEF Core, RestOK, Propagating
<1> QED
  BY <1>1, <1>2, <1>3, <1>4, BackingKeepsRoots

\* The steps that leave the trail and the clauses alone.
LEMMA RestingKeepsRoots ==
    ASSUME RootsWatched, RootDone \/ AllAssigned \/ Analyze \/ Resolve \/ UNCHANGED vars
    PROVE  RootsWatched'
<1>1. UNCHANGED <<trail, dlevels, propagated, visiting, clauses, opts, conflict>>
  BY DEF RootDone, AllAssigned, Analyze, Resolve, vars, search
<1>2. pc' = "reduce" => pc = "reduce"
  BY DEF RootDone, AllAssigned, Analyze, Resolve, StartUip, Answer, vars
<1> QED
  BY <1>1, <1>2, StillRootsWatched

\* The clauses of the literal that comes next are the ones to visit.
LEMMA NextLiteralKeepsRoots == Core /\ RootsWatched /\ NextLiteral => RootsWatched'
<1>1. SUFFICES ASSUME Core, RootsWatched, NextLiteral PROVE RootsWatched'
  OBVIOUS
<1>2. /\ visiting = {} /\ propagated < Len(trail) /\ propagated' = propagated + 1
      /\ visiting' = {w \in watches : w.lit = -trail[propagated + 1].lit}
      /\ UNCHANGED <<opts, clauses, trail, dlevels, conflict, pc>>
  BY <1>1 DEF NextLiteral
<1>3. /\ DL' = DL /\ Live' = Live
      /\ \A l : (IsFalse(l)' <=> IsFalse(l)) /\ PositionOf(l)' = PositionOf(l)
      /\ \A r : RootSatisfied(r)' <=> RootSatisfied(r)
      /\ HasLateRoot' <=> HasLateRoot
  BY <1>2 DEF DL, Live, IsFalse, PositionOf, RootSatisfied, HasLateRoot, Assigned, Roots, LevelOf
<1>4. /\ TrailOK /\ PositionsOK /\ Len(trail) \in Nat /\ propagated \in Nat /\ ClausesOK /\ WatchesOK
  BY <1>1, Levels, PositionsHold DEF Core
<1>5. ASSUME DL = 0, conflict = NOREF, NEW r \in Live, NEW l \in clauses[r].watched, IsFalse(l),
             PositionOf(l) <= propagated + 1, ~ ToVisit(l, r)'
      PROVE  RootSatisfied(r)
  <2>1. l \in Lits /\ ~ Unassigned(l) /\ -l \in Assigned /\ -l \in Lits
    BY <1>4, <1>5, WatchedInLits, Negation DEF IsFalse, Unassigned
  <2>2. PositionOf(l) \in Nat /\ PositionOf(-l) = PositionOf(l)
    BY <1>4, <2>1 DEF PositionsOK
  <2>3. CASE PositionOf(l) = propagated + 1
    <3>1. trail[propagated + 1].lit = -l
      BY <1>4, <2>1, <2>2, <2>3 DEF PositionsOK
    <3>2. -(-l) = l
      BY <2>1, Negation
    <3>3. PICK w \in watches : w.ref = r /\ w.lit = l
      BY <1>4, <1>5 DEF WatchesOK
    <3>4. w \in visiting'
      BY <1>2, <3>1, <3>2, <3>3
    <3> QED
      BY <1>5, <3>3, <3>4 DEF ToVisit
  <2>4. CASE PositionOf(l) <= propagated
    <3>1. ~ ToVisit(l, r)
      BY <1>2 DEF ToVisit
    <3> QED
      BY <1>1, <1>5, <2>4, <3>1 DEF RootsWatched
  <2> QED
    BY <1>4, <1>5, <2>2, <2>3, <2>4
<1>6. DL' > 0 => \A r \in Live' : \A l \in clauses'[r].watched :
                      IsFalse(l)' /\ PositionOf(l)' <= dlevels'[1] => RootSatisfied(r)'
  BY <1>1, <1>2, <1>3 DEF RootsWatched
<1>7. DL' = 0 /\ conflict' = NOREF => \A r \in Live' : \A l \in clauses'[r].watched :
          IsFalse(l)' /\ PositionOf(l)' <= propagated' /\ ~ ToVisit(l, r)' => RootSatisfied(r)'
  BY <1>2, <1>3, <1>5
<1>8. ~ opts'.chrono => ~ HasLateRoot'
  BY <1>1, <1>2, <1>3 DEF RootsWatched
<1>9. pc' = "reduce" => DL' = 0
  <2>1. ~ PropagationDone
    BY <1>2, <1>4 DEF PropagationDone
  <2> QED
    BY <1>1, <1>2, <1>3, <2>1 DEF RootsWatched
<1> QED
  BY <1>6, <1>7, <1>8, <1>9 DEF RootsWatched

\* A literal that is true without any decision satisfies its clauses.
LEMMA TrueAtRoot ==
    ASSUME TrailOK, DL = 0, NEW r, NEW l \in clauses[r].lits, l \in Lits, IsTrue(l)
    PROVE  RootSatisfied(r)
<1>1. LevelOf(l) = 0
  BY Levels DEF IsTrue, Unassigned
<1> QED
  BY <1>1 DEF RootSatisfied, Roots, IsTrue

\* A visit that leaves its clause satisfied or watched elsewhere.
LEMMA VisitKeepsRoots ==
    ASSUME Core, RootsWatched, TrailOK', NEW w, Visits(w), NEW new, Moves(DL, new),
           Live' = Live, \A r \in DOMAIN clauses : clauses'[r].lits = clauses[r].lits,
           \A r \in Live : \A l \in clauses'[r].watched :
               l \in Lits /\ (IsFalse(l)' => l \in clauses[r].watched),
           DL = 0 /\ conflict' = NOREF /\ w.ref \in Live /\ w.lit \in clauses'[w.ref].watched
               => RootSatisfied(w.ref)',
           ~ opts.chrono /\ DL > 0 => \A e \in new : e.level > 0,
           pc' = "reduce" => pc = "reduce"
    PROVE  RootsWatched'
<1>1. /\ w \in visiting /\ (conflict' = NOREF => visiting' = visiting \ {w})
      /\ UNCHANGED <<opts, propagated, dlevels>>
  BY DEF Visits
<1>2. conflict = NOREF /\ Propagating /\ visiting # {}
  <2>1. visiting # {}
    BY <1>1
  <2>2. VisitingOK /\ RestOK
    BY DEF Core
  <2>3. Propagating
    BY <2>1, <2>2 DEF VisitingOK
  <2>4. conflict = NOREF
    BY <2>2, <2>3 DEF RestOK
  <2> QED
    BY <2>1, <2>3, <2>4
<1>3. /\ TrailOK /\ DL \in Nat /\ DL \in 0 .. DL /\ Len(trail) \in Nat /\ Cut(DL) = Len(trail)
      /\ PositionsOK' /\ ClausesOK /\ propagated \in Nat /\ propagated <= Len(trail) /\ DL' = DL
  BY <1>1, Levels, PositionsHoldAfter DEF Core, DL
<1>4. DL > 0 => dlevels[1] \in Nat /\ dlevels[1] <= propagated
  <2>1. DL > 0 => 1 \in 1 .. DL
    BY <1>3
  <2> QED
    BY <1>3, <2>1, Levels
<1>5. ASSUME NEW r \in Live, RootSatisfied(r) PROVE RootSatisfied(r)'
  <2>1. r \in DOMAIN clauses
    BY DEF Live
  <2>2. clauses[r].lits \subseteq clauses'[r].lits
    BY <2>1
  <2> QED
    BY <1>3, <1>5, <2>2, StaysSatisfied
<1>6. ASSUME NEW r \in Live, NEW l \in clauses'[r].watched, IsFalse(l)',
             PositionOf(l)' <= propagated
      PROVE  l \in clauses[r].watched /\ IsFalse(l) /\ PositionOf(l) = PositionOf(l)'
  <2>1. l \in Lits /\ l \in clauses[r].watched
    BY <1>6
  <2>2. PositionOf(l)' \in Nat
    BY <1>3, <1>6, <2>1 DEF PositionsOK, IsFalse, Unassigned
  <2>3. PositionOf(l)' <= Cut(DL)
    BY <1>3, <1>6, <2>2
  <2> QED
    BY <1>3, <1>6, <2>1, <2>3, WasFalse
<1>7. ASSUME DL > 0, NEW r \in Live, NEW l \in clauses'[r].watched, IsFalse(l)',
             PositionOf(l)' <= dlevels[1]
      PROVE  RootSatisfied(r)'
  <2>1. l \in Lits
    BY <1>7
  <2>2. PositionOf(l)' \in Nat
    BY <1>3, <1>7, <2>1 DEF PositionsOK, IsFalse, Unassigned
  <2>3. PositionOf(l)' <= propagated
    BY <1>3, <1>4, <1>7, <2>2
  <2>4. l \in clauses[r].watched /\ IsFalse(l) /\ PositionOf(l) <= dlevels[1]
    BY <1>6, <1>7, <2>3
  <2> QED
    BY <1>5, <1>7, <2>4 DEF RootsWatched
<1>8. ASSUME DL = 0, conflict' = NOREF, NEW r \in Live, NEW l \in clauses'[r].watched, IsFalse(l)',
             PositionOf(l)' <= propagated, ~ ToVisit(l, r)'
      PROVE  RootSatisfied(r)'
  <2>1. l \in clauses[r].watched /\ IsFalse(l) /\ PositionOf(l) <= propagated
    BY <1>6, <1>8
  <2>2. CASE ~ ToVisit(l, r)
    BY <1>2, <1>5, <1>8, <2>1, <2>2 DEF RootsWatched
  <2>3. CASE ToVisit(l, r)
    <3>1. PICK v \in visiting : v.ref = r /\ v.lit = l
      BY <2>3 DEF ToVisit
    <3>2. v = w
      <4>1. ~ \E u \in visiting' : u.ref = r /\ u.lit = l
        BY <1>8, Zenon DEF ToVisit
      <4>2. visiting' = visiting \ {w}
        BY <1>1, <1>8
      <4> QED
        BY <3>1, <4>1, <4>2
    <3> QED
      BY <1>8, <3>1, <3>2
  <2> QED
    BY <2>2, <2>3
<1>9. ~ opts'.chrono => ~ HasLateRoot'
  <2>1. SUFFICES ASSUME ~ opts.chrono PROVE ~ HasLateRoot'
    BY <1>1
  <2>2. ~ HasLateRoot
    BY <2>1 DEF RootsWatched
  <2>3. DL' > 0 => \A e \in new : e.level > 0
    BY <1>3, <2>1
  <2>4. (DL > 0 => dlevels'[1] = dlevels[1]) /\ (DL = 0 /\ DL' > 0 => dlevels'[1] = Len(trail))
    BY <1>1, <1>3
  <2> QED
    BY <1>3, <2>2, <2>3, <2>4, NoLateRoot
<1>10. pc' = "reduce" => DL' = 0
  BY <1>2, <1>3 DEF RootsWatched, PropagationDone
<1> QED
  BY <1>1, <1>3, <1>7, <1>8, <1>9, <1>10 DEF RootsWatched

\* A visit that leaves the trail and the clauses alone.
LEMMA PassingRoots ==
    ASSUME Core, RootsWatched, NEW w, Visits(w), UNCHANGED <<trail, clauses>>,
           DL = 0 /\ conflict' = NOREF /\ w.ref \in Live => RootSatisfied(w.ref),
           pc' = "reduce" => pc = "reduce"
    PROVE  RootsWatched'
<1>1. TrailOK /\ ClausesOK /\ UNCHANGED <<propagated, dlevels>> /\ DL \in 0 .. DL
  BY Levels DEF Core, Visits
<1>2. TrailOK' /\ Moves(DL, {}) /\ Live' = Live
  BY <1>1, UnchangedMoves DEF TrailOK, DL, Live
<1>3. \A r \in Live : \A l \in clauses'[r].watched :
               l \in Lits /\ (IsFalse(l)' => l \in clauses[r].watched)
  BY <1>1, WatchedInLits
<1>4. DL = 0 /\ conflict' = NOREF /\ w.ref \in Live /\ w.lit \in clauses'[w.ref].watched
               => RootSatisfied(w.ref)'
  <2>1. SUFFICES ASSUME RootSatisfied(w.ref) PROVE RootSatisfied(w.ref)'
    OBVIOUS
  <2>2. PICK r : r = w.ref
    OBVIOUS
  <2>3. RootSatisfied(r)'
    BY <1>1, <1>2, <2>1, <2>2, StaysSatisfied
  <2> QED
    BY <2>2, <2>3
<1>5. /\ \A e \in {} : e.level > 0
      /\ \A r \in DOMAIN clauses : clauses'[r].lits = clauses[r].lits
  OBVIOUS
<1> QED
  BY <1>2, <1>3, <1>4, <1>5, VisitKeepsRoots

\* A visit that implies a literal satisfies its clause at the level of the others.
LEMMA ImplyingRoots ==
    ASSUME Core, RootsWatched, NEW w, Visits(w), UNCHANGED <<conflict, pc, clauses>>,
           NEW e, e.level \in 0 .. DL, TrailOK', Moves(DL, {e}), e.lit \in clauses[w.ref].lits,
           ~ opts.chrono /\ DL > 0 => e.level > 0
    PROVE  RootsWatched'
<1>1. TrailOK /\ ClausesOK /\ UNCHANGED <<propagated, dlevels>> /\ DL \in Nat
  BY Levels DEF Core, Visits
<1>2. Live' = Live
  BY DEF Live
<1>3. \A r \in Live : \A l \in clauses'[r].watched :
               l \in Lits /\ (IsFalse(l)' => l \in clauses[r].watched)
  BY <1>1, WatchedInLits
<1>4. DL = 0 => RootSatisfied(w.ref)'
  <2>1. SUFFICES ASSUME DL = 0 PROVE RootSatisfied(w.ref)'
    OBVIOUS
  <2>2. PICK r : r = w.ref
    OBVIOUS
  <2>3. e.lit \in Assigned' /\ LevelOf(e.lit)' = 0
    BY <2>1 DEF Moves
  <2>4. PICK l : l = e.lit
    OBVIOUS
  <2>5. l \in Roots'
    BY <2>3, <2>4 DEF Roots
  <2>6. RootSatisfied(r)'
    BY <2>2, <2>4, <2>5 DEF RootSatisfied
  <2> QED
    BY <2>2, <2>6 DEF Visits
<1>5. \A r \in DOMAIN clauses : clauses'[r].lits = clauses[r].lits
  OBVIOUS
<1> QED
  BY <1>2, <1>3, <1>4, <1>5, VisitKeepsRoots

\* The literal that is propagated is above level 0, if no such literal is late.
LEMMA VisitedLevel ==
    ASSUME Core, NEW w \in visiting, DL > 0, ~ HasLateRoot
    PROVE  LevelOf(w.lit) > 0
<1>1. /\ TrailOK /\ PositionsOK /\ Len(trail) \in Nat /\ propagated \in Nat /\ propagated <= Len(trail)
      /\ propagated > 0 /\ w.lit = -trail[propagated].lit /\ DL \in Nat
  BY Levels, PositionsHold DEF Core, VisitingOK
<1>2. dlevels[1] \in Nat /\ dlevels[1] < propagated
  <2>1. 1 \in 1 .. DL
    BY <1>1
  <2> QED
    BY <1>1, <2>1, Levels DEF Core, VisitingOK
<1>3. propagated \in 1 .. Len(trail) /\ propagated \in dlevels[1] + 1 .. Len(trail)
  BY <1>1, <1>2
<1>4. trail[propagated].level # 0 /\ trail[propagated].level \in Nat
  BY <1>1, <1>3, Levels DEF HasLateRoot
<1>5. LevelOf(w.lit) = trail[propagated].level
  BY <1>1, <1>3, EntryAt
<1> QED
  BY <1>4, <1>5

\* Each of the six ways to visit a watch.
LEMMA VisitWatchKeepsRoots == Core /\ RootsWatched /\ VisitWatch => RootsWatched'
<1> SUFFICES ASSUME Core, RootsWatched, VisitWatch PROVE RootsWatched'
  OBVIOUS
<1>1. PICK w \in visiting :
           /\ Visits(w)
           /\ \/ Satisfied(w) \/ ClauseDeleted(w) \/ VisitBinary(w)
              \/ OtherTrue(w) \/ FindLiteral(w) \/ OthersFalse(w)
  BY DEF VisitWatch, Visits, limits
<1>2. /\ TrailOK /\ w.ref \in DOMAIN clauses /\ w.ref # NOREF /\ ClausesOK
      /\ clauses[w.ref] \in ClauseType /\ w.ref \in Nat
      /\ w.lit \in clauses[w.ref].lits /\ w.imp \in clauses[w.ref].lits /\ w.lit # w.imp
      /\ w.lit \in Lits /\ w.imp \in Lits
      /\ IsFalse(w.lit) /\ ~ Unassigned(w.lit) /\ LevelOf(w.lit) \in 0 .. DL
      /\ ~ clauses[w.ref].deleted =>
             /\ w.ref \in Live /\ Other(w) \in clauses[w.ref].lits /\ Other(w) # w.lit
             /\ clauses[w.ref].watched = {w.lit, Other(w)} /\ Other(w) \in Lits
  BY VisitFacts DEF Core, WatchType
<1>3. DL \in Nat /\ TrailOK' /\ opts' = opts /\ propagated' = propagated /\ dlevels' = dlevels
  <2>1. Core'
    BY VisitWatchKeeps
  <2> QED
    BY <1>1, <1>2, <2>1, Levels DEF Core, Visits
<1>4. \A l \in clauses[w.ref].lits : l \in Lits
  BY <1>2 DEF ClauseType
<1>5. ASSUME NEW l \in clauses[w.ref].lits, IsTrue(l), UNCHANGED <<trail, clauses, pc>>
      PROVE  RootsWatched'
  <2>1. DL = 0 => RootSatisfied(w.ref)
    BY <1>2, <1>4, <1>5, TrueAtRoot
  <2> QED
    BY <1>1, <1>5, <2>1, PassingRoots
<1>6. CASE Satisfied(w)
  BY <1>2, <1>5, <1>6 DEF Satisfied, Quiet
<1>7. CASE ClauseDeleted(w)
  <2>1. UNCHANGED <<trail, clauses, pc>> /\ ~ (w.ref \in Live)
    BY <1>7 DEF ClauseDeleted, Live, Quiet
  <2> QED
    BY <1>1, <2>1, PassingRoots
<1>8. CASE Conflicting(w)
  <2>1. UNCHANGED <<trail, clauses>> /\ conflict' # NOREF /\ pc' # "reduce"
    BY <1>2, <1>8 DEF Conflicting, Answer
  <2> QED
    BY <1>1, <2>1, PassingRoots
<1>9. ~ opts.chrono /\ DL > 0 => LevelOf(w.lit) > 0
  BY <1>1, VisitedLevel DEF RootsWatched
<1>10. CASE VisitBinary(w) /\ ~ IsFalse(w.imp)
  <2>1. PICK e : e = Entry(w.imp, LevelOf(w.lit), w.ref)
    OBVIOUS
  <2>2. e.lit = w.imp /\ e.level = LevelOf(w.lit) /\ e.source = w.ref /\ e \in EntryType
    BY <2>1, <1>2 DEF Entry, EntryType
  <2>3. trail' = Append(trail, e) /\ UNCHANGED <<conflict, pc, clauses>>
    BY <1>10, <2>1 DEF VisitBinary, Quiet
  <2>4. Moves(DL, {e})
    BY <1>2, <1>3, <2>2, <2>3, AppendMoves
  <2> QED
    BY <1>1, <1>2, <1>3, <1>9, <2>2, <2>3, <2>4, ImplyingRoots
<1>11. CASE VisitBinary(w) /\ IsFalse(w.imp)
  BY <1>8, <1>11 DEF VisitBinary
<1>12. CASE OtherTrue(w)
  BY <1>2, <1>5, <1>12 DEF OtherTrue, Visited, Block, Quiet
<1>13. CASE FindLiteral(w)
  <2>1. Visited(w) /\ clauses[w.ref].watched = {w.lit, Other(w)} /\ Other(w) \in clauses[w.ref].lits
        /\ w.ref \in Live /\ Other(w) # w.lit
    BY <1>2, <1>13 DEF FindLiteral, Visited
  <2>2. PICK l \in Unwatched(w) :
           \/ IsTrue(l) /\ Block(w, l)
           \/ /\ Unassigned(l)
              /\ clauses' = [clauses EXCEPT ![w.ref].watched = {Other(w), l}]
              /\ Quiet /\ UNCHANGED trail
    BY <1>13 DEF FindLiteral
  <2>3. l \in clauses[w.ref].lits /\ l \notin clauses[w.ref].watched /\ l \in Lits
    BY <1>4, <2>2 DEF Unwatched
  <2>4. CASE IsTrue(l) /\ Block(w, l)
    BY <1>5, <2>3, <2>4 DEF Block, Quiet
  <2>5. CASE ~ (IsTrue(l) /\ Block(w, l))
    <3>1. PICK o : o = Other(w)
      OBVIOUS
    <3>2. /\ Unassigned(l) /\ trail' = trail /\ pc' = pc /\ conflict' = conflict
          /\ clauses' = [clauses EXCEPT ![w.ref].watched = {o, l}]
      BY <2>2, <2>5, <3>1 DEF Quiet
    <3>3. clauses[w.ref] \in ClauseType /\ clauses \in Seq(ClauseType)
      BY <1>2 DEF ClausesOK
    <3>4. PICK c : c = [clauses[w.ref] EXCEPT !.watched = {o, l}]
      OBVIOUS
    <3>5. c.watched = {o, l} /\ c.lits = clauses[w.ref].lits /\ c.deleted = clauses[w.ref].deleted
      BY <3>3, <3>4 DEF ClauseType
    <3>6. clauses' = [clauses EXCEPT ![w.ref] = c]
      BY <3>2, <3>4
    <3>7. DOMAIN clauses' = DOMAIN clauses /\ clauses'[w.ref] = c
          /\ \A r \in DOMAIN clauses : r # w.ref => clauses'[r] = clauses[r]
      BY <1>2, <3>6
    <3>8. Live' = Live
      BY <3>5, <3>7 DEF Live
    <3>9. \A r \in DOMAIN clauses : clauses'[r].lits = clauses[r].lits
      BY <3>5, <3>7
    <3>10. ~ IsFalse(l)'
      BY <3>2 DEF Unassigned, IsFalse, Assigned
    <3>11. ASSUME NEW r \in Live, NEW k \in clauses'[r].watched
           PROVE  k \in Lits /\ (IsFalse(k)' => k \in clauses[r].watched)
      <4>1. CASE r = w.ref
        BY <1>4, <2>1, <2>3, <3>1, <3>5, <3>7, <3>10, <3>11, <4>1
      <4>2. CASE r # w.ref
        <5>1. clauses'[r] = clauses[r]
          BY <3>7, <4>2 DEF Live
        <5> QED
          BY <1>2, <3>11, <5>1, WatchedInLits
      <4> QED
        BY <4>1, <4>2
    <3>12. w.lit \notin clauses'[w.ref].watched
      BY <2>1, <2>3, <3>1, <3>5, <3>7
    <3>13. Moves(DL, {}) /\ \A e \in {} : e.level > 0
      BY <1>2, <3>2, UnchangedMoves
    <3> QED
      BY <1>1, <1>3, <3>2, <3>8, <3>9, <3>11, <3>12, <3>13, VisitKeepsRoots
  <2> QED
    BY <2>4, <2>5
<1>14. CASE OthersFalse(w) /\ IsFalse(Other(w))
  BY <1>8, <1>14 DEF OthersFalse
<1>15. CASE OthersFalse(w) /\ ~ IsFalse(Other(w))
  <2>1. /\ Other(w) \in clauses[w.ref].lits /\ clauses[w.ref].watched = {w.lit, Other(w)}
        /\ Other(w) \in Lits /\ Other(w) # w.lit /\ \A l \in Unwatched(w) : IsFalse(l)
    BY <1>2, <1>15 DEF OthersFalse, Visited
  <2>2. PICK s : s = clauses[w.ref].lits \ {Other(w)}
    OBVIOUS
  <2>3. w.lit \in s /\ s \in SUBSET Lits /\ \A l \in s : ~ Unassigned(l)
    <3>1. \A l \in s : IsFalse(l)
      BY <1>2, <2>1, <2>2 DEF Unwatched
    <3> QED
      BY <1>2, <1>4, <2>1, <2>2, <3>1 DEF Unassigned, IsFalse
  <2>4. Highest(s) \in 0 .. DL /\ LevelOf(w.lit) <= Highest(s)
    BY <1>2, <2>3, HighestFacts
  <2>5. PICK e : e = Entry(Other(w), Highest(s), w.ref)
    OBVIOUS
  <2>6. e.lit = Other(w) /\ e.level = Highest(s) /\ e.source = w.ref /\ e \in EntryType
    BY <1>2, <2>1, <2>4, <2>5 DEF Entry, EntryType
  <2>7. trail' = Append(trail, e) /\ UNCHANGED <<conflict, pc, clauses>>
    BY <1>15, <2>2, <2>5 DEF OthersFalse, Quiet, Implied
  <2>8. Moves(DL, {e})
    BY <1>2, <1>3, <2>6, <2>7, AppendMoves
  <2>9. ~ opts.chrono /\ DL > 0 => e.level > 0
    BY <1>2, <1>3, <1>9, <2>4, <2>6
  <2> QED
    BY <1>1, <1>3, <2>1, <2>4, <2>6, <2>7, <2>8, <2>9, ImplyingRoots
<1> QED
  BY <1>1, <1>6, <1>7, <1>10, <1>11, <1>12, <1>13, <1>14, <1>15

\* A backtrack from above level 0 that also adds clauses or moves watches: only
\* the watches that were false at level 0 already have to be looked at.
LEMMA RewatchingKeepsRoots ==
    ASSUME Core, RootsWatched, NEW j \in 0 .. DL, NEW enq, NEW new, Enqueued(enq, new, j),
           Backtrack(j, enq), DL > 0, opts' = opts, pc' # "reduce",
           ~ opts.chrono /\ j > 0 => \A e \in new : e.level > 0,
           \A r \in Live' : \A l \in clauses'[r].watched :
               /\ l \in Lits
               /\ IsFalse(l) /\ PositionOf(l) <= dlevels[1] /\ LevelOf(l) = 0 => RootSatisfied(r)'
    PROVE  RootsWatched'
<1>1. /\ TrailOK /\ TrailOK' /\ Moves(j, new) /\ DL' = j /\ DL \in Nat
  BY Levels, BacktrackKeepsTrailOK, BacktrackMoves DEF Core
<1>2. ASSUME NEW r \in Live', NEW l \in clauses'[r].watched, IsFalse(l)',
             PositionOf(l)' <= IF j > 0 THEN dlevels'[1] ELSE propagated'
      PROVE  RootSatisfied(r)'
  <2>1. l \in Lits
    BY <1>2
  <2>2. IsFalse(l) /\ PositionOf(l) <= dlevels[1] /\ LevelOf(l) = 0
    BY <1>1, <1>2, <2>1, RootBefore
  <2> QED
    BY <1>2, <2>2
<1>3. DL' > 0 => \A r \in Live' : \A l \in clauses'[r].watched :
                      IsFalse(l)' /\ PositionOf(l)' <= dlevels'[1] => RootSatisfied(r)'
  BY <1>1, <1>2
<1>4. DL' = 0 => \A r \in Live' : \A l \in clauses'[r].watched :
          IsFalse(l)' /\ PositionOf(l)' <= propagated' /\ ~ ToVisit(l, r)' => RootSatisfied(r)'
  BY <1>1, <1>2
<1>5. ~ opts'.chrono => ~ HasLateRoot'
  <2>1. SUFFICES ASSUME ~ opts.chrono, ~ (DL' = 0) PROVE ~ HasLateRoot'
    BY DEF HasLateRoot
  <2>2. j > 0 /\ DL' > 0
    BY <1>1, <2>1
  <2>3. ~ HasLateRoot
    BY <2>1 DEF RootsWatched
  <2>4. dlevels'[1] = dlevels[1]
    <3>1. 1 \in 1 .. j
      BY <2>2
    <3> QED
      BY <1>1, <3>1, BacktrackKeepsTrailOK
  <2>5. \A e \in new : e.level > 0
    BY <2>1, <2>2
  <2> QED
    BY <1>1, <2>2, <2>3, <2>4, <2>5, NoLateRoot
<1> QED
  BY <1>3, <1>4, <1>5 DEF RootsWatched

\* Of two literals of the highest levels, one is of level 0 only if no other
\* literal but one has a higher level.
LEMMA ChronoAnalyzeKeepsRoots == Core /\ RootsWatched /\ ChronoAnalyze => RootsWatched'
<1> SUFFICES ASSUME Core, RootsWatched, ChronoAnalyze PROVE RootsWatched'
  OBVIOUS
<1>1. pc = "analyze" /\ opts.chrono /\ opts' = opts /\ visiting' = visiting
  BY DEF ChronoAnalyze
<1>2. TrailOK /\ PositionsOK /\ DL \in Nat /\ Analyzing /\ ClausesOK
  BY <1>1, Levels, PositionsHold DEF Core, Analyzing
<1>3. PICK r : r = conflict
  OBVIOUS
<1>4. PICK lits : lits = clauses[r].lits
  OBVIOUS
<1>5. /\ r \in Live /\ r \in DOMAIN clauses /\ r \in Nat /\ r # NOREF /\ lits \in SUBSET Lits
      /\ \A l \in lits : IsFalse(l) /\ ~ Unassigned(l) /\ LevelOf(l) \in Nat
  BY <1>1, <1>2, <1>3, <1>4, ConflictFacts DEF ClausesOK, PositionsOK
<1>6. PICK level : level = Highest(lits)
  OBVIOUS
<1>7. CASE level = 0
  <2>1. UNCHANGED search /\ conflict' = conflict /\ pc' = "idle"
    <3>1. Highest(clauses[conflict].lits) = 0
      BY <1>3, <1>4, <1>6, <1>7
    <3> QED
      BY <3>1 DEF ChronoAnalyze, Answer
  <2> QED
    BY <1>1, <2>1, StillRootsWatched DEF search
<1>8. CASE level # 0
  <2>1. /\ level \in 1 .. DL
        /\ \E pair :
               /\ \A l \in lits \ pair, k \in pair : LevelOf(l) <= LevelOf(k)
               /\ clauses'[r].watched = pair
               /\ pair \in SUBSET lits /\ IsPair(pair)
        /\ SameLits /\ Live' = Live
        /\ \A q \in DOMAIN clauses : q # r => clauses'[q] = clauses[q]
        /\ \/ \E l \in lits :
                  /\ LevelOf(l) = level /\ \A k \in lits \ {l} : LevelOf(k) <= level - 1
                  /\ Backtrack(level - 1, <<Implied(l, r)>>)
                  /\ pc' = "search"
           \/ /\ Backtrack(level, <<>>) /\ pc' = "uip"
              /\ \A l \in lits : LevelOf(l) = level => \E k \in lits \ {l} : LevelOf(k) = level
    BY <1>3, <1>4, <1>6, <1>8, ChronoFacts
  <2>2. PICK pair :
               /\ \A l \in lits \ pair, k \in pair : LevelOf(l) <= LevelOf(k)
               /\ clauses'[r].watched = pair
               /\ pair \in SUBSET lits /\ IsPair(pair)
    BY <2>1
  <2>3. clauses'[r].lits = lits /\ DL > 0 /\ r \in Live'
    BY <1>2, <1>4, <1>5, <2>1 DEF SameLits
  <2>4. ASSUME NEW q \in Live', NEW l \in clauses'[q].watched PROVE l \in Lits
    <3>1. CASE q = r
      BY <1>5, <2>2, <2>4, <3>1
    <3>2. CASE q # r
      <4>1. clauses'[q] = clauses[q] /\ q \in Live
        BY <2>1, <2>4, <3>2 DEF Live
      <4> QED
        BY <1>2, <2>4, <4>1, WatchedInLits
    <3> QED
      BY <3>1, <3>2
  <2>5. ASSUME NEW j \in 0 .. DL, NEW new, Moves(j, new), TrailOK',
               NEW q \in Live', NEW l \in clauses'[q].watched, q # r,
               IsFalse(l), PositionOf(l) <= dlevels[1]
        PROVE  RootSatisfied(q)'
    <3>1. clauses'[q] = clauses[q] /\ q \in Live
      BY <2>1, <2>5 DEF Live
    <3>2. RootSatisfied(q)
      BY <2>3, <2>5, <3>1 DEF RootsWatched
    <3> QED
      BY <1>2, <2>5, <3>1, <3>2, StaysSatisfied
  <2>6. ASSUME NEW l \in pair, LevelOf(l) = 0
        PROVE  \E t \in lits : LevelOf(t) = level /\ \A k \in lits \ {t} : LevelOf(k) = 0
    <3>1. PICK t \in lits : LevelOf(t) = level
      BY <1>2, <1>5, <1>6, <1>8, HighestFacts
    <3>2. t \in pair /\ t # l /\ level \in Nat
      BY <1>8, <2>1, <2>2, <2>6, <3>1
    <3>3. pair = {t, l}
      BY <2>2, <2>6, <3>2 DEF IsPair
    <3>4. ASSUME NEW k \in lits \ {t} PROVE LevelOf(k) = 0
      <4>1. CASE k = l
        BY <2>6, <4>1
      <4>2. CASE k # l
        <5>1. LevelOf(k) <= LevelOf(l) /\ LevelOf(k) \in Nat
          BY <1>5, <2>2, <2>6, <3>3, <3>4, <4>2
        <5> QED
          BY <2>6, <5>1
      <4> QED
        BY <4>1, <4>2
    <3> QED
      BY <3>1, <3>4
  <2>7. CASE /\ Backtrack(level, <<>>) /\ pc' = "uip"
             /\ \A l \in lits : LevelOf(l) = level => \E k \in lits \ {l} : LevelOf(k) = level
    <3>1. Enqueued(<<>>, {}, level) /\ level \in 0 .. DL
      BY <2>1 DEF Enqueued
    <3>2. TrailOK' /\ Moves(level, {})
      BY <1>2, <2>7, <3>1, BacktrackKeepsTrailOK, BacktrackMoves
    <3>3. ASSUME NEW q \in Live', NEW l \in clauses'[q].watched,
                 IsFalse(l), PositionOf(l) <= dlevels[1], LevelOf(l) = 0
          PROVE  RootSatisfied(q)'
      <4>1. q # r
        BY <1>8, <2>2, <2>6, <2>7, <3>3
      <4> QED
        BY <2>5, <3>1, <3>2, <3>3, <4>1
    <3> QED
      BY <1>1, <2>3, <2>4, <2>7, <3>1, <3>3, RewatchingKeepsRoots
  <2>8. ASSUME NEW t \in lits,
               LevelOf(t) = level, \A k \in lits \ {t} : LevelOf(k) <= level - 1,
               Backtrack(level - 1, <<Implied(t, r)>>), pc' = "search"
        PROVE  RootsWatched'
    <3>1. PICK j : j = level - 1
      OBVIOUS
    <3>2. j \in 0 .. DL /\ j < level /\ j \in Nat
      BY <1>2, <2>1, <3>1
    <3>3. PICK s : s = lits \ {t}
      OBVIOUS
    <3>4. s \in SUBSET Lits /\ \A k \in s : ~ Unassigned(k) /\ LevelOf(k) <= j
      BY <1>5, <2>8, <3>1, <3>3
    <3>5. /\ Highest(s) \in 0 .. DL
          /\ Highest(s) = 0 \/ \E k \in s : LevelOf(k) = Highest(s)
      BY <1>2, <3>4, HighestFacts
    <3>6. Highest(s) <= j
      BY <3>2, <3>4, <3>5
    <3>7. PICK e : e = Implied(t, r)
      OBVIOUS
    <3>8. e.lit = t /\ e.level = Highest(s) /\ e.source = r /\ e \in EntryType
      BY <1>4, <1>5, <3>3, <3>5, <3>7 DEF Implied, Entry, EntryType
    <3>9. Enqueued(<<e>>, {e}, j) /\ Backtrack(j, <<e>>)
      <4>1. e.level <= j /\ e.source # NOREF /\ LevelOf(e.lit) > j
        BY <1>5, <2>8, <3>2, <3>6, <3>8
      <4> QED
        BY <2>8, <3>1, <3>7, <3>8, <4>1 DEF Enqueued
    <3>10. TrailOK' /\ Moves(j, {e})
      BY <1>2, <3>2, <3>9, BacktrackKeepsTrailOK, BacktrackMoves
    <3>11. ASSUME NEW l \in pair, LevelOf(l) = 0 PROVE RootSatisfied(r)'
      <4>1. PICK u \in lits : LevelOf(u) = level /\ \A k \in lits \ {u} : LevelOf(k) = 0
        BY <2>6, <3>11
      <4>2. u = t
        BY <1>8, <2>8, <4>1
      <4>3. Highest(s) = 0
        BY <3>3, <3>5, <4>1, <4>2
      <4>4. t \in Assigned' /\ LevelOf(t)' = 0
        BY <3>8, <3>10, <4>3 DEF Moves
      <4> QED
        BY <2>3, <4>4 DEF RootSatisfied, Roots
    <3>12. ASSUME NEW q \in Live', NEW l \in clauses'[q].watched,
                  IsFalse(l), PositionOf(l) <= dlevels[1], LevelOf(l) = 0
           PROVE  RootSatisfied(q)'
      <4>1. CASE q = r
        BY <2>2, <3>11, <3>12, <4>1
      <4>2. CASE q # r
        BY <2>5, <3>2, <3>10, <3>12, <4>2
      <4> QED
        BY <4>1, <4>2
    <3> QED
      BY <1>1, <2>3, <2>4, <2>8, <3>2, <3>9, <3>12, RewatchingKeepsRoots
  <2> QED
    BY <2>1, <2>7, <2>8
<1> QED
  BY <1>7, <1>8

\* The clause that is learnt watches the literal it asserts, and one above level 0.
LEMMA LearnKeepsRoots == Core /\ RootsWatched /\ Learn => RootsWatched'
<1> SUFFICES ASSUME Core, RootsWatched, Learn PROVE RootsWatched'
  OBVIOUS
<1>1. /\ pc = "uip" /\ pc' = "search" /\ Analyzing /\ opts' = opts /\ visiting' = visiting
      /\ TrailOK /\ PositionsOK /\ DL \in Nat /\ ClausesOK
      /\ clauses \in Seq(ClauseType)
  BY PositionsHold, Levels DEF Core, Learn, Analyzing, ClausesOK
<1> DEFINE Marked(l, rest) ==
               [r \in DOMAIN clauses |->
                    [clauses[r] EXCEPT !.deleted =
                        @ \/ (clauses[r].learnt /\ ({l} \cup rest) \subseteq clauses[r].lits)]]
<1>0. PICK l \in Lits, rest \in SUBSET Lits, j \in 0 .. DL : Learns(l, rest, j, Len(clauses) + 1)
  BY LearnFacts
<1>r. PICK ref : ref = Len(clauses) + 1
  OBVIOUS
<1>2. /\ IsFalse(l) /\ LevelOf(l) = DL /\ ~ Unassigned(l) /\ l \notin rest
      /\ j < DL /\ (rest = {} /\ ~ opts.chrono => j = 0)
      /\ \A k \in rest : IsFalse(k) /\ LevelOf(k) <= j /\ LevelOf(k) > 0
      /\ \A m \in Models : Satisfies(m, {l} \cup rest)
      /\ ref = Len(clauses) + 1
      /\ IF rest = {}
         THEN Backtrack(j, <<Entry(l, 0, NOREF)>>) /\ UNCHANGED <<clauses, watches>>
         ELSE /\ Backtrack(j, <<Entry(l, j, ref)>>)
              /\ \E second \in rest :
                     /\ clauses' = Append(Marked(l, rest),
                            [lits |-> {l} \cup rest, watched |-> {l, second},
                             learnt |-> TRUE, deleted |-> FALSE])
                     /\ watches' = watches \cup
                            {Watch(l, ref, second, Cardinality({l} \cup rest)),
                             Watch(second, ref, l, Cardinality({l} \cup rest))}
  BY <1>0, <1>r DEF Learns
<1>3. j \in Nat /\ ref \in Nat /\ ref # NOREF /\ 0 <= j /\ DL > 0
  BY <1>1, <1>2 DEF NOREF
<1>5. CASE rest = {}
  <2>1. PICK e : e = Entry(l, 0, NOREF)
    OBVIOUS
  <2>2. e.lit = l /\ e.level = 0 /\ e.source = NOREF /\ e \in EntryType
    BY <1>2, <2>1 DEF Entry, EntryType, NOREF
  <2>3. Backtrack(j, <<e>>) /\ clauses' = clauses
    BY <1>2, <1>5, <2>1
  <2>4. Enqueued(<<e>>, {e}, j)
    BY <1>2, <1>3, <2>2 DEF Enqueued
  <2>5. ~ opts.chrono /\ j > 0 => \A x \in {e} : x.level > 0
    BY <1>2, <1>5
  <2> QED
    BY <1>1, <1>3, <2>3, <2>4, <2>5, BacktrackKeepsRoots
<1>6. CASE rest # {}
  <2>1. PICK lits : lits = {l} \cup rest
    OBVIOUS
  <2>2. PICK second \in rest :
            clauses' = Append(Marked(l, rest),
                   [lits |-> {l} \cup rest, watched |-> {l, second},
                    learnt |-> TRUE, deleted |-> FALSE])
    BY <1>2, <1>6
  <2>3. PICK c : c = [lits |-> {l} \cup rest, watched |-> {l, second},
                      learnt |-> TRUE, deleted |-> FALSE]
    OBVIOUS
  <2>4. /\ c \in ClauseType /\ c.lits = lits /\ c.watched = {l, second} /\ ~ c.deleted
    BY <1>2, <2>1, <2>3 DEF ClauseType
  <2>5. clauses' = Append(
                [r \in DOMAIN clauses |->
                    [clauses[r] EXCEPT !.deleted =
                        @ \/ (clauses[r].learnt /\ c.lits \subseteq clauses[r].lits)]], c)
    <3>1. c.lits = {l} \cup rest
      BY <2>1, <2>4
    <3> QED
      BY <2>2, <2>3, <3>1
  <2>6. Added(c, ref)
    BY <1>1, <1>2, <2>4, <2>5, AppendedClause
  <2>9. PICK e : e = Entry(l, j, ref)
    OBVIOUS
  <2>10. e.lit = l /\ e.level = j /\ e.source = ref /\ e \in EntryType
    BY <1>2, <1>3, <2>9 DEF Entry, EntryType
  <2>11. Backtrack(j, <<e>>)
    BY <1>2, <1>6, <2>9
  <2>12. Enqueued(<<e>>, {e}, j)
    BY <1>2, <1>3, <2>10 DEF Enqueued
  <2>13. TrailOK' /\ Moves(j, {e})
    BY <1>1, <2>11, <2>12, BacktrackKeepsTrailOK, BacktrackMoves
  <2>14. /\ clauses'[ref] = c /\ ref \notin DOMAIN clauses
         /\ DOMAIN clauses' = DOMAIN clauses \cup {ref}
         /\ \A r \in DOMAIN clauses :
               /\ clauses'[r].lits = clauses[r].lits /\ clauses'[r].watched = clauses[r].watched
               /\ \/ clauses'[r].deleted = clauses[r].deleted
                  \/ clauses'[r].deleted = TRUE
    BY <2>4, <2>6 DEF Added
  <2>15. ASSUME NEW q \in Live', NEW k \in clauses'[q].watched
         PROVE  /\ k \in Lits
                /\ (IsFalse(k) /\ PositionOf(k) <= dlevels[1] /\ LevelOf(k) = 0
                        => RootSatisfied(q)')
    <3>1. CASE q = ref
      <4>1. k = l \/ k \in rest
        BY <2>4, <2>14, <2>15, <3>1
      <4>2. LevelOf(k) # 0
        BY <1>2, <1>3, <4>1
      <4> QED
        BY <1>2, <4>1, <4>2
    <3>2. CASE q # ref
      <4>1. q \in Live /\ q \in DOMAIN clauses /\ k \in clauses[q].watched
            /\ clauses[q].lits = clauses'[q].lits
        BY <2>14, <2>15, <3>2 DEF Live
      <4>2. k \in Lits
        BY <1>1, <4>1, WatchedInLits
      <4>3. ASSUME IsFalse(k), PositionOf(k) <= dlevels[1] PROVE RootSatisfied(q)'
        <5>1. RootSatisfied(q)
          BY <1>3, <4>1, <4>3 DEF RootsWatched
        <5> QED
          BY <1>1, <2>13, <4>1, <5>1, StaysSatisfied
      <4> QED
        BY <4>2, <4>3
    <3> QED
      BY <3>1, <3>2
  <2>16. ~ opts.chrono /\ j > 0 => \A x \in {e} : x.level > 0
    BY <2>10
  <2> QED
    BY <1>1, <1>3, <2>11, <2>12, <2>15, <2>16, RewatchingKeepsRoots
<1> QED
  BY <1>5, <1>6

\* The reason that is strengthened watches its first literal, and one above level 0.
LEMMA StrengthenKeepsRoots == Core /\ RootsWatched /\ Strengthen => RootsWatched'
<1> SUFFICES ASSUME Core, RootsWatched, Strengthen PROVE RootsWatched'
  OBVIOUS
<1>1. PICK p : p = Parent.lit
  OBVIOUS
<1>2. PICK r : r = Parent.source
  OBVIOUS
<1>3. /\ pc = "uip" /\ pc' = "analyze" /\ Cardinality(Tracked) > 1
      /\ UNCHANGED <<opts, trail, propagated, dlevels, visiting>>
  BY DEF Strengthen
<1>4. PICK first, second, lits : StrengthenedTo(p, r, first, second, lits)
  BY <1>1, <1>2, StrengthenFacts
<1>5. TrailOK /\ PositionsOK /\ DL \in Nat /\ ClausesOK
  BY Levels, PositionsHold DEF Core
<1>6. /\ p \in Assigned /\ LevelOf(p) = DL /\ DL > 0 /\ ReasonFor(p, r)
  BY <1>1, <1>2, <1>3, ParentFacts
<1>7. /\ r \in Live /\ r \in DOMAIN clauses /\ clauses[r] \in ClauseType
      /\ ReasonLits = {k \in clauses[r].lits \ {p} : LevelOf(k) > 0}
  BY <1>1, <1>2, <1>3, ReasonLitsFacts
<1>8. /\ DL' = DL /\ (HasLateRoot' <=> HasLateRoot) /\ Roots' = Roots /\ dlevels' = dlevels
      /\ \A l : (IsFalse(l)' <=> IsFalse(l)) /\ PositionOf(l)' = PositionOf(l)
  BY <1>3 DEF DL, HasLateRoot, Roots, IsFalse, PositionOf, Assigned, LevelOf
<1>9. /\ \A q \in DOMAIN clauses : q # r =>
             clauses'[q].lits = clauses[q].lits /\ clauses'[q].watched = clauses[q].watched
      /\ Live' \subseteq Live
      /\ clauses'[r].watched = {first, second} /\ clauses[r].watched = {first, p}
      /\ second \in {first} \cup ReasonLits /\ first # second
  BY <1>4 DEF StrengthenedTo, Live
<1>10. ~ RootSatisfied(r)
  <2>1. SUFFICES ASSUME NEW k \in clauses[r].lits, k \in Assigned, LevelOf(k) = 0 PROVE FALSE
    BY DEF RootSatisfied, Roots
  <2>2. k # p
    BY <1>6, <2>1
  <2>3. IsFalse(k)
    BY <1>6, <2>1, <2>2 DEF ReasonFor
  <2> QED
    BY <1>5, <2>1, <2>3 DEF PositionsOK, IsFalse
<1>11. ASSUME NEW l \in {first, second}, IsFalse(l), PositionOf(l) <= dlevels[1] PROVE FALSE
  <2>1. CASE l = first
    BY <1>6, <1>7, <1>9, <1>10, <1>11, <2>1 DEF RootsWatched
  <2>2. CASE l = second
    <3>1. l \in clauses[r].lits /\ LevelOf(l) > 0 /\ l \in Lits
      BY <1>7, <1>9, <2>2 DEF ClauseType
    <3>2. PositionOf(l) \in 1 .. Len(trail) /\ 1 \in 1 .. DL /\ dlevels[1] \in Nat
      BY <1>5, <1>6, <1>11, <3>1, Levels DEF PositionsOK, IsFalse, Unassigned
    <3>3. \A i \in 1 .. dlevels[1] : trail[i].level < 1
      BY <3>2 DEF Core, TrailOK
    <3>4. PositionOf(l) \in 1 .. dlevels[1]
      BY <1>11, <3>2
    <3>5. LevelOf(l) < 1 /\ LevelOf(l) \in Nat
      BY <1>5, <1>11, <3>1, <3>3, <3>4 DEF LevelOf, PositionsOK, IsFalse, Unassigned
    <3> QED
      BY <3>1, <3>5
  <2> QED
    BY <1>11, <2>1, <2>2
<1>12. \A q \in Live' : \A l \in clauses'[q].watched :
           IsFalse(l)' /\ PositionOf(l)' <= dlevels'[1] => RootSatisfied(q)'
  <2>1. SUFFICES ASSUME NEW q \in Live', NEW l \in clauses'[q].watched,
                        IsFalse(l), PositionOf(l) <= dlevels[1]
                 PROVE  RootSatisfied(q)'
    BY <1>8
  <2>2. q # r
    BY <1>9, <1>11, <2>1
  <2>3. q \in Live /\ q \in DOMAIN clauses
    BY <1>9, <2>1 DEF Live
  <2>4. clauses'[q].lits = clauses[q].lits /\ clauses'[q].watched = clauses[q].watched
    BY <1>9, <2>2, <2>3
  <2>5. RootSatisfied(q)
    BY <1>6, <2>1, <2>3, <2>4 DEF RootsWatched
  <2> QED
    BY <1>8, <2>4, <2>5 DEF RootSatisfied
<1>13. ~ opts'.chrono => ~ HasLateRoot'
  BY <1>3, <1>8 DEF RootsWatched
<1> QED
  BY <1>3, <1>6, <1>8, <1>12, <1>13 DEF RootsWatched

\* Before shrink, a literal of level 0 is among the first.
LEMMA RootsWatchedAtRoot ==
    ASSUME Core, RootsWatched, pc = "reduce", PropagationDone
    PROVE  WatchedAtRoot
<1>1. /\ TrailOK /\ PositionsOK /\ DL \in Nat /\ ClausesOK /\ visiting = {}
      /\ propagated = Len(trail) /\ Len(trail) \in Nat /\ conflict = NOREF
  BY Levels, PositionsHold DEF Core, RestOK, PropagationDone
<1>2. SUFFICES ASSUME NEW r \in Live, NEW l \in clauses[r].watched, IsFalse(l), LevelOf(l) = 0
               PROVE  RootSatisfied(r)
  BY DEF WatchedAtRoot
<1>3. l \in Lits
  BY <1>1, <1>2, WatchedInLits
<1>4. PositionOf(l) \in 1 .. Len(trail) /\ trail[PositionOf(l)].level = 0
  BY <1>1, <1>2, <1>3 DEF PositionsOK, IsFalse, Unassigned, LevelOf
<1>5. CASE DL = 0
  <2>1. ~ ToVisit(l, r)
    BY <1>1 DEF ToVisit
  <2>2. PositionOf(l) <= propagated
    BY <1>1, <1>4
  <2> QED
    BY <1>1, <1>2, <1>5, <2>1, <2>2 DEF RootsWatched
<1>6. CASE DL # 0
  <2>1. ~ HasLateRoot /\ DL > 0 /\ 1 \in 1 .. DL
    BY <1>1, <1>6 DEF RootsWatched
  <2>2. dlevels[1] \in Nat
    BY <1>1, <2>1, Levels
  <2>3. ~ (PositionOf(l) \in dlevels[1] + 1 .. Len(trail))
    BY <1>4, <2>1 DEF HasLateRoot
  <2>4. PositionOf(l) <= dlevels[1]
    BY <1>1, <1>4, <2>2, <2>3
  <2> QED
    BY <1>2, <2>1, <2>4 DEF RootsWatched
<1> QED
  BY <1>5, <1>6

\* The trail that the units make: all at level 0, without reasons.
LEMMA InitialTrail ==
    ASSUME Init
    PROVE  /\ TrailOK /\ PositionsOK /\ DL = 0
           /\ Roots = Range(problem.units)
           /\ \A l \in Lits : ~ Unassigned(l) => LevelOf(l) = 0 /\ SourceOf(l) = NOREF
<1>1. /\ problem \in Problems /\ propagated = 0 /\ dlevels = <<>>
      /\ trail = [i \in DOMAIN problem.units |-> Entry(problem.units[i], 0, NOREF)]
  BY DEF Init
<1>2. PICK us : us = problem.units
  OBVIOUS
<1>3. us \in Seq(Lits) /\ Consistent(us)
  BY <1>1, <1>2, ProblemsAssumption
<1>4. PICK n \in Nat : n = Len(us) /\ DOMAIN us = 1 .. n
  BY <1>3
<1>5. \A i \in 1 .. n : us[i] \in Lits
  BY <1>3, <1>4
<1>6. trail = [i \in 1 .. n |-> Entry(us[i], 0, NOREF)]
  BY <1>1, <1>2, <1>4
<1>7. \A i \in 1 .. n : Entry(us[i], 0, NOREF) \in EntryType
  BY <1>5 DEF Entry, EntryType, NOREF
<1>8. /\ trail \in Seq(EntryType) /\ Len(trail) = n /\ DOMAIN trail = 1 .. n
      /\ \A i \in 1 .. n : trail[i] = Entry(us[i], 0, NOREF)
  BY <1>6, <1>7
<1>9. \A i \in 1 .. n : trail[i].lit = us[i] /\ trail[i].level = 0 /\ trail[i].source = NOREF
  BY <1>8 DEF Entry
<1>10. DL = 0 /\ dlevels \in Seq(Nat)
  BY <1>1 DEF DL
<1>11. ASSUME NEW i \in 1 .. n, NEW k \in 1 .. n, us[i] \in {us[k], -us[k]} PROVE i = k
  <2>1. us[i] # -us[k]
    <3>1. us[i] \in Range(us) /\ us[k] \in Range(us)
      BY <1>4 DEF Range
    <3> QED
      BY <1>3, <3>1 DEF Consistent
  <2>2. us[i] = us[k]
    BY <1>11, <2>1
  <2> QED
    BY <1>3, <1>4, <2>2 DEF Consistent, IsInjective
<1>12. TrailOK
  <2>1. \A i \in DOMAIN trail : trail[i].level <= DL
    BY <1>8, <1>9, <1>10
  <2>2. \A i, k \in DOMAIN trail : trail[i].lit \in {trail[k].lit, -trail[k].lit} => i = k
    BY <1>8, <1>9, <1>11
  <2>3. \A j \in 1 .. DL : FALSE
    BY <1>10
  <2>4. \A i \in DOMAIN trail : ~ (trail[i].level > 0)
    BY <1>8, <1>9
  <2>5. propagated \in 0 .. Len(trail)
    BY <1>1, <1>8
  <2> QED
    BY <1>8, <1>10, <2>1, <2>2, <2>3, <2>4, <2>5 DEF TrailOK
<1>13. PositionsOK
  BY <1>12, PositionsHold
<1>14. ASSUME NEW l \in Lits, ~ Unassigned(l) PROVE LevelOf(l) = 0 /\ SourceOf(l) = NOREF
  <2>1. PositionOf(l) \in 1 .. n
    BY <1>8, <1>13, <1>14 DEF PositionsOK
  <2> QED
    BY <1>9, <2>1 DEF LevelOf, SourceOf
<1>15. Assigned = Range(us)
  BY <1>4, <1>8, <1>9 DEF Assigned, Range
<1>16. Roots = Range(us)
  <2>1. \A l \in Assigned : l \in Lits /\ ~ Unassigned(l)
    BY <1>13 DEF PositionsOK, Unassigned
  <2> QED
    BY <1>14, <1>15, <2>1 DEF Roots
<1> QED
  BY <1>2, <1>10, <1>12, <1>13, <1>14, <1>16

\* A clause that is read has as many literals as places.
LEMMA ClauseRead ==
    ASSUME NEW c \in Seq(Lits), Len(c) > 1, Consistent(c)
    PROVE  /\ c[1] \in Range(c) /\ c[2] \in Range(c) /\ c[1] # c[2] /\ Range(c) \in SUBSET Lits
           /\ Len(c) = 2 <=> Cardinality(Range(c)) = 2
<1>1. PICK n \in Nat : n = Len(c) /\ DOMAIN c = 1 .. n /\ n > 1
  OBVIOUS
<1>2. 1 \in DOMAIN c /\ 2 \in DOMAIN c /\ \A i, k \in DOMAIN c : c[i] = c[k] => i = k
  BY <1>1 DEF Consistent, IsInjective
<1>3. Range(c) = {c[i] : i \in 1 .. n} /\ Range(c) \in SUBSET Lits
  BY <1>1 DEF Range
<1>4. c[1] \in Range(c) /\ c[2] \in Range(c) /\ c[1] # c[2]
  BY <1>1, <1>2, <1>3
<1>5. ASSUME n = 2 PROVE IsPair(Range(c))
  <2>1. Range(c) = {c[1], c[2]}
    BY <1>3, <1>5
  <2> QED
    BY <1>4, <2>1 DEF IsPair
<1>6. ASSUME IsPair(Range(c)) PROVE n = 2
  <2>1. SUFFICES ASSUME n # 2 PROVE FALSE
    OBVIOUS
  <2>2. 3 \in DOMAIN c
    BY <1>1, <2>1
  <2>3. c[3] \in Range(c) /\ c[3] # c[1] /\ c[3] # c[2]
    BY <1>1, <1>2, <1>3, <2>2
  <2>4. PICK a, b : Range(c) = {a, b}
    BY <1>6 DEF IsPair
  <2> QED
    BY <1>4, <2>3, <2>4
<1> QED
  BY <1>1, <1>3, <1>4, <1>5, <1>6, Pairs

\* The clauses and watches that the program starts from.
LEMMA InitialClauses ==
    ASSUME Init
    PROVE  /\ ClausesOK /\ WatchesOK /\ Live = DOMAIN problem.clauses
           /\ DOMAIN clauses = DOMAIN problem.clauses
           /\ \A r \in DOMAIN clauses :
                  clauses[r].lits = Range(problem.clauses[r]) /\ ~ clauses[r].learnt
<1>1. problem \in Problems
  BY DEF Init
<1>2. PICK cs : cs = problem.clauses
  OBVIOUS
<1>3. /\ cs \in Seq(Seq(Lits))
      /\ \A k \in DOMAIN cs : cs[k] \in Seq(Lits) /\ Len(cs[k]) > 1 /\ Consistent(cs[k])
  BY <1>1, <1>2, ProblemsAssumption
<1> DEFINE Cl(r) == [lits |-> Range(cs[r]), watched |-> {cs[r][1], cs[r][2]},
                     learnt |-> FALSE, deleted |-> FALSE]
           WA(r) == Watch(cs[r][1], r, cs[r][2], Len(cs[r]))
           WB(r) == Watch(cs[r][2], r, cs[r][1], Len(cs[r]))
<1>4. clauses = [r \in DOMAIN cs |-> Cl(r)] /\ watches = UNION {{WA(r), WB(r)} : r \in DOMAIN cs}
  BY <1>2, Zenon DEF Init
<1>5. PICK n \in Nat : n = Len(cs) /\ DOMAIN cs = 1 .. n
  BY <1>3
<1>6. ASSUME NEW r \in DOMAIN cs
      PROVE  /\ Cl(r) \in ClauseType /\ Cl(r).lits = Range(cs[r])
             /\ Cl(r).watched = {cs[r][1], cs[r][2]}
             /\ Cl(r).learnt = FALSE /\ Cl(r).deleted = FALSE
             /\ cs[r][1] \in Range(cs[r]) /\ cs[r][2] \in Range(cs[r]) /\ cs[r][1] # cs[r][2]
             /\ cs[r][1] \in Lits /\ cs[r][2] \in Lits
             /\ (Len(cs[r]) = 2 <=> Cardinality(Range(cs[r])) = 2)
  <2>1. /\ cs[r][1] \in Range(cs[r]) /\ cs[r][2] \in Range(cs[r]) /\ cs[r][1] # cs[r][2]
        /\ Range(cs[r]) \in SUBSET Lits
        /\ (Len(cs[r]) = 2 <=> Cardinality(Range(cs[r])) = 2)
    BY <1>3, <1>6, ClauseRead
  <2> QED
    BY <2>1 DEF ClauseType
<1> HIDE DEF Cl
<1>7. /\ clauses \in Seq(ClauseType) /\ DOMAIN clauses = DOMAIN cs
      /\ \A r \in DOMAIN cs : clauses[r] = Cl(r)
  <2>1. clauses = [r \in 1 .. n |-> Cl(r)] /\ \A r \in 1 .. n : Cl(r) \in ClauseType
    BY <1>4, <1>5, <1>6
  <2> QED
    BY <1>5, <2>1
<1>b. ASSUME NEW r \in DOMAIN cs
      PROVE  /\ clauses[r].lits = Range(cs[r]) /\ clauses[r].watched = {cs[r][1], cs[r][2]}
             /\ ~ clauses[r].learnt /\ ~ clauses[r].deleted
             /\ cs[r][1] \in Range(cs[r]) /\ cs[r][2] \in Range(cs[r]) /\ cs[r][1] # cs[r][2]
             /\ (Len(cs[r]) = 2 <=> Cardinality(Range(cs[r])) = 2)
  <2>1. clauses[r] = Cl(r)
    BY <1>7, <1>b
  <2>2. clauses[r].lits = Cl(r).lits /\ clauses[r].watched = Cl(r).watched
        /\ clauses[r].learnt = Cl(r).learnt /\ clauses[r].deleted = Cl(r).deleted
    BY <2>1
  <2> HIDE <2>1
  <2> QED
    BY <1>6, <1>b, <2>2
<1>8. Live = DOMAIN cs
  BY <1>7, <1>b DEF Live
<1>9. ClausesOK
  <2>1. ASSUME NEW r \in Live
        PROVE  clauses[r].watched \subseteq clauses[r].lits /\ IsPair(clauses[r].watched)
    <3>1. r \in DOMAIN cs
      BY <1>8, <2>1
    <3>2. clauses[r].watched = {cs[r][1], cs[r][2]} /\ cs[r][1] # cs[r][2]
          /\ cs[r][1] \in clauses[r].lits /\ cs[r][2] \in clauses[r].lits
      BY <1>b, <3>1
    <3> QED
      BY <3>2 DEF IsPair
  <2> QED
    BY <1>7, <2>1 DEF ClausesOK
<1>10. ASSUME NEW r \in DOMAIN cs
       PROVE  /\ WA(r) \in WatchType /\ WB(r) \in WatchType /\ WA(r).ref = r /\ WB(r).ref = r
              /\ WA(r).lit = cs[r][1] /\ WA(r).imp = cs[r][2]
              /\ WB(r).lit = cs[r][2] /\ WB(r).imp = cs[r][1]
              /\ (WA(r).binary <=> Len(cs[r]) = 2) /\ (WB(r).binary <=> Len(cs[r]) = 2)
  <2>1. r \in Nat /\ Len(cs[r]) \in Nat
    BY <1>3, <1>5, <1>10
  <2> QED
    BY <1>6, <1>10, <2>1 DEF Watch, WatchType
<1>11. \A w \in watches : \E r \in DOMAIN cs : w = WA(r) \/ w = WB(r)
  BY <1>4
<1>12. \A r \in DOMAIN cs : WA(r) \in watches /\ WB(r) \in watches
  BY <1>4
<1> HIDE DEF WA, WB
<1>13. ASSUME NEW w \in watches
       PROVE  /\ w \in WatchType /\ w.ref \in DOMAIN clauses
              /\ w.lit \in clauses[w.ref].watched /\ w.lit \in clauses[w.ref].lits
              /\ w.imp \in clauses[w.ref].lits \ {w.lit}
              /\ w.binary <=> Cardinality(clauses[w.ref].lits) = 2
  <2>1. PICK r \in DOMAIN cs : w = WA(r) \/ w = WB(r)
    BY <1>11, <1>13
  <2>2. w.ref = r /\ w \in WatchType
    BY <1>10, <2>1
  <2>3. w.binary <=> Cardinality(clauses[w.ref].lits) = 2
    BY <1>b, <1>10, <2>1, <2>2
  <2>4. /\ w.lit \in clauses[w.ref].watched /\ w.lit \in clauses[w.ref].lits
        /\ w.imp \in clauses[w.ref].lits \ {w.lit}
    <3>1. CASE w = WA(r)
      BY <1>b, <1>10, <2>2, <3>1
    <3>2. CASE w = WB(r)
      BY <1>b, <1>10, <2>2, <3>2
    <3> QED
      BY <2>1, <3>1, <3>2
  <2> QED
    BY <1>7, <2>2, <2>3, <2>4
<1>14. ASSUME NEW v \in watches, NEW w \in watches, v.ref = w.ref, v.lit = w.lit PROVE v = w
  <2>1. PICK r \in DOMAIN cs : v = WA(r) \/ v = WB(r)
    BY <1>11, <1>14
  <2>2. PICK q \in DOMAIN cs : w = WA(q) \/ w = WB(q)
    BY <1>11, <1>14
  <2>3. q = r
    BY <1>10, <1>14, <2>1, <2>2
  <2> QED
    BY <1>b, <1>10, <1>14, <2>1, <2>2, <2>3
<1>15. ASSUME NEW r \in Live, NEW l \in clauses[r].watched
       PROVE  \E w \in watches : w.ref = r /\ w.lit = l
  BY <1>b, <1>8, <1>10, <1>12, <1>15
<1>16. WatchesOK
  BY <1>13, <1>14, <1>15 DEF WatchesOK
<1>17. \A r \in DOMAIN clauses : clauses[r].lits = Range(cs[r]) /\ ~ clauses[r].learnt
  BY <1>7, <1>b
<1> QED
  BY <1>2, <1>7, <1>8, <1>9, <1>16, <1>17

\* The invariant holds in the beginning.
LEMMA InitCore == Init => Core /\ RootsWatched
<1> SUFFICES ASSUME Init PROVE Core /\ RootsWatched
  OBVIOUS
<1>1. /\ problem \in Problems /\ opts \in Options /\ propagated = 0
      /\ visiting = {} /\ conflict = NOREF /\ uip = [seen |-> {}, resolved |-> {}]
      /\ rested = TRUE /\ reduced = FALSE
      /\ calls = 0 /\ assumptions = <<>> /\ iconflict = {}
      /\ pc = "idle" /\ cnfstate = "unsolved"
  BY DEF Init
<1>2. /\ TrailOK /\ PositionsOK /\ DL = 0
      /\ Roots = Range(problem.units)
      /\ \A l \in Lits : ~ Unassigned(l) => LevelOf(l) = 0 /\ SourceOf(l) = NOREF
  BY InitialTrail
<1>3. /\ ClausesOK /\ WatchesOK /\ Live = DOMAIN problem.clauses
      /\ DOMAIN clauses = DOMAIN problem.clauses
      /\ \A r \in DOMAIN clauses :
             clauses[r].lits = Range(problem.clauses[r]) /\ ~ clauses[r].learnt
  BY InitialClauses
<1>4. ReasonsOK
  <2>1. ASSUME NEW l \in Lits, HasReason(l) PROVE FALSE
    BY <1>2, <2>1 DEF HasReason, Unassigned
  <2> QED
    BY <2>1 DEF ReasonsOK
<1>5. AnalysisOK /\ UipSound
  BY <1>1 DEF AnalysisOK, UipSound, Analyzing
<1>6. VisitingOK
  BY <1>1 DEF VisitingOK
<1>7. RestOK
  <2>1. \A l \in Lits : l \in Assigned => SourceOf(l) \in {NOREF} \cup DOMAIN clauses
    BY <1>2 DEF Unassigned
  <2>2. calls \in 0 .. Len(problem.calls) /\ assumptions \in Seq(Lits)
    <3>1. problem.calls \in Seq(Seq(Lits))
      BY <1>1, ProblemsAssumption
    <3>2. Len(problem.calls) \in Nat
      BY <3>1
    <3> QED
      BY <1>1, <3>2
  <2> QED
    BY <1>1, <2>1, <2>2 DEF RestOK, Propagating
<1>8. Sound
  <2>1. SUFFICES ASSUME NEW m \in Models
                 PROVE  Roots \subseteq m /\ \A r \in DOMAIN clauses : Satisfies(m, clauses[r].lits)
    BY DEF Sound
  <2> QED
    BY <1>2, <1>3, <2>1 DEF Models, Satisfies
<1>9. Complete
  <2>1. SUFFICES ASSUME NEW m \in Assignments, Roots \subseteq m,
                        \A r \in Live : ~ clauses[r].learnt => Satisfies(m, clauses[r].lits)
                 PROVE  m \in Models
    BY DEF Complete
  <2>2. \A k \in DOMAIN problem.clauses : Range(problem.clauses[k]) \cap m # {}
    BY <1>3, <2>1 DEF Satisfies
  <2> QED
    BY <1>2, <2>1, <2>2 DEF Models
<1>10. RootsWatched
  <2>1. ASSUME NEW r \in Live, NEW l \in clauses[r].watched, IsFalse(l), PositionOf(l) <= propagated
        PROVE  FALSE
    <3>1. l \in Lits
      BY <1>3, <2>1, WatchedInLits
    <3>2. PositionOf(l) \in 1 .. Len(trail) /\ Len(trail) \in Nat
      BY <1>2, <2>1, <3>1, Levels DEF PositionsOK, IsFalse, Unassigned
    <3> QED
      BY <1>1, <2>1, <3>2
  <2>2. ~ HasLateRoot /\ ~ (DL > 0)
    BY <1>2 DEF HasLateRoot
  <2> QED
    BY <1>1, <2>1, <2>2 DEF RootsWatched
<1> QED
  BY <1>2, <1>3, <1>4, <1>5, <1>6, <1>7, <1>8, <1>9, <1>10 DEF Core

-----------------------------------------------------------------------------
(***************************************************************************)
(* The inductive invariant.                                                *)
(***************************************************************************)
\* Shrinking leaves a learnt clause, and the solver is not called again after a
\* conflict at level 0: otherwise watches of removed literals stay behind.
Regular ==
    /\ ReduceLearnts => \E r \in Learnt : ~ Shrunk[r].deleted
    /\ Call /\ problem.reduce => conflict = NOREF

\* RootsWatched is needed until shrink has looked at the clauses.
ToReduce == problem.reduce /\ (~ reduced \/ pc = "reduce")

InductiveInvariant ==
    /\ Core
    /\ ToReduce => RootsWatched
    /\ pc = "reduce" => reduced

\* So does the inductive invariant.
LEMMA InitInvariant == Init => InductiveInvariant
<1>1. Init => pc = "idle"
  BY DEF Init
<1> QED
  BY <1>1, InitCore DEF InductiveInvariant

\* Every regular step keeps the core.
LEMMA StepKeepsCore == InductiveInvariant /\ Regular /\ [Next]_vars => Core'
<1> SUFFICES ASSUME InductiveInvariant, Regular, [Next]_vars PROVE Core'
  OBVIOUS
<1>1. Core
  BY DEF InductiveInvariant
<1>2. CASE Call
  BY <1>1, <1>2, CallKeeps
<1>3. CASE NextLiteral
  BY <1>1, <1>3, NextLiteralKeeps
<1>4. CASE VisitWatch
  BY <1>1, <1>4, VisitWatchKeeps
<1>5. CASE ChronoAnalyze
  BY <1>1, <1>5, ChronoAnalyzeKeeps
<1>6. CASE Analyze
  BY <1>1, <1>6, AnalyzeKeeps
<1>7. CASE Resolve
  BY <1>1, <1>7, ResolveKeeps
<1>8. CASE Strengthen
  BY <1>1, <1>8, StrengthenKeeps
<1>9. CASE Learn
  BY <1>1, <1>9, LearnKeeps
<1>10. CASE RootDone
  BY <1>1, <1>10, RootDoneKeeps
<1>11. CASE AllAssigned
  BY <1>1, <1>11, AllAssignedKeeps
<1>12. CASE Reduce
  BY <1>1, <1>12, ReduceKeeps
<1>13. CASE ReduceLearnts
  <2>1. pc = "reduce" /\ PropagationDone
    BY <1>13 DEF ReduceLearnts
  <2>2. RootsWatched
    BY <1>1, <2>1 DEF InductiveInvariant, ToReduce, Core, RestOK
  <2>3. WatchedAtRoot
    BY <1>1, <2>1, <2>2, RootsWatchedAtRoot
  <2> QED
    BY <1>1, <1>13, <2>3, ReduceLearntsKeeps DEF Regular
<1>14. CASE Restart
  BY <1>1, <1>14, RestartKeeps
<1>15. CASE Decide
  BY <1>1, <1>15, DecideKeeps
<1>16. CASE FailAssumption
  BY <1>1, <1>16, FailAssumptionKeeps
<1>17. CASE Terminating \/ UNCHANGED vars
  BY <1>1, <1>17, StutterKeeps DEF Terminating
<1> QED
  BY <1>2, <1>3, <1>4, <1>5, <1>6, <1>7, <1>8, <1>9, <1>10, <1>11, <1>12, <1>13, <1>14, <1>15,
     <1>16, <1>17 DEF Next

\* Only reduce leads to pc = "reduce", and nothing unsets reduced.
LEMMA ReducingOnce ==
    ASSUME [Next]_vars, ~ Reduce
    PROVE  /\ pc' = "reduce" => pc = "reduce"
           /\ problem' = problem /\ reduced' = reduced
<1>1. CASE Call \/ NextLiteral \/ RootDone \/ AllAssigned \/ Restart \/ Decide
  BY <1>1 DEF Call, NextLiteral, RootDone, AllAssigned, Restart, Decide, limits, Answer
<1>2. CASE VisitWatch
  BY <1>2 DEF VisitWatch, Satisfied, ClauseDeleted, VisitBinary, OtherTrue, FindLiteral,
              OthersFalse, Conflicting, Block, Quiet, Answer, limits
<1>3. CASE ChronoAnalyze
  <2>1. /\ problem' = problem /\ reduced' = reduced
        /\ pc' = "idle" \/ pc' = "search" \/ pc' = "uip"
    BY <1>3 DEF ChronoAnalyze, StartUip, Answer
  <2> QED
    BY <2>1
<1>4. CASE Analyze \/ Resolve \/ Strengthen \/ FailAssumption \/ ReduceLearnts
  BY <1>4 DEF Analyze, Resolve, Strengthen, FailAssumption, ReduceLearnts, limits, StartUip, Answer
<1>5. CASE Learn
  BY <1>5, Zenon DEF Learn, limits
<1>6. CASE Terminating \/ UNCHANGED vars
  BY <1>6 DEF Terminating, vars, limits
<1> QED
  BY <1>1, <1>2, <1>3, <1>4, <1>5, <1>6 DEF Next

\* Every regular step keeps the watches out of level 0, as long as it matters.
LEMMA StepKeepsRoots ==
    ASSUME InductiveInvariant, Regular, [Next]_vars, ToReduce'
    PROVE  RootsWatched'
<1>1. Core
  BY DEF InductiveInvariant
<1>2. CASE Reduce
  <2>1. problem.reduce /\ ~ reduced
    BY <1>2 DEF Reduce
  <2> QED
    BY <1>1, <1>2, <2>1, ReduceKeepsRoots DEF InductiveInvariant, ToReduce
<1>3. CASE ~ Reduce
  <2>1. ToReduce /\ RootsWatched
    BY <1>3, ReducingOnce DEF InductiveInvariant, ToReduce
  <2>2. CASE Call
    <3>1. conflict = NOREF
      BY <2>1, <2>2 DEF Regular, ToReduce
    <3> QED
      BY <1>1, <2>1, <2>2, <3>1, CallKeepsRoots
  <2>3. CASE NextLiteral
    BY <1>1, <2>1, <2>3, NextLiteralKeepsRoots
  <2>4. CASE VisitWatch
    BY <1>1, <2>1, <2>4, VisitWatchKeepsRoots
  <2>5. CASE ChronoAnalyze
    BY <1>1, <2>1, <2>5, ChronoAnalyzeKeepsRoots
  <2>6. CASE Strengthen
    BY <1>1, <2>1, <2>6, StrengthenKeepsRoots
  <2>7. CASE Learn
    BY <1>1, <2>1, <2>7, LearnKeepsRoots
  <2>8. CASE RootDone \/ AllAssigned \/ Analyze \/ Resolve \/ Terminating \/ UNCHANGED vars
    BY <2>1, <2>8, RestingKeepsRoots DEF Terminating
  <2>9. CASE ReduceLearnts
    \* reduced is set, and the search goes on: nothing is to reduce any more.
    <3>1. pc = "reduce" /\ pc' = "search"
      BY <2>9 DEF ReduceLearnts
    <3>2. reduced /\ reduced' = reduced
      BY <1>3, <3>1, ReducingOnce DEF InductiveInvariant
    <3> QED
      BY <3>1, <3>2 DEF ToReduce
  <2>10. CASE Restart
    BY <1>1, <2>1, <2>10, RestartKeepsRoots
  <2>11. CASE Decide
    BY <1>1, <2>1, <2>11, DecideKeepsRoots
  <2>12. CASE FailAssumption
    BY <1>1, <2>1, <2>12, FailAssumptionKeepsRoots
  <2> QED
    BY <1>3, <2>2, <2>3, <2>4, <2>5, <2>6, <2>7, <2>8, <2>9, <2>10, <2>11, <2>12 DEF Next
<1> QED
  BY <1>2, <1>3

\* Every regular step keeps the inductive invariant.
LEMMA StepInvariant == InductiveInvariant /\ Regular /\ [Next]_vars => InductiveInvariant'
<1> SUFFICES ASSUME InductiveInvariant, Regular, [Next]_vars PROVE InductiveInvariant'
  OBVIOUS
<1>1. Core'
  BY StepKeepsCore
<1>2. ToReduce' => RootsWatched'
  BY StepKeepsRoots
<1>3. pc' = "reduce" => reduced'
  <2>1. CASE Reduce
    BY <2>1 DEF Reduce
  <2>2. CASE ~ Reduce
    BY <2>2, ReducingOnce DEF InductiveInvariant
  <2> QED
    BY <2>1, <2>2
<1> QED
  BY <1>1, <1>2, <1>3 DEF InductiveInvariant

\* The invariant holds in every regular behaviour.
THEOREM InvariantHolds == Spec /\ [][Regular]_vars => []InductiveInvariant
<1>1. InductiveInvariant /\ [Next]_vars /\ [Regular]_vars => InductiveInvariant'
  <2>1. InductiveInvariant /\ UNCHANGED vars => InductiveInvariant'
    <3>1. UNCHANGED vars => UNCHANGED <<problem, reduced, pc>>
      BY DEF vars, limits
    <3>2. Core /\ UNCHANGED vars => Core'
      BY StutterKeeps
    <3>3. RootsWatched /\ UNCHANGED vars => RootsWatched'
      BY RestingKeepsRoots
    <3> QED
      BY <3>1, <3>2, <3>3 DEF InductiveInvariant, ToReduce
  <2> QED
    BY <2>1, StepInvariant
<1> QED
  BY <1>1, InitInvariant, PTL DEF Spec

-----------------------------------------------------------------------------
(***************************************************************************)
(* The theorems.                                                           *)
(***************************************************************************)
\* Two different elements make a set of two.
LEMMA PairSize == ASSUME NEW a, NEW b, a # b PROVE Cardinality({a, b}) = 2
<1>1. IsFiniteSet({a}) /\ Cardinality({a}) = 1 /\ b \notin {a}
  BY FS_Singleton
<1>2. Cardinality({a} \cup {b}) = 1 + 1
  BY <1>1, FS_AddElement
<1>3. {a, b} = {a} \cup {b}
  OBVIOUS
<1> QED
  BY <1>2, <1>3

\* A sequence whose elements are of another type too.
LEMMA Retyped ==
    ASSUME NEW S, NEW T, NEW s \in Seq(S), \A i \in 1 .. Len(s) : s[i] \in T
    PROVE  s \in Seq(T)
<1>1. s = [i \in 1 .. Len(s) |-> s[i]] /\ Len(s) \in Nat
  OBVIOUS
<1> QED
  BY <1>1

\* Every variable keeps its type, and every level and reference is in range.
LEMMA CoreTypes == Core => TypeOK
<1> SUFFICES ASSUME Core PROVE TypeOK
  OBVIOUS
<1>1. /\ TrailOK /\ PositionsOK /\ DL \in Nat /\ Len(trail) \in Nat /\ trail \in Seq(EntryType)
      /\ dlevels \in Seq(Nat) /\ propagated \in 0 .. Len(trail)
  BY Levels, PositionsHold DEF Core, TrailOK
<1>2. clauses \in Seq(ClauseType)
  BY DEF Core, ClausesOK
<1>3. watches \subseteq [lit : Lits, ref : DOMAIN clauses, imp : Lits, binary : BOOLEAN]
  BY DEF Core, WatchesOK, WatchType
<1>4. trail \in Seq([lit : Lits, level : 0 .. DL, source : {NOREF} \cup DOMAIN clauses])
  <2>1. ASSUME NEW i \in 1 .. Len(trail)
        PROVE  trail[i] \in [lit : Lits, level : 0 .. DL, source : {NOREF} \cup DOMAIN clauses]
    <3>1. PICK e : e = trail[i]
      OBVIOUS
    <3>2. e \in EntryType /\ e.level \in 0 .. DL
      BY <1>1, <2>1, <3>1, Levels DEF EntryType
    <3>3. e.lit \in Lits /\ e.lit \in Assigned /\ SourceOf(e.lit) = e.source
      BY <1>1, <2>1, <3>1 DEF PositionsOK
    <3>4. e.source \in {NOREF} \cup DOMAIN clauses
      BY <3>3 DEF Core, RestOK
    <3> QED
      BY <3>1, <3>2, <3>4 DEF EntryType
  <2>2. PICK T : T = [lit : Lits, level : 0 .. DL, source : {NOREF} \cup DOMAIN clauses]
    OBVIOUS
  <2>3. trail \in Seq(T)
    BY <1>1, <2>1, <2>2, Retyped
  <2> QED
    BY <2>2, <2>3
<1>5. \A j \in 1 .. DL : dlevels[j] \in 0 .. propagated
  BY <1>1, Levels
<1>6. visiting \subseteq watches
  BY DEF Core, VisitingOK
<1>7. uip.seen \subseteq Lits /\ uip.resolved \subseteq uip.seen
  BY DEF Core, AnalysisOK
<1> QED
  BY <1>1, <1>2, <1>3, <1>4, <1>5, <1>6, <1>7 DEF Core, RestOK, TypeOK

\* Every variable keeps its type: levels, references and watches are in range.
THEOREM TypeCorrect == Spec /\ [][Regular]_vars => []TypeOK
<1>1. InductiveInvariant => TypeOK
  BY CoreTypes DEF InductiveInvariant
<1> QED
  BY <1>1, InvariantHolds, PTL

\* The invariant makes the watches consistent,
LEMMA CoreWatches == Core => WatchesConsistent
<1> SUFFICES ASSUME Core, NEW r \in Live
             PROVE  /\ Cardinality(clauses[r].watched) = 2
                    /\ clauses[r].watched \subseteq clauses[r].lits
                    /\ {w.lit : w \in WatchesOf(r)} = clauses[r].watched
                    /\ Cardinality(WatchesOf(r)) = 2
                    /\ \A w \in WatchesOf(r) :
                           /\ w.imp \in clauses[r].lits \ {w.lit}
                           /\ w.binary <=> Cardinality(clauses[r].lits) = 2
  BY DEF WatchesConsistent
<1>1. /\ clauses[r] \in ClauseType /\ clauses[r].watched \subseteq clauses[r].lits
      /\ IsPair(clauses[r].watched)
  BY DEF Core, ClausesOK, Live
<1>2. Cardinality(clauses[r].watched) = 2
  BY <1>1, Pairs DEF ClauseType
<1>3. \A w \in WatchesOf(r) : w \in watches /\ w.ref = r /\ w.lit \in clauses[r].watched
  BY DEF Core, WatchesOK, WatchesOf
<1>4. PICK a, b : a # b /\ clauses[r].watched = {a, b}
  BY <1>1 DEF IsPair
<1>5. PICK wa \in watches : wa.ref = r /\ wa.lit = a
  BY <1>4 DEF Core, WatchesOK
<1>6. PICK wb \in watches : wb.ref = r /\ wb.lit = b
  BY <1>4 DEF Core, WatchesOK
<1>7. WatchesOf(r) = {wa, wb} /\ wa # wb
  <2>1. \A w \in WatchesOf(r) : w = wa \/ w = wb
    BY <1>3, <1>4, <1>5, <1>6 DEF Core, WatchesOK
  <2> QED
    BY <1>4, <1>5, <1>6, <2>1 DEF WatchesOf
<1>8. {w.lit : w \in WatchesOf(r)} = clauses[r].watched
  BY <1>4, <1>5, <1>6, <1>7
<1>9. Cardinality(WatchesOf(r)) = 2
  BY <1>7, PairSize
<1>10. \A w \in WatchesOf(r) : /\ w.imp \in clauses[r].lits \ {w.lit}
                               /\ w.binary <=> Cardinality(clauses[r].lits) = 2
  BY <1>3 DEF Core, WatchesOK
<1> QED
  BY <1>1, <1>2, <1>8, <1>9, <1>10

\* Every watched literal has one watch, which knows the clause.
THEOREM WatchesAreConsistent == Spec /\ [][Regular]_vars => []WatchesConsistent
<1>1. InductiveInvariant => WatchesConsistent
  BY CoreWatches DEF InductiveInvariant
<1> QED
  BY <1>1, InvariantHolds, PTL

\* makes reasons imply their literals,
LEMMA CoreReasons == Core => ReasonsImply
<1> SUFFICES ASSUME Core, Propagating, NEW i \in DOMAIN trail,
                    trail[i].source # NOREF, trail[i].level > 0
             PROVE  /\ trail[i].source \in Live
                    /\ trail[i].lit \in clauses[trail[i].source].watched
                    /\ \A l \in clauses[trail[i].source].lits \ {trail[i].lit} :
                           IsFalse(l) /\ PositionOf(l) < i /\ LevelOf(l) <= trail[i].level
  BY DEF ReasonsImply
<1>1. TrailOK /\ PositionsOK /\ i \in 1 .. Len(trail)
  BY PositionsHold DEF Core, TrailOK
<1>2. PICK e : e = trail[i]
  OBVIOUS
<1>3. /\ e.lit \in Assigned /\ e.lit \in Lits /\ PositionOf(e.lit) = i
      /\ LevelOf(e.lit) = e.level /\ SourceOf(e.lit) = e.source
  BY <1>1, <1>2 DEF PositionsOK
<1>4. HasReason(e.lit) /\ ~ Spent(e.lit)
  BY <1>2, <1>3 DEF HasReason, Spent, Analyzing, Propagating
<1>5. ReasonFor(e.lit, e.source)
  BY <1>3, <1>4 DEF Core, ReasonsOK
<1> QED
  BY <1>2, <1>3, <1>5 DEF ReasonFor

\* A literal with a reason is implied by it, as long as no conflict is analyzed.
THEOREM ReasonsHold == Spec /\ [][Regular]_vars => []ReasonsImply
<1>1. InductiveInvariant => ReasonsImply
  BY CoreReasons DEF InductiveInvariant
<1> QED
  BY <1>1, InvariantHolds, PTL

\* and makes the database equivalent to the formula.
LEMMA CoreEquivalent == Core => DatabaseEquivalent
<1> SUFFICES ASSUME Core
             PROVE  Models = {m \in Assignments :
                                  /\ \A r \in Live : clauses[r].lits \cap m # {}
                                  /\ \A i \in DOMAIN trail : trail[i].level = 0 => trail[i].lit \in m}
  BY DEF DatabaseEquivalent
<1>1. TrailOK /\ PositionsOK /\ DOMAIN trail = 1 .. Len(trail)
  BY PositionsHold DEF Core, TrailOK
<1>2. \A m : Roots \subseteq m <=> \A i \in DOMAIN trail : trail[i].level = 0 => trail[i].lit \in m
  <2>1. \A i \in DOMAIN trail : /\ trail[i].lit \in Assigned
                                /\ LevelOf(trail[i].lit) = trail[i].level
    BY <1>1 DEF PositionsOK
  <2>2. \A l \in Assigned : \E i \in DOMAIN trail : trail[i].lit = l
    BY DEF Assigned
  <2> QED
    BY <2>1, <2>2 DEF Roots
<1>3. ASSUME NEW m \in Models
      PROVE  /\ m \in Assignments /\ Roots \subseteq m
             /\ \A r \in Live : clauses[r].lits \cap m # {}
  BY <1>3, ModelFacts DEF Core, Sound, Satisfies, Live
<1>4. ASSUME NEW m \in Assignments, Roots \subseteq m, \A r \in Live : clauses[r].lits \cap m # {}
      PROVE  m \in Models
  BY <1>4 DEF Core, Complete, Satisfies
<1> QED
  BY <1>2, <1>3, <1>4

\* What is learnt follows from the formula, and what is removed is not needed.
THEOREM DatabaseStaysEquivalent == Spec /\ [][Regular]_vars => []DatabaseEquivalent
<1>1. InductiveInvariant => DatabaseEquivalent
  BY CoreEquivalent DEF InductiveInvariant
<1> QED
  BY <1>1, InvariantHolds, PTL

\* While reduction is off, every step is regular.
THEOREM SearchIsRegular == Spec /\ [](~ problem.reduce) => [][Regular]_vars
<1> DEFINE Off  == ~ problem.reduce
           Away == pc # "reduce"
<1>1. Init => Away
  BY DEF Init
<1>2. Away /\ Off /\ [Next]_vars => Away'
  <2> SUFFICES ASSUME Away, Off, [Next]_vars PROVE Away'
    OBVIOUS
  <2>1. ~ Reduce
    BY DEF Reduce
  <2> QED
    BY <2>1, ReducingOnce
<1>3. Away /\ Off /\ [Next]_vars => [Regular]_vars
  BY DEF Regular, ReduceLearnts
<1> HIDE DEF Away
<1>4. Spec /\ []Off => [][Regular]_vars
  <2> HIDE DEF Off
  <2> QED
    BY <1>1, <1>2, <1>3, PTL DEF Spec
<1> QED
  BY <1>4
=============================================================================
