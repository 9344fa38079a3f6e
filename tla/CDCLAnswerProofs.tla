-------------------------- MODULE CDCLAnswerProofs --------------------------
(***************************************************************************)
(* That the answers of module CDCL are right, from the invariant of module *)
(* CDCLProofs and three more: Answered, which says what an answer of unsat *)
(* and a core rest on, Examined, which says that propagation leaves no     *)
(* clause false, and Each, which says that it leaves none unit.            *)
(***************************************************************************)
EXTENDS CDCLProofs

-----------------------------------------------------------------------------
(***************************************************************************)
(* Answers of unsat.                                                       *)
(***************************************************************************)
\* Where ianalyze stops, and one step of it down the trail.
Bottom == IF dlevels = <<>> THEN Len(trail) ELSE dlevels[1]

SeenStep(v, i) ==
    IF trail[i + 1].source # NOREF /\ v \cap {trail[i + 1].lit, -trail[i + 1].lit} # {}
    THEN v \cup NonRoot(clauses[trail[i + 1].source].lits \ {trail[i + 1].lit})
    ELSE v

IsSeen(f, l, low) ==
    f = [i \in low .. Len(trail) |-> IF i = Len(trail) THEN {l} ELSE SeenStep(f[i + 1], i)]

\* What lies below is of level 0.
LEMMA BottomFacts ==
    ASSUME TrailOK
    PROVE  /\ Bottom \in Nat /\ Bottom <= Len(trail)
           /\ \A i \in 1 .. Len(trail) : i <= Bottom => trail[i].level = 0
<1>1. /\ DL \in Nat /\ Len(trail) \in Nat /\ propagated \in Nat /\ propagated <= Len(trail)
      /\ \A i \in 1 .. Len(trail) : trail[i].level \in Nat /\ trail[i].level <= DL
      /\ \A j \in 1 .. DL : dlevels[j] \in Nat /\ dlevels[j] <= propagated
  BY Levels
<1>2. CASE dlevels = <<>>
  <2>1. DL = 0
    BY <1>2 DEF DL
  <2> QED
    BY <1>1, <1>2, <2>1 DEF Bottom
<1>3. CASE dlevels # <<>>
  <2>1. 1 \in 1 .. DL
    <3>1. dlevels \in Seq(Nat)
      BY DEF TrailOK
    <3> QED
      BY <1>3, <3>1 DEF DL
  <2>2. \A i \in 1 .. dlevels[1] : trail[i].level < 1
    BY <2>1 DEF TrailOK
  <2> QED
    BY <1>1, <1>3, <2>1, <2>2 DEF Bottom
<1> QED
  BY <1>2, <1>3

\* The recursive function inside Failed, named so that it can be reasoned about.
LEMMA SeenSteps ==
    ASSUME TrailOK, NEW l
    PROVE  \E f : /\ IsSeen(f, l, Bottom)
                  /\ Failed(l) = {l} \cup {-trail[i].lit : i \in
                         {k \in Bottom + 1 .. Len(trail) :
                             /\ trail[k].source = NOREF
                             /\ f[k] \cap {trail[k].lit, -trail[k].lit} # {}}}
<1>1. Bottom \in Nat /\ Len(trail) \in Nat /\ Bottom <= Len(trail)
  BY BottomFacts, Levels
<1> DEFINE n == Len(trail)
           Is(f, low) == f = [i \in low .. n |-> IF i = n THEN {l} ELSE SeenStep(f[i + 1], i)]
           S == {d \in Nat : d <= n => \E f : Is(f, n - d)}
<1> HIDE DEF S
<1>2. ASSUME NEW d \in Nat, \A c \in 0 .. d - 1 : c \in S
      PROVE  d \in S
  <2>1. CASE d = 0
    <3> DEFINE g == [i \in n .. n |-> {l}]
    <3>1. Is(g, n)
      BY <1>1
    <3>2. n - d = n
      BY <1>1, <2>1
    <3> QED
      BY <3>1, <3>2 DEF S
  <2>2. CASE d > 0 /\ d <= n
    <3>1. d - 1 \in S /\ d - 1 <= n
      BY <1>1, <1>2, <2>2
    <3>2. PICK f : Is(f, n - (d - 1))
      BY <3>1 DEF S
    <3>3. PICK low : low = n - d
      OBVIOUS
    <3>4. low \in Nat /\ low < n /\ n - (d - 1) = low + 1
      BY <1>1, <2>2, <3>3
    <3> DEFINE g == [i \in low .. n |-> IF i = n THEN {l} ELSE SeenStep(f[i + 1], i)]
    <3>5. \A i \in low + 1 .. n : g[i] = f[i]
      <4>1. Is(f, low + 1)
        BY <3>2, <3>4
      <4>2. \A i \in low + 1 .. n : f[i] = IF i = n THEN {l} ELSE SeenStep(f[i + 1], i)
        BY <4>1
      <4>3. \A i \in low + 1 .. n : i \in low .. n
        BY <1>1, <3>4
      <4> QED
        BY <4>2, <4>3
    <3>6. \A i \in low .. n : i # n => SeenStep(f[i + 1], i) = SeenStep(g[i + 1], i)
      <4>1. \A i \in low .. n : i # n => i + 1 \in low + 1 .. n
        BY <1>1, <3>4
      <4> QED
        BY <3>5, <4>1
    <3>7. Is(g, low)
      BY <3>6
    <3> QED
      BY <3>3, <3>7 DEF S
  <2>3. CASE ~ (d <= n)
    BY <2>3 DEF S
  <2> QED
    BY <1>1, <2>1, <2>2, <2>3
<1>3. n - Bottom \in S
  <2>1. Nat \subseteq S
    BY <1>2, NaturalInduction
  <2> QED
    BY <1>1, <2>1
<1>4. PICK f0 : Is(f0, Bottom)
  BY <1>1, <1>3 DEF S
<1>5. IsSeen(f0, l, Bottom)
  BY <1>4 DEF IsSeen
<1> DEFINE f == CHOOSE g : IsSeen(g, l, Bottom)
<1>6. IsSeen(f, l, Bottom)
  BY <1>5
<1>7. Failed(l) = {l} \cup {-trail[i].lit : i \in
                         {k \in Bottom + 1 .. Len(trail) :
                             /\ trail[k].source = NOREF
                             /\ f[k] \cap {trail[k].lit, -trail[k].lit} # {}}}
  BY DEF Failed, IsSeen, SeenStep, Bottom
<1> QED
  BY <1>6, <1>7

\* The reason of a literal of the trail: the others are earlier, and imply it.
LEMMA ReasonAt ==
    ASSUME Core, ~ Analyzing, NEW i \in 1 .. Len(trail), trail[i].source # NOREF, trail[i].level > 0
    PROVE  LET others == clauses[trail[i].source].lits \ {trail[i].lit} IN
           /\ \A x \in others :
                  /\ x \in Lits /\ ~ Unassigned(x) /\ PositionOf(x) \in 1 .. i - 1
                  /\ trail[PositionOf(x)].lit = -x /\ trail[PositionOf(x)].level = LevelOf(x)
           /\ \A m \in Models : (\A x \in others : -x \in m) => trail[i].lit \in m
<1>1. TrailOK /\ PositionsOK /\ Len(trail) \in Nat
  BY PositionsHold, Levels DEF Core
<1>2. PICK e : e = trail[i]
  OBVIOUS
<1>3. /\ e \in EntryType /\ e.lit \in Assigned /\ e.lit \in Lits /\ PositionOf(e.lit) = i
      /\ LevelOf(e.lit) = e.level /\ SourceOf(e.lit) = e.source
  BY <1>1, <1>2 DEF PositionsOK
<1>4. HasReason(e.lit) /\ ~ Spent(e.lit)
  BY <1>2, <1>3 DEF HasReason, Spent
<1>5. ReasonFor(e.lit, e.source)
  BY <1>3, <1>4 DEF Core, ReasonsOK
<1>6. e.source \in DOMAIN clauses /\ clauses[e.source].lits \subseteq Lits
  <2>1. e.source \in DOMAIN clauses
    BY <1>5 DEF ReasonFor, Live
  <2>2. clauses[e.source] \in ClauseType
    BY <2>1 DEF Core, ClausesOK
  <2> QED
    BY <2>1, <2>2 DEF ClauseType
<1>7. ASSUME NEW x \in clauses[e.source].lits \ {e.lit}
      PROVE  /\ x \in Lits /\ ~ Unassigned(x) /\ PositionOf(x) \in 1 .. i - 1
             /\ trail[PositionOf(x)].lit = -x /\ trail[PositionOf(x)].level = LevelOf(x)
  <2>1. x \in Lits /\ IsFalse(x) /\ PositionOf(x) < i
    BY <1>3, <1>5, <1>6, <1>7 DEF ReasonFor
  <2>2. -x \in Assigned /\ ~ Unassigned(x)
    BY <2>1 DEF IsFalse, Unassigned
  <2>3. PositionOf(x) \in 1 .. Len(trail) /\ trail[PositionOf(x)].lit = -x
    BY <1>1, <2>1, <2>2 DEF PositionsOK
  <2>4. PositionOf(x) \in 1 .. i - 1
    BY <2>1, <2>3
  <2> QED
    BY <2>1, <2>2, <2>3, <2>4 DEF LevelOf
<1>8. ASSUME NEW m \in Models, \A x \in clauses[e.source].lits \ {e.lit} : -x \in m
      PROVE  e.lit \in m
  <2>1. PICK y \in clauses[e.source].lits : y \in m
    BY <1>6 DEF Core, Sound, Satisfies
  <2>2. y # e.lit => -y \in m
    BY <1>8, <2>1
  <2>3. y \in Lits
    BY <1>6, <2>1
  <2> QED
    BY <2>1, <2>2, <2>3, ModelFacts
<1> QED
  BY <1>2, <1>7, <1>8

\* A model that agrees with the decisions agrees with all that is assigned.
LEMMA DecisionsImply ==
    ASSUME Core, ~ Analyzing, NEW m \in Models,
           \A i \in 1 .. Len(trail) :
               trail[i].source = NOREF /\ trail[i].level > 0 => trail[i].lit \in m
    PROVE  Assigned \subseteq m
<1>1. TrailOK /\ PositionsOK /\ Len(trail) \in Nat /\ Roots \subseteq m
  BY PositionsHold, Levels DEF Core, Sound
<1> DEFINE S == {i \in Nat : i \in 1 .. Len(trail) => trail[i].lit \in m}
<1>2. \A i \in Nat : i \in S <=> (i \in 1 .. Len(trail) => trail[i].lit \in m)
  OBVIOUS
<1> HIDE DEF S
<1>3. ASSUME NEW i \in Nat, \A h \in 0 .. i - 1 : h \in S
      PROVE  i \in S
  <2> SUFFICES ASSUME i \in 1 .. Len(trail) PROVE trail[i].lit \in m
    BY <1>2
  <2>1. /\ trail[i].level \in Nat /\ trail[i].lit \in Assigned
        /\ LevelOf(trail[i].lit) = trail[i].level
    BY <1>1, Levels DEF PositionsOK
  <2>2. CASE trail[i].level = 0
    BY <1>1, <2>1, <2>2 DEF Roots
  <2>3. CASE trail[i].level > 0 /\ trail[i].source # NOREF
    <3>1. PICK others : others = clauses[trail[i].source].lits \ {trail[i].lit}
      OBVIOUS
    <3>2. /\ \A x \in others : PositionOf(x) \in 1 .. i - 1 /\ trail[PositionOf(x)].lit = -x
          /\ (\A x \in others : -x \in m) => trail[i].lit \in m
      BY <2>3, <3>1, ReasonAt
    <3>3. ASSUME NEW x \in others PROVE -x \in m
      <4>1. PICK h \in 1 .. i - 1 : h = PositionOf(x) /\ trail[h].lit = -x
        BY <3>2
      <4>2. h \in 0 .. i - 1 /\ h \in 1 .. Len(trail) /\ h \in Nat
        BY <1>1
      <4> QED
        BY <1>2, <1>3, <4>1, <4>2
    <3> QED
      BY <3>2, <3>3
  <2> QED
    BY <2>1, <2>2, <2>3
<1>4. Nat \subseteq S
  BY <1>3, NaturalInduction
<1>5. \A i \in 1 .. Len(trail) : trail[i].lit \in m
  BY <1>2, <1>4
<1>6. DOMAIN trail = 1 .. Len(trail)
  BY <1>1 DEF TrailOK
<1> QED
  BY <1>5, <1>6 DEF Assigned

\* The core of a failed assumption, whose negation is true, follows from the formula.
LEMMA FailedFollows ==
    ASSUME Core, ~ Analyzing, NEW l \in Assigned, NEW m \in Models
    PROVE  Satisfies(m, Failed(l))
<1>1. /\ TrailOK /\ PositionsOK /\ Len(trail) \in Nat /\ Roots \subseteq m
      /\ Bottom \in Nat /\ Bottom <= Len(trail)
      /\ \A i \in 1 .. Len(trail) : i <= Bottom => trail[i].level = 0
  BY PositionsHold, Levels, BottomFacts DEF Core, Sound
<1>2. PICK f : /\ IsSeen(f, l, Bottom)
               /\ Failed(l) = {l} \cup {-trail[i].lit : i \in
                      {k \in Bottom + 1 .. Len(trail) :
                          /\ trail[k].source = NOREF
                          /\ f[k] \cap {trail[k].lit, -trail[k].lit} # {}}}
  BY <1>1, SeenSteps
<1>3. SUFFICES ASSUME ~ Satisfies(m, Failed(l)) PROVE FALSE
  OBVIOUS
<1>4. l \notin m
  BY <1>2, <1>3 DEF Satisfies
<1>5. ASSUME NEW k \in Bottom + 1 .. Len(trail), trail[k].source = NOREF,
             f[k] \cap {trail[k].lit, -trail[k].lit} # {}
      PROVE  trail[k].lit \in m
  <2>1. -trail[k].lit \in Failed(l)
    BY <1>2, <1>5
  <2>2. -trail[k].lit \notin m
    BY <1>3, <2>1 DEF Satisfies
  <2>3. trail[k].lit \in Lits
    BY <1>1, <1>5 DEF PositionsOK
  <2> QED
    BY <2>2, <2>3, ModelFacts
<1>6. /\ f[Len(trail)] = {l}
      /\ \A i \in Bottom .. Len(trail) - 1 : f[i] = SeenStep(f[i + 1], i)
  <2>1. \A i \in Bottom .. Len(trail) :
            f[i] = IF i = Len(trail) THEN {l} ELSE SeenStep(f[i + 1], i)
    BY <1>2 DEF IsSeen
  <2>2. Len(trail) \in Bottom .. Len(trail)
    BY <1>1
  <2>3. \A i \in Bottom .. Len(trail) - 1 : i \in Bottom .. Len(trail) /\ i # Len(trail)
    BY <1>1
  <2> QED
    BY <2>1, <2>2, <2>3
\* What is seen stays seen.
<1>7. \A i \in Bottom .. Len(trail) : \A h \in Bottom .. i : f[i] \subseteq f[h]
  <2> DEFINE S == {d \in Nat : \A i \in Bottom .. Len(trail) :
                       i - d >= Bottom => f[i] \subseteq f[i - d]}
  <2> HIDE DEF S
  <2>1. ASSUME NEW d \in Nat, \A c \in 0 .. d - 1 : c \in S
        PROVE  d \in S
    <3>1. CASE d = 0
      BY <1>1, <3>1 DEF S
    <3>2. CASE d > 0
      <4>1. d - 1 \in S
        BY <2>1, <3>2
      <4>2. ASSUME NEW i \in Bottom .. Len(trail), i - d >= Bottom
            PROVE  f[i] \subseteq f[i - d]
        <5>1. PICK h \in Bottom .. Len(trail) - 1 : h = i - d /\ h + 1 = i - (d - 1)
          BY <1>1, <3>2, <4>2
        <5>2. f[i] \subseteq f[h + 1]
          <6>1. i - (d - 1) >= Bottom
            BY <1>1, <5>1
          <6> QED
            BY <4>1, <5>1, <6>1 DEF S
        <5>3. f[h + 1] \subseteq f[h]
          <6>1. f[h] = SeenStep(f[h + 1], h)
            BY <1>6
          <6> QED
            BY <6>1 DEF SeenStep
        <5> QED
          BY <5>1, <5>2, <5>3
      <4> QED
        BY <4>2 DEF S
    <3> QED
      BY <2>1, <3>1, <3>2
  <2>2. Nat \subseteq S
    BY <2>1, NaturalInduction
  <2>3. ASSUME NEW i \in Bottom .. Len(trail), NEW h \in Bottom .. i
        PROVE  f[i] \subseteq f[h]
    <3>1. i - h \in Nat /\ i - (i - h) = h /\ h >= Bottom
      BY <1>1
    <3>2. i - h \in S
      BY <2>2, <3>1
    <3> QED
      BY <3>1, <3>2 DEF S
  <2> QED
    BY <2>3
<1> DEFINE Wanted(i) == i \in 1 .. Len(trail) /\
                        (i <= Bottom \/ f[i] \cap {trail[i].lit, -trail[i].lit} # {})
           S == {i \in Nat : Wanted(i) => trail[i].lit \in m}
<1>8. \A i \in Nat : i \in S <=> (Wanted(i) => trail[i].lit \in m)
  OBVIOUS
<1> HIDE DEF S
<1>9. ASSUME NEW i \in Nat, \A h \in 0 .. i - 1 : h \in S
      PROVE  i \in S
  <2> SUFFICES ASSUME Wanted(i) PROVE trail[i].lit \in m
    BY <1>8
  <2>1. /\ trail[i].level \in Nat /\ trail[i].lit \in Assigned /\ i \in 1 .. Len(trail)
        /\ LevelOf(trail[i].lit) = trail[i].level
    BY <1>1, Levels DEF PositionsOK
  <2>2. CASE trail[i].level = 0
    BY <1>1, <2>1, <2>2 DEF Roots
  <2>3. CASE trail[i].level > 0 /\ trail[i].source = NOREF
    <3>1. i \in Bottom + 1 .. Len(trail)
      BY <1>1, <2>1, <2>3
    <3> QED
      BY <1>1, <1>5, <2>3, <3>1
  <2>4. CASE trail[i].level > 0 /\ trail[i].source # NOREF
    <3>1. PICK others : others = clauses[trail[i].source].lits \ {trail[i].lit}
      OBVIOUS
    <3>2. /\ \A x \in others :
                /\ x \in Lits /\ ~ Unassigned(x) /\ PositionOf(x) \in 1 .. i - 1
                /\ trail[PositionOf(x)].lit = -x /\ trail[PositionOf(x)].level = LevelOf(x)
          /\ (\A x \in others : -x \in m) => trail[i].lit \in m
      BY <2>1, <2>4, <3>1, ReasonAt
    <3>3. i \in Bottom + 1 .. Len(trail) /\ i - 1 \in Bottom .. Len(trail) - 1
      BY <1>1, <2>1, <2>4
    <3>4. f[i - 1] = f[i] \cup NonRoot(others)
      <4>1. f[i - 1] = SeenStep(f[(i - 1) + 1], i - 1) /\ (i - 1) + 1 = i
        BY <1>6, <2>1, <3>3
      <4>2. f[i] \cap {trail[i].lit, -trail[i].lit} # {}
        BY <1>1, <3>3
      <4> QED
        BY <2>4, <3>1, <4>1, <4>2 DEF SeenStep
    <3>5. ASSUME NEW x \in others PROVE -x \in m
      <4>1. PICK h \in 1 .. i - 1 : h = PositionOf(x) /\ trail[h].lit = -x /\ trail[h].level = LevelOf(x)
        BY <3>2
      <4>2. h \in 0 .. i - 1 /\ h \in 1 .. Len(trail) /\ h \in Nat
        BY <1>1, <2>1
      <4>3. CASE h <= Bottom
        <5>1. Wanted(h)
          BY <4>2, <4>3
        <5> QED
          BY <1>8, <1>9, <4>1, <4>2, <5>1
      <4>4. CASE trail[h].level = 0
        <5>1. trail[h].lit \in Roots
          BY <1>1, <4>2, <4>4 DEF Roots, PositionsOK
        <5> QED
          BY <1>1, <4>1, <5>1
      <4>5. CASE ~ (h <= Bottom) /\ trail[h].level # 0
        <5>1. LevelOf(x) > 0
          BY <1>1, <4>1, <4>2, <4>5, Levels
        <5>2. x \in f[i - 1]
          BY <3>4, <3>5, <5>1 DEF NonRoot
        <5>3. i - 1 \in Bottom .. Len(trail) /\ h \in Bottom .. i - 1
          BY <1>1, <3>3, <4>2, <4>5
        <5>4. x \in f[h]
          BY <1>7, <5>2, <5>3
        <5>5. x = -trail[h].lit
          BY <3>2, <3>5, <4>1, Negation
        <5>6. Wanted(h)
          BY <4>2, <5>4, <5>5
        <5> QED
          BY <1>8, <1>9, <4>1, <4>2, <5>6
      <4> QED
        BY <4>3, <4>4, <4>5
    <3> QED
      BY <3>2, <3>5
  <2> QED
    BY <2>1, <2>2, <2>3, <2>4
<1>10. PICK i \in 1 .. Len(trail) : trail[i].lit = l
  <2>1. DOMAIN trail = 1 .. Len(trail)
    BY <1>1 DEF TrailOK
  <2> QED
    BY <2>1 DEF Assigned
<1>11. i \in S
  <2>1. Nat \subseteq S
    BY <1>9, NaturalInduction
  <2> QED
    BY <1>1, <2>1
<1>12. Wanted(i)
  <2>1. CASE i > Bottom
    <3>1. Len(trail) \in Bottom .. Len(trail) /\ i \in Bottom .. Len(trail)
      BY <1>1, <2>1
    <3>2. l \in f[i]
      BY <1>6, <1>7, <3>1
    <3> QED
      BY <1>10, <3>2
  <2> QED
    BY <1>1, <1>10, <2>1
<1> QED
  BY <1>4, <1>8, <1>10, <1>11, <1>12, <1>1

\* A level that belongs to an assumption is decided by it, or has no decision.
Assumed ==
    \A i \in DOMAIN trail :
        /\ trail[i].source = NOREF /\ trail[i].level > 0
        /\ trail[i].level <= Len(assumptions)
        => trail[i].lit = assumptions[trail[i].level]

\* No model of the formula satisfies the assumptions of a call that is answered so.
UnsatFollows ==
    cnfstate = "unsat" => \A m \in Models : \E i \in DOMAIN assumptions : assumptions[i] \notin m

\* What is returned as the core of a failed assumption follows from the formula.
CoreFollows == iconflict # {} => \A m \in Models : Satisfies(m, iconflict)

Answered ==
    /\ Assumed /\ UnsatFollows /\ CoreFollows
    /\ pc = "root" => DL = 0

\* A step that changes neither the trail nor the assumptions.
LEMMA AssumedStays ==
    ASSUME Assumed, UNCHANGED <<trail, assumptions>>
    PROVE  Assumed'
BY DEF Assumed

\* Backtracking adds no decision.
LEMMA AssumedBack ==
    ASSUME TrailOK, Assumed, assumptions' = assumptions, NEW j \in 0 .. DL, NEW enq,
           Backtrack(j, enq),
           enq = <<>> \/ \E e \in EntryType : enq = <<e>> /\ (e.source = NOREF => e.level = 0)
    PROVE  Assumed'
<1>1. /\ trail \in Seq(EntryType) /\ Len(trail) \in Nat /\ j \in Nat
      /\ Cut(j) \in 0 .. Len(trail)
  BY Levels DEF TrailOK
<1>2. PICK K, g : K = Kept(j) /\ FromTrail(K, g, Len(trail), j)
  BY <1>1, KeptPositions
<1>3. /\ K \in Seq(EntryType) /\ trail' = K \o enq
      /\ \A h \in 1 .. Len(K) : g[h] \in 1 .. Len(trail) /\ K[h] = trail[g[h]]
  BY <1>2 DEF FromTrail, Backtrack
<1>4. ASSUME NEW i \in DOMAIN trail'
      PROVE  \/ \E k \in DOMAIN trail : trail'[i] = trail[k]
             \/ trail'[i].source = NOREF => trail'[i].level = 0
  <2>1. CASE i \in 1 .. Len(K)
    <3>1. trail'[i] = K[i]
      BY <1>3, <2>1
    <3>2. g[i] \in DOMAIN trail
      BY <1>1, <1>3, <2>1
    <3> QED
      BY <1>3, <2>1, <3>1, <3>2
  <2>2. CASE ~ (i \in 1 .. Len(K))
    <3>1. PICK e \in EntryType : enq = <<e>> /\ (e.source = NOREF => e.level = 0)
      <4>1. ASSUME enq = <<>> PROVE FALSE
        BY <1>3, <1>4, <2>2, <4>1
      <4> QED
        BY <4>1
    <3>2. trail'[i] = e
      BY <1>3, <1>4, <2>2, <3>1
    <3> QED
      BY <3>1, <3>2
  <2> QED
    BY <2>1, <2>2
<1>5. ASSUME NEW i \in DOMAIN trail', trail'[i].source = NOREF, trail'[i].level > 0,
             trail'[i].level <= Len(assumptions)
      PROVE  trail'[i].lit = assumptions[trail'[i].level]
  <2>1. PICK k \in DOMAIN trail : trail'[i] = trail[k]
    BY <1>4, <1>5
  <2> QED
    BY <1>5, <2>1 DEF Assumed
<1> QED
  BY <1>5 DEF Assumed

\* Nor does propagation.
LEMMA AssumedAppend ==
    ASSUME TrailOK, Assumed, assumptions' = assumptions, NEW e \in EntryType,
           trail' = Append(trail, e),
           e.source = NOREF /\ e.level > 0 /\ e.level <= Len(assumptions)
               => e.lit = assumptions[e.level]
    PROVE  Assumed'
<1>1. trail \in Seq(EntryType)
  BY DEF TrailOK
<1>2. \A i \in DOMAIN trail' : (i \in DOMAIN trail /\ trail'[i] = trail[i]) \/ trail'[i] = e
  BY <1>1
<1> QED
  BY <1>2 DEF Assumed

\* A clause that is false at level 0 leaves no model.
LEMMA FalseAtRoot ==
    ASSUME Core, NEW r \in DOMAIN clauses,
           \A l \in clauses[r].lits : IsFalse(l) /\ LevelOf(l) = 0
    PROVE  Models = {}
<1>1. PositionsOK
  BY PositionsHold DEF Core
<1>2. clauses[r].lits \subseteq Lits
  <2>1. clauses[r] \in ClauseType
    BY DEF Core, ClausesOK
  <2> QED
    BY <2>1 DEF ClauseType
<1>3. ASSUME NEW m \in Models PROVE FALSE
  <2>1. m \in Assignments /\ Roots \subseteq m /\ Satisfies(m, clauses[r].lits)
    BY <1>3, ModelFacts DEF Core, Sound
  <2>2. PICK l \in clauses[r].lits : l \in m
    BY <2>1 DEF Satisfies
  <2> QED
    BY <1>1, <1>2, <2>1, <2>2, RootFalseInModels
<1> QED
  BY <1>3

\* Without decisions everything is of level 0.
LEMMA AllAtRoot ==
    ASSUME TrailOK, DL = 0, NEW l \in Lits, IsFalse(l)
    PROVE  LevelOf(l) = 0
<1>1. ~ Unassigned(l)
  BY DEF IsFalse, Unassigned
<1> QED
  BY <1>1, Levels

\* A step that answers unsat only if there is no model at all.
LEMMA AnswerStays ==
    ASSUME UnsatFollows, CoreFollows, UNCHANGED <<problem, assumptions, iconflict>>,
           cnfstate' = "unsat" => cnfstate = "unsat" \/ Models = {}
    PROVE  UnsatFollows' /\ CoreFollows'
<1>1. Models' = Models
  BY DEF Models
<1>2. CoreFollows'
  BY <1>1 DEF CoreFollows, Satisfies
<1>3. UnsatFollows'
  BY <1>1 DEF UnsatFollows
<1> QED
  BY <1>2, <1>3

\* The steps that leave the trail and the answer alone.
LEMMA RestingAnswered ==
    ASSUME Answered,
           NextLiteral \/ RootDone \/ Resolve \/ Strengthen \/ ReduceLearnts \/ UNCHANGED vars
    PROVE  Answered'
<1>1. UNCHANGED <<problem, trail, dlevels, cnfstate, assumptions, iconflict>>
  <2>1. CASE NextLiteral
    BY <2>1 DEF NextLiteral, call
  <2>2. CASE RootDone
    BY <2>2 DEF RootDone, call, search
  <2>3. CASE Resolve
    BY <2>3 DEF Resolve, call, search
  <2>4. CASE Strengthen
    BY <2>4 DEF Strengthen, call
  <2>5. CASE ReduceLearnts
    BY <2>5 DEF ReduceLearnts, call
  <2>6. CASE UNCHANGED vars
    BY <2>6 DEF vars, call, search
  <2> QED
    BY <2>1, <2>2, <2>3, <2>4, <2>5, <2>6
<1>2. pc' = "root" => pc = "root"
  BY DEF NextLiteral, RootDone, Resolve, Strengthen, ReduceLearnts, vars
<1>3. DL' = DL
  BY <1>1 DEF DL
<1> QED
  BY <1>1, <1>2, <1>3, AssumedStays, AnswerStays DEF Answered

\* A call starts without decisions and without an answer.
LEMMA CallAnswered == Core /\ Call => Answered'
<1> SUFFICES ASSUME Core, Call PROVE Answered'
  OBVIOUS
<1>1. /\ Backtrack(0, <<>>) /\ 0 \in 0 .. DL /\ Enqueued(<<>>, {}, 0) /\ TrailOK
      /\ iconflict' = {} /\ cnfstate' = "unsolved"
  BY Levels DEF Core, Call, Enqueued
<1>2. TrailOK' /\ DL' = 0
  BY <1>1, BacktrackKeepsTrailOK
<1>3. Assumed'
  <2>1. \A i \in DOMAIN trail' : trail'[i] \in EntryType /\ trail'[i].level <= 0
    BY <1>2 DEF TrailOK
  <2>2. \A i \in DOMAIN trail' : ~ (trail'[i].level > 0)
    BY <2>1 DEF EntryType
  <2> QED
    BY <2>2 DEF Assumed
<1> QED
  BY <1>1, <1>2, <1>3 DEF Answered, UnsatFollows, CoreFollows

\* A conflict ends the call only if its clause is false at level 0.
LEMMA VisitWatchAnswered == InductiveInvariant /\ Answered /\ VisitWatch => Answered'
<1> SUFFICES ASSUME InductiveInvariant, Answered, VisitWatch PROVE Answered'
  OBVIOUS
<1>1. PICK w \in visiting :
          \/ Satisfied(w) \/ ClauseDeleted(w) \/ VisitBinary(w)
          \/ OtherTrue(w) \/ FindLiteral(w) \/ OthersFalse(w)
  BY DEF VisitWatch
<1>2. /\ Propagating /\ visiting # {}
      /\ UNCHANGED <<problem, dlevels, assumptions, iconflict, propagated>>
  BY <1>1 DEF VisitWatch
<1>3. /\ Core /\ TrailOK /\ PositionsOK /\ w.ref \in DOMAIN clauses /\ w.ref # NOREF
      /\ clauses[w.ref].lits \subseteq Lits /\ w.ref \in Nat
      /\ w.lit \in clauses[w.ref].lits /\ w.imp \in clauses[w.ref].lits
      /\ w.lit \in Lits /\ w.imp \in Lits /\ IsFalse(w.lit) /\ LevelOf(w.lit) \in Nat
      /\ w.binary => clauses[w.ref].lits = {w.lit, w.imp}
      /\ ~ clauses[w.ref].deleted =>
             clauses[w.ref].watched = {w.lit, Other(w)} /\ Other(w) \in Lits
  BY VisitFacts, PositionsHold DEF InductiveInvariant, Core, ClauseType, WatchType
<1>4. DL' = DL /\ (pc' = "root" => pc = "root")
  BY <1>1, <1>2 DEF DL, Satisfied, ClauseDeleted, VisitBinary, OtherTrue, FindLiteral, OthersFalse,
                   Quiet, Conflicting, Block, Answer
<1>5. CASE Conflicting(w)
  <2>1. \A l \in clauses[w.ref].lits : IsFalse(l)
    <3>1. CASE VisitBinary(w) /\ IsFalse(w.imp)
      BY <1>3, <3>1 DEF VisitBinary
    <3>2. CASE OthersFalse(w) /\ IsFalse(Other(w))
      BY <1>3, <3>2 DEF OthersFalse, Visited, Unwatched
    <3>3. conflict' # conflict
      BY <1>3, <1>5, VisitFacts DEF Conflicting
    <3>4. ~ Quiet
      BY <3>3 DEF Quiet
    <3> QED
      BY <1>1, <3>1, <3>2, <3>4 DEF Satisfied, ClauseDeleted, VisitBinary, OtherTrue, FindLiteral,
                                    OthersFalse, Block
  <2>2. cnfstate' = "unsat" => cnfstate = "unsat" \/ Models = {}
    <3>1. CASE pc = "search"
      BY <1>5, <3>1 DEF Conflicting
    <3>2. CASE pc = "root"
      <4>1. DL = 0
        BY <3>2 DEF Answered
      <4> QED
        BY <1>3, <2>1, <4>1, AllAtRoot, FalseAtRoot
    <3>3. CASE pc = "reduce"
      <4>1. RootsWatched
        BY <1>3, <3>3 DEF InductiveInvariant, ToReduce, Core, RestOK
      <4>2. ~ PropagationDone
        BY <1>2 DEF PropagationDone
      <4>3. DL = 0
        BY <3>3, <4>1, <4>2 DEF RootsWatched
      <4> QED
        BY <1>3, <2>1, <4>3, AllAtRoot, FalseAtRoot
    <3> QED
      BY <1>2, <3>1, <3>2, <3>3 DEF Propagating
  <2>3. trail' = trail
    BY <1>5 DEF Conflicting
  <2> QED
    BY <1>2, <1>4, <2>2, <2>3, AssumedStays, AnswerStays DEF Answered
<1>6. CASE ~ Conflicting(w)
  <2>1. cnfstate' = cnfstate
    BY <1>1, <1>6 DEF Satisfied, ClauseDeleted, VisitBinary, OtherTrue, FindLiteral, OthersFalse,
                      Block, Quiet
  <2>2. \/ trail' = trail
        \/ \E l \in Lits, level \in Nat : trail' = Append(trail, Entry(l, level, w.ref))
    <3>1. CASE VisitBinary(w)
      BY <1>3, <1>6, <3>1 DEF VisitBinary
    <3>2. CASE OthersFalse(w)
      <4>1. Other(w) \in Lits /\ \A l \in clauses[w.ref].lits \ {Other(w)} : ~ Unassigned(l)
        BY <1>3, <3>2 DEF OthersFalse, Visited, Unwatched, IsFalse, Unassigned
      <4>2. PICK others \in SUBSET Lits : others = clauses[w.ref].lits \ {Other(w)}
        BY <1>3
      <4>3. Highest(others) \in 0 .. DL /\ DL \in Nat
        BY <1>3, <4>1, <4>2, HighestFacts, Levels
      <4> QED
        BY <1>6, <3>2, <4>1, <4>2, <4>3 DEF OthersFalse, Implied
    <3> QED
      BY <1>1, <3>1, <3>2 DEF Satisfied, ClauseDeleted, OtherTrue, FindLiteral, Block
  <2>3. Assumed'
    <3>1. CASE trail' = trail
      BY <1>2, <3>1, AssumedStays DEF Answered
    <3>2. CASE \E l \in Lits, level \in Nat : trail' = Append(trail, Entry(l, level, w.ref))
      <4>1. PICK e \in EntryType : trail' = Append(trail, e) /\ e.source # NOREF
        BY <1>3, <3>2 DEF Entry, EntryType
      <4> QED
        BY <1>2, <1>3, <4>1, AssumedAppend DEF Answered
    <3> QED
      BY <2>2, <3>1, <3>2
  <2> QED
    BY <1>2, <1>4, <2>1, <2>3, AnswerStays DEF Answered
<1> QED
  BY <1>5, <1>6

\* The analysis ends the call only if the conflict is one of level 0.
LEMMA AnalyzeAnswered == Core /\ Answered /\ Analyze => Answered'
<1> SUFFICES ASSUME Core, Answered, Analyze PROVE Answered'
  OBVIOUS
<1>1. /\ UNCHANGED <<problem, trail, dlevels, assumptions, iconflict>> /\ pc' # "root"
      /\ pc = "analyze" /\ Analyzing /\ TrailOK
      /\ cnfstate' = "unsat" => cnfstate = "unsat" \/ DL = 0
  BY DEF Analyze, StartUip, Answer, Analyzing, search, Core
<1>2. DL = 0 => Models = {}
  <2>1. /\ conflict \in DOMAIN clauses /\ clauses[conflict].lits \subseteq Lits
        /\ \A l \in clauses[conflict].lits : IsFalse(l)
    BY <1>1, ConflictFacts
  <2> QED
    BY <1>1, <2>1, AllAtRoot, FalseAtRoot
<1> QED
  BY <1>1, <1>2, AssumedStays, AnswerStays DEF Answered

\* So does chronoAnalyze, and what it asserts has a reason.
LEMMA ChronoAnalyzeAnswered == Core /\ Answered /\ ChronoAnalyze => Answered'
<1> SUFFICES ASSUME Core, Answered, ChronoAnalyze PROVE Answered'
  OBVIOUS
<1>1. /\ pc = "analyze" /\ Analyzing /\ TrailOK /\ DL \in Nat /\ conflict \in DOMAIN clauses
      /\ conflict # NOREF /\ conflict \in Nat /\ clauses[conflict].lits \in SUBSET Lits
      /\ \A l \in clauses[conflict].lits : IsFalse(l) /\ ~ Unassigned(l)
      /\ UNCHANGED <<problem, assumptions, iconflict>>
  <2>1. pc = "analyze" /\ Analyzing /\ UNCHANGED <<problem, assumptions, iconflict>>
    BY DEF ChronoAnalyze, Analyzing
  <2>2. TrailOK /\ clauses \in Seq(ClauseType)
    BY DEF Core, ClausesOK
  <2> QED
    BY <2>1, <2>2, ConflictFacts, Levels
<1>2. pc' # "root"
  BY DEF ChronoAnalyze, StartUip, Answer
<1>3. CASE Highest(clauses[conflict].lits) = 0
  <2>1. \A l \in clauses[conflict].lits : LevelOf(l) \in 0 .. DL /\ LevelOf(l) <= 0
    BY <1>1, <1>3, HighestFacts, Levels
  <2>2. Models = {}
    <3>1. \A l \in clauses[conflict].lits : LevelOf(l) = 0
      BY <1>1, <2>1
    <3> QED
      BY <1>1, <3>1, FalseAtRoot
  <2>3. trail' = trail
    BY <1>3 DEF ChronoAnalyze, search
  <2> QED
    BY <1>1, <1>2, <2>2, <2>3, AssumedStays, AnswerStays DEF Answered
<1>4. CASE Highest(clauses[conflict].lits) # 0
  <2>1. PICK level \in 1 .. DL :
            /\ level = Highest(clauses[conflict].lits) /\ cnfstate' = cnfstate
            /\ \/ \E l \in clauses[conflict].lits :
                      /\ LevelOf(l) = level /\ \A k \in clauses[conflict].lits \ {l} : LevelOf(k) <= level - 1
                      /\ Backtrack(level - 1, <<Implied(l, conflict)>>)
               \/ Backtrack(level, <<>>)
    BY <1>4, ChronoFacts
  <2>2. CASE Backtrack(level, <<>>)
    <3>1. level \in 0 .. DL
      BY <1>1
    <3> QED
      BY <1>1, <1>2, <2>1, <2>2, <3>1, AssumedBack, AnswerStays DEF Answered
  <2>3. CASE \E l \in clauses[conflict].lits : Backtrack(level - 1, <<Implied(l, conflict)>>)
    <3>1. PICK l \in clauses[conflict].lits : Backtrack(level - 1, <<Implied(l, conflict)>>)
      BY <2>3
    <3>2. level - 1 \in 0 .. DL
      BY <1>1
    <3>3. Highest(clauses[conflict].lits \ {l}) \in Nat
      BY <1>1, HighestFacts
    <3>4. PICK e : e = Implied(l, conflict)
      OBVIOUS
    <3>5. e \in EntryType /\ e.source # NOREF
      BY <1>1, <3>3, <3>4 DEF Implied, Entry, EntryType
    <3>6. Assumed'
      BY <1>1, <3>1, <3>2, <3>4, <3>5, AssumedBack DEF Answered
    <3> QED
      BY <1>1, <1>2, <2>1, <3>6, AnswerStays DEF Answered
  <2> QED
    BY <2>1, <2>2, <2>3
<1> QED
  BY <1>3, <1>4

\* What is learnt is asserted with a reason, or at level 0.
LEMMA LearnAnswered == Core /\ Answered /\ Learn => Answered'
<1> SUFFICES ASSUME Core, Answered, Learn PROVE Answered'
  OBVIOUS
<1>1. /\ TrailOK /\ DL \in Nat /\ Len(clauses) \in Nat
      /\ UNCHANGED <<problem, assumptions, iconflict, cnfstate>> /\ pc' # "root"
  BY Levels DEF Core, ClausesOK, Learn, call
<1>2. PICK l \in Lits, rest \in SUBSET Lits, j \in 0 .. DL : Learns(l, rest, j, Len(clauses) + 1)
  BY LearnFacts
<1>3. PICK e \in EntryType : Backtrack(j, <<e>>) /\ (e.source = NOREF => e.level = 0)
  <2>1. Entry(l, 0, NOREF) \in EntryType /\ Entry(l, 0, NOREF).level = 0
    BY DEF Entry, EntryType, NOREF
  <2>2. PICK ref : ref = Len(clauses) + 1
    OBVIOUS
  <2>3. Entry(l, j, ref) \in EntryType /\ Entry(l, j, ref).source # NOREF
    BY <1>1, <2>2 DEF Entry, EntryType, NOREF
  <2>4. Backtrack(j, <<Entry(l, 0, NOREF)>>) \/ Backtrack(j, <<Entry(l, j, ref)>>)
    BY <1>2, <2>2 DEF Learns
  <2> QED
    BY <2>1, <2>3, <2>4
<1>4. Assumed'
  BY <1>1, <1>3, AssumedBack DEF Answered
<1> QED
  BY <1>1, <1>4, AnswerStays DEF Answered

\* Going back to a level adds no decision.
LEMMA BackingAnswered ==
    ASSUME Core, Answered, Reduce \/ Restart
    PROVE  Answered'
<1>1. /\ TrailOK /\ 0 \in 0 .. DL /\ pc' # "root"
      /\ UNCHANGED <<problem, assumptions, iconflict, cnfstate>>
  BY Levels DEF Core, Reduce, Restart, Quiescent, call
<1>2. trail' = trail \/ \E j \in 0 .. DL : Backtrack(j, <<>>)
  BY <1>1 DEF Reduce, Restart
<1>3. Assumed'
  BY <1>1, <1>2, AssumedBack, AssumedStays DEF Answered
<1> QED
  BY <1>1, <1>3, AnswerStays DEF Answered

\* A decision takes the pending assumption, or comes after all of them.
LEMMA DecideAnswered == Core /\ Answered /\ Decide => Answered'
<1> SUFFICES ASSUME Core, Answered, Decide PROVE Answered'
  OBVIOUS
<1> DEFINE levels == IF Pending # {} THEN Min(Pending) - 1 ELSE Max({DL, Len(assumptions)})
<1>1. /\ TrailOK /\ DL \in Nat /\ assumptions \in Seq(Lits) /\ Len(assumptions) \in Nat
      /\ pc' # "root" /\ UNCHANGED <<problem, assumptions, iconflict, cnfstate>>
  BY Levels DEF Core, RestOK, Decide, Quiescent, call
<1>2. PICK l \in IF Pending # {} THEN {assumptions[Min(Pending)]} ELSE Lits :
          trail' = Append(trail, Entry(l, levels + 1, NOREF))
  BY DEF Decide
<1>3. /\ levels \in Nat /\ l \in Lits
      /\ levels + 1 <= Len(assumptions) => l = assumptions[levels + 1]
  <2>1. CASE Pending # {}
    BY <1>1, <1>2, <2>1, PendingFacts
  <2>2. CASE Pending = {}
    BY <1>1, <1>2, <2>2, MaxOfTwo
  <2> QED
    BY <2>1, <2>2
<1> HIDE DEF levels
<1>4. PICK e : e = Entry(l, levels + 1, NOREF)
  OBVIOUS
<1>5. e \in EntryType /\ e.lit = l /\ e.level = levels + 1
  BY <1>3, <1>4 DEF Entry, EntryType, NOREF
<1>6. Assumed'
  BY <1>1, <1>2, <1>3, <1>4, <1>5, AssumedAppend DEF Answered
<1> QED
  BY <1>1, <1>6, AnswerStays DEF Answered

\* All literals follow from the assumptions of the levels below the one that failed.
LEMMA FailAssumptionAnswered == Core /\ Answered /\ FailAssumption => Answered'
<1> SUFFICES ASSUME Core, Answered, FailAssumption PROVE Answered'
  OBVIOUS
<1>1. /\ TrailOK /\ DL \in Nat /\ assumptions \in Seq(Lits) /\ Len(assumptions) \in Nat
      /\ Len(trail) \in Nat /\ DOMAIN trail = 1 .. Len(trail)
      /\ \A i \in 1 .. Len(trail) : trail[i].level \in Nat /\ trail[i].level <= DL
      /\ pc = "search" /\ ~ Analyzing /\ pc' # "root"
      /\ UNCHANGED <<problem, trail, assumptions>>
      /\ Pending # {} /\ iconflict' = Failed(-assumptions[Min(Pending)])
  <2>1. TrailOK /\ DL \in Nat /\ assumptions \in Seq(Lits) /\ Len(assumptions) \in Nat
    BY Levels DEF Core, RestOK
  <2>2. trail \in Seq(EntryType)
    BY <2>1 DEF TrailOK
  <2>3. Len(trail) \in Nat /\ DOMAIN trail = 1 .. Len(trail)
    BY <2>2
  <2>4. ASSUME NEW i \in 1 .. Len(trail)
        PROVE  trail[i].level \in Nat /\ trail[i].level <= DL
    <3>1. trail[i] \in EntryType
      BY <2>2, <2>3
    <3>2. trail[i].level <= DL
      BY <2>1, <2>3 DEF TrailOK
    <3> QED
      BY <3>1, <3>2 DEF EntryType
  <2>5. /\ pc = "search" /\ ~ Analyzing /\ pc' # "root"
        /\ UNCHANGED <<problem, trail, assumptions>>
        /\ Pending # {} /\ iconflict' = Failed(-assumptions[Min(Pending)])
    BY DEF FailAssumption, Quiescent, Answer, Analyzing
  <2> QED
    BY <2>1, <2>3, <2>4, <2>5
<1>2. PICK p : p = Min(Pending)
  OBVIOUS
<1>3. p \in Nat /\ p > DL /\ p <= Len(assumptions) /\ assumptions[p] \in Lits
  BY <1>1, <1>2, PendingFacts
<1>4. -assumptions[p] \in Assigned
  BY <1>2 DEF FailAssumption, IsFalse
<1>5. Models' = Models
  BY <1>1 DEF Models
<1>6. ASSUME NEW m \in Models PROVE \E i \in DOMAIN assumptions : assumptions[i] \notin m
  <2>1. SUFFICES ASSUME \A i \in DOMAIN assumptions : assumptions[i] \in m PROVE FALSE
    OBVIOUS
  <2>2. ASSUME NEW i \in 1 .. Len(trail), trail[i].source = NOREF, trail[i].level > 0
        PROVE  trail[i].lit \in m
    <3>1. trail[i].level \in Nat /\ trail[i].level <= Len(assumptions)
      BY <1>1, <1>3
    <3>2. trail[i].lit = assumptions[trail[i].level]
      BY <1>1, <2>2, <3>1 DEF Answered, Assumed
    <3>3. trail[i].level \in DOMAIN assumptions
      BY <1>1, <2>2, <3>1
    <3> QED
      BY <2>1, <3>2, <3>3
  <2>3. Assigned \subseteq m
    BY <1>1, <2>2, DecisionsImply
  <2>4. p \in DOMAIN assumptions
    BY <1>1, <1>3
  <2> QED
    BY <1>3, <1>4, <2>1, <2>3, <2>4, ModelFacts
<1>7. UnsatFollows'
  BY <1>1, <1>5, <1>6 DEF UnsatFollows
<1>8. CoreFollows'
  BY <1>1, <1>2, <1>4, <1>5, FailedFollows DEF CoreFollows, Satisfies
<1> QED
  BY <1>1, <1>7, <1>8, AssumedStays DEF Answered

\* Finding that all is assigned answers sat.
LEMMA AllAssignedAnswered == Answered /\ AllAssigned => Answered'
<1> SUFFICES ASSUME Answered, AllAssigned PROVE Answered'
  OBVIOUS
<1>1. /\ UNCHANGED <<problem, trail, dlevels, assumptions, iconflict>>
      /\ cnfstate' = "sat" /\ pc' = "idle"
  BY DEF AllAssigned, Answer, search
<1> QED
  BY <1>1, AssumedStays, AnswerStays DEF Answered

\* The beginning.
LEMMA InitAnswered == Init => Answered
<1> SUFFICES ASSUME Init PROVE Answered
  OBVIOUS
<1>1. assumptions = <<>> /\ iconflict = {} /\ cnfstate = "unsolved" /\ pc = "idle"
  BY DEF Init
<1>2. \A i \in DOMAIN trail : trail[i].level = 0
  BY DEF Init, Entry
<1> QED
  BY <1>1, <1>2 DEF Answered, Assumed, UnsatFollows, CoreFollows

\* Every step keeps the answers right.
LEMMA StepAnswered == InductiveInvariant /\ Answered /\ [Next]_vars => Answered'
<1> SUFFICES ASSUME InductiveInvariant, Answered, [Next]_vars PROVE Answered'
  OBVIOUS
<1>1. Core
  BY DEF InductiveInvariant
<1>2. CASE Call
  BY <1>1, <1>2, CallAnswered
<1>3. CASE VisitWatch
  BY <1>3, VisitWatchAnswered
<1>4. CASE ChronoAnalyze
  BY <1>1, <1>4, ChronoAnalyzeAnswered
<1>5. CASE Analyze
  BY <1>1, <1>5, AnalyzeAnswered
<1>6. CASE Learn
  BY <1>1, <1>6, LearnAnswered
<1>7. CASE AllAssigned
  BY <1>7, AllAssignedAnswered
<1>8. CASE Reduce \/ Restart
  BY <1>1, <1>8, BackingAnswered
<1>9. CASE Decide
  BY <1>1, <1>9, DecideAnswered
<1>10. CASE FailAssumption
  BY <1>1, <1>10, FailAssumptionAnswered
<1>11. CASE NextLiteral \/ RootDone \/ Resolve \/ Strengthen \/ ReduceLearnts \/ UNCHANGED vars
  BY <1>11, RestingAnswered
<1>12. CASE Terminating
  BY <1>11, <1>12 DEF Terminating
<1> QED
  BY <1>2, <1>3, <1>4, <1>5, <1>6, <1>7, <1>8, <1>9, <1>10, <1>11, <1>12 DEF Next

\* An answer of unsat is right: no model of the formula satisfies the assumptions.
THEOREM UnsatIsRight == Spec /\ [][Regular]_vars => [](UnsatFollows /\ CoreFollows)
<1>1. Answered => UnsatFollows /\ CoreFollows
  BY DEF Answered
<1> QED
  BY <1>1, InvariantHolds, InitAnswered, StepAnswered, PTL DEF Spec

CoreAssumed ==
    iconflict # {} => /\ pc = "idle"
                      /\ ~ HasLateRoot => \A l \in iconflict : -l \in Range(assumptions)

\* Beyond the first decision, without literals of level 0, decisions are assumptions.
LEMMA FailAssumptionAssumed == Core /\ Answered /\ FailAssumption => CoreAssumed'
<1> SUFFICES ASSUME Core, Answered, FailAssumption, ~ HasLateRoot', NEW x \in iconflict'
             PROVE  -x \in Range(assumptions)
  BY DEF CoreAssumed, FailAssumption, Answer
<1>1. /\ TrailOK /\ PositionsOK /\ DL \in Nat /\ assumptions \in Seq(Lits) /\ Len(assumptions) \in Nat
      /\ Len(trail) \in Nat /\ DOMAIN trail = 1 .. Len(trail) /\ trail' = trail
      /\ \A i \in 1 .. Len(trail) :
             trail[i].lit \in Lits /\ trail[i].level \in Nat /\ trail[i].level <= DL
  <2>1. TrailOK /\ PositionsOK /\ DL \in Nat /\ assumptions \in Seq(Lits) /\ trail' = trail
    BY PositionsHold, Levels DEF Core, RestOK, FailAssumption
  <2>2. trail \in Seq(EntryType)
    BY <2>1 DEF TrailOK
  <2>3. ASSUME NEW i \in 1 .. Len(trail)
        PROVE  trail[i].lit \in Lits /\ trail[i].level \in Nat /\ trail[i].level <= DL
    BY <2>1, Levels DEF EntryType
  <2> QED
    BY <2>1, <2>2, <2>3
<1>2. PICK p : p = Min(Pending) /\ p \in Nat /\ p > DL /\ p <= Len(assumptions)
               /\ assumptions[p] \in Lits /\ iconflict' = Failed(-assumptions[p])
  BY <1>1, PendingFacts DEF FailAssumption
<1>3. PICK f : Failed(-assumptions[p]) = {-assumptions[p]} \cup {-trail[i].lit : i \in
                   {k \in Bottom + 1 .. Len(trail) :
                       /\ trail[k].source = NOREF
                       /\ f[k] \cap {trail[k].lit, -trail[k].lit} # {}}}
  BY <1>1, SeenSteps
<1>4. CASE x = -assumptions[p]
  <2>1. -x = assumptions[p] /\ p \in DOMAIN assumptions
    BY <1>1, <1>2, <1>4, Negation
  <2> QED
    BY <2>1 DEF Range
<1>5. CASE x # -assumptions[p]
  <2>1. PICK i \in Bottom + 1 .. Len(trail) : x = -trail[i].lit /\ trail[i].source = NOREF
    BY <1>2, <1>3, <1>5
  <2>2. Bottom \in Nat
    BY <1>1, BottomFacts
  <2>3. dlevels # <<>>
    BY <1>1, <2>1 DEF Bottom
  <2>4. DL > 0
    <3>1. dlevels \in Seq(Nat)
      BY <1>1 DEF TrailOK
    <3>2. Len(dlevels) # 0
      BY <2>3, <3>1
    <3> QED
      BY <1>1, <3>2 DEF DL
  <2>5. DL' > 0 /\ dlevels'[1] = dlevels[1]
    <3>1. PICK n \in Nat : DL' = DL + n /\ \A h \in 1 .. DL : dlevels'[h] = dlevels[h]
      BY FailAssumptionMoves
    <3>2. 1 \in 1 .. DL
      BY <1>1, <2>4
    <3> QED
      BY <1>1, <2>4, <3>1, <3>2
  <2>6. i \in dlevels'[1] + 1 .. Len(trail) /\ i \in 1 .. Len(trail)
    BY <1>1, <2>1, <2>2, <2>3, <2>5 DEF Bottom
  <2>7. trail[i].level # 0
    BY <1>1, <2>5, <2>6 DEF HasLateRoot
  <2>8. trail[i].level > 0 /\ trail[i].level <= Len(assumptions)
    BY <1>1, <1>2, <2>6, <2>7
  <2>9. trail[i].lit = assumptions[trail[i].level]
    BY <1>1, <2>1, <2>6, <2>8 DEF Answered, Assumed
  <2>10. -x = assumptions[trail[i].level] /\ trail[i].level \in DOMAIN assumptions
    BY <1>1, <2>1, <2>6, <2>8, <2>9, Negation
  <2> QED
    BY <2>10 DEF Range
<1> QED
  BY <1>4, <1>5

\* The core is kept until the next call.
LEMMA StepAssumed ==
    ASSUME InductiveInvariant, Answered, CoreAssumed, [Next]_vars
    PROVE  CoreAssumed'
<1>1. CASE FailAssumption
  BY <1>1, FailAssumptionAssumed DEF InductiveInvariant
<1>2. CASE Call
  BY <1>2 DEF Call, CoreAssumed
<1>3. CASE AllAssigned \/ RootDone \/ Decide \/ Restart \/ Reduce
  <2>1. iconflict' = iconflict /\ pc # "idle"
    BY <1>3 DEF AllAssigned, RootDone, Decide, Restart, Reduce, Quiescent, PropagationDone,
                Propagating, call
  <2> QED
    BY <2>1 DEF CoreAssumed
<1>4. CASE NextLiteral \/ VisitWatch \/ ChronoAnalyze \/ Analyze
  <2>1. iconflict' = iconflict /\ pc # "idle"
    BY <1>4 DEF NextLiteral, VisitWatch, ChronoAnalyze, Analyze, Propagating, call
  <2> QED
    BY <2>1 DEF CoreAssumed
<1>5. CASE Resolve \/ Strengthen \/ Learn \/ ReduceLearnts
  <2>1. iconflict' = iconflict /\ pc # "idle"
    BY <1>5 DEF Resolve, Strengthen, Learn, ReduceLearnts, call
  <2> QED
    BY <2>1 DEF CoreAssumed
<1>6. CASE Terminating \/ UNCHANGED vars
  BY <1>6 DEF Terminating, CoreAssumed, HasLateRoot, DL, vars, search, call
<1> QED
  BY <1>1, <1>2, <1>3, <1>4, <1>5, <1>6 DEF Next

\* The core of a failed assumption is implied by the formula, and it negates only
\* assumptions unless a literal of level 0 lies beyond the first decision.
THEOREM CoreIsImplied == Spec /\ [][Regular]_vars => []CoreImplied
<1>1. Answered /\ CoreAssumed => CoreImplied
  BY DEF Answered, CoreFollows, CoreAssumed, CoreImplied, Satisfies
<1>2. Init => CoreAssumed
  BY DEF Init, CoreAssumed
<1> QED
  BY <1>1, <1>2, InvariantHolds, InitAnswered, StepAnswered, StepAssumed, PTL DEF Spec

-----------------------------------------------------------------------------
(***************************************************************************)
(* What propagation has examined.                                          *)
(***************************************************************************)
\* The positions whose literals have been propagated, and will not be again; those
\* of the level of a conflict are.
Looked(p) == p \in 1 .. propagated /\ (conflict = NOREF \/ \E j \in 1 .. DL : p <= dlevels[j])

FalseUpTo(l, p) == IsFalse(l) /\ PositionOf(l) <= p

\* A true literal that no backtrack removes as long as it leaves position p.
Outlives(x, p) ==
    IsTrue(x) /\ \A h \in 1 .. DL : p <= dlevels[h] => PositionOf(x) <= dlevels[h] \/ LevelOf(x) < h

Witnessed(r, p) == \E x \in clauses[r].lits : Outlives(x, p)

\* A clause does not need the literals S as long as one of its literals is true.
ExaminedFor(r, S) ==
    \A p \in Nat : Looked(p) /\ (\A l \in S : FalseUpTo(l, p)) =>
        Witnessed(r, p) \/ \E l \in S : ToVisit(l, r)

\* What outlives a position does so after a backtrack that leaves the position.
LEMMA OutlivesMoves ==
    ASSUME TrailOK, TrailOK', NEW j \in 0 .. DL, NEW new, Moves(j, new),
           \A h \in 1 .. DL' : \/ h \in 1 .. j /\ dlevels'[h] = dlevels[h]
                               \/ dlevels'[h] = Len(trail) /\ j = DL,
           NEW p \in Nat, p <= Cut(j), NEW x \in Lits, Outlives(x, p)
    PROVE  Outlives(x, p)'
<1>1. /\ PositionsOK /\ PositionsOK' /\ DL \in Nat /\ DL' \in Nat /\ Len(trail) \in Nat
      /\ Len(trail') \in Nat
      /\ Cut(j) \in Nat /\ Cut(j) <= Len(trail) /\ Cut(DL) = Len(trail)
      /\ \A i \in 1 .. Cut(j) : trail[i].level <= j
      /\ \A h \in 1 .. j : dlevels[h] <= Cut(j)
  <2>1. PositionsOK /\ PositionsOK'
    BY PositionsHold, PositionsHoldAfter
  <2>2. DL' \in Nat /\ Len(trail') \in Nat
    BY DEF TrailOK, DL
  <2>3. /\ DL \in Nat /\ Len(trail) \in Nat
        /\ Cut(j) \in Nat /\ Cut(j) <= Len(trail) /\ Cut(DL) = Len(trail)
        /\ \A i \in 1 .. Cut(j) : trail[i].level <= j
        /\ \A h \in 1 .. j : dlevels[h] <= Cut(j)
    BY Levels
  <2> QED
    BY <2>1, <2>2, <2>3
<1>2. /\ IsTrue(x) /\ ~ Unassigned(x) /\ PositionOf(x) \in 1 .. Len(trail)
      /\ LevelOf(x) \in 0 .. DL /\ LevelOf(x) = trail[PositionOf(x)].level
  <2>1. IsTrue(x) /\ ~ Unassigned(x)
    BY DEF Outlives, Unassigned, IsTrue
  <2> QED
    BY <1>1, <2>1, Levels DEF PositionsOK, LevelOf
<1>3. LevelOf(x) <= j
  <2>1. CASE j = DL
    BY <1>1, <1>2, <2>1
  <2>2. CASE j < DL
    <3>1. Cut(j) = dlevels[j + 1] /\ j + 1 \in 1 .. DL
      BY <1>1, <2>2 DEF Cut
    <3>2. PositionOf(x) <= Cut(j) \/ LevelOf(x) < j + 1
      BY <3>1 DEF Outlives
    <3>3. CASE PositionOf(x) <= Cut(j)
      BY <1>1, <1>2, <3>3
    <3>4. CASE LevelOf(x) < j + 1
      BY <1>1, <1>2, <3>4
    <3> QED
      BY <3>2, <3>3, <3>4
  <2> QED
    BY <1>1, <2>1, <2>2
<1>4. IsTrue(x)' /\ ~ Unassigned(x)' /\ LevelOf(x)' = LevelOf(x)
  BY <1>1, <1>2, <1>3, MovesKeeps
<1>5. ASSUME NEW h \in 1 .. DL', p <= dlevels'[h]
      PROVE  PositionOf(x)' <= dlevels'[h] \/ LevelOf(x)' < h
  <2>1. dlevels'[h] \in Nat /\ dlevels'[h] <= Len(trail')
    <3>1. h \in 1 .. Len(dlevels')
      BY DEF DL
    <3>2. dlevels'[h] <= propagated' /\ propagated' \in 0 .. Len(trail') /\ dlevels' \in Seq(Nat)
      BY <1>5 DEF TrailOK
    <3> QED
      BY <1>1, <3>1, <3>2
  <2>2. CASE dlevels'[h] = Len(trail) /\ j = DL
    <3>1. PositionOf(x)' = PositionOf(x)
      BY <1>1, <1>2, <2>1, <2>2, PrefixStays
    <3> QED
      BY <1>1, <1>2, <2>2, <3>1
  <2>3. CASE h \in 1 .. j /\ dlevels'[h] = dlevels[h]
    <3>1. h \in 1 .. DL
      BY <1>1, <2>3
    <3>2. PositionOf(x) <= dlevels[h] \/ LevelOf(x) < h
      BY <1>5, <2>3, <3>1 DEF Outlives
    <3>3. CASE LevelOf(x) < h
      BY <1>4, <3>3
    <3>4. CASE PositionOf(x) <= dlevels[h]
      <4>1. dlevels[h] \in Nat /\ dlevels[h] <= Cut(j) /\ dlevels[h] <= Len(trail')
        BY <1>1, <2>1, <2>3
      <4>2. PositionOf(x)' = PositionOf(x)
        BY <1>2, <3>4, <4>1, PrefixStays
      <4> QED
        BY <2>3, <3>4, <4>2
    <3> QED
      BY <3>2, <3>3, <3>4
  <2> QED
    BY <2>2, <2>3
<1> QED
  BY <1>4, <1>5 DEF Outlives

\* What was examined stays so, up to where the trail is left.
LEMMA ExaminedMoves ==
    ASSUME TrailOK, TrailOK', NEW j \in 0 .. DL, NEW new, Moves(j, new),
           \A h \in 1 .. DL' : \/ h \in 1 .. j /\ dlevels'[h] = dlevels[h]
                               \/ dlevels'[h] = Len(trail) /\ j = DL,
           NEW r, clauses[r].lits \subseteq Lits,
           \A x \in clauses[r].lits : IsTrue(x) => x \in clauses'[r].lits,
           NEW S \in SUBSET Lits, ExaminedFor(r, S),
           \A p \in Nat : Looked(p)' => Looked(p) /\ p <= Cut(j),
           \A p \in Nat : \A l \in S :
               Looked(p)' /\ FalseUpTo(l, p) /\ ToVisit(l, r) => ToVisit(l, r)'
    PROVE  ExaminedFor(r, S)'
<1> SUFFICES ASSUME NEW p \in Nat, Looked(p)', \A l \in S : FalseUpTo(l, p)',
                    ~ \E l \in S : ToVisit(l, r)'
             PROVE  Witnessed(r, p)'
  BY DEF ExaminedFor
<1>1. Looked(p) /\ p <= Cut(j) /\ Cut(j) \in Nat
  BY Levels
<1>2. PositionsOK'
  BY PositionsHoldAfter
<1>3. ASSUME NEW l \in S PROVE FalseUpTo(l, p)
  <2>1. IsFalse(l)' /\ PositionOf(l)' <= p /\ l \in Lits
    BY DEF FalseUpTo
  <2>2. PositionOf(l)' \in Nat
    BY <1>2, <2>1, Negation DEF PositionsOK, Unassigned, IsFalse, TrailOK
  <2>3. PositionOf(l)' <= Cut(j)
    BY <1>1, <2>1, <2>2
  <2>4. IsFalse(l) /\ PositionOf(l) = PositionOf(l)'
    BY <2>1, <2>3, WasFalse
  <2> QED
    BY <2>1, <2>4 DEF FalseUpTo
<1>4. Witnessed(r, p)
  BY <1>1, <1>3 DEF ExaminedFor
<1>5. PICK x \in clauses[r].lits : Outlives(x, p)
  BY <1>4 DEF Witnessed
<1>6. x \in Lits /\ x \in clauses'[r].lits
  BY <1>5 DEF Outlives
<1>7. Outlives(x, p)'
  BY <1>1, <1>5, <1>6, OutlivesMoves
<1> QED
  BY <1>6, <1>7 DEF Witnessed

\* A backtrack, which may enqueue a literal.
LEMMA BacktrackExamined ==
    ASSUME TrailOK, NEW j \in 0 .. DL, NEW enq, NEW new, Enqueued(enq, new, j),
           Backtrack(j, enq), conflict = NOREF \/ j < DL \/ conflict' # NOREF, visiting = {},
           NEW r, clauses[r].lits \subseteq Lits,
           \A x \in clauses[r].lits : IsTrue(x) => x \in clauses'[r].lits,
           NEW S \in SUBSET Lits, ExaminedFor(r, S)
    PROVE  ExaminedFor(r, S)'
<1>1. /\ DL \in Nat /\ propagated \in Nat /\ propagated <= Len(trail) /\ Len(trail) \in Nat
      /\ Cut(j) \in Nat /\ \A h \in 1 .. j : dlevels[h] <= Cut(j)
  BY Levels
<1>2. TrailOK' /\ Moves(j, new) /\ DL' = j /\ \A h \in 1 .. j : dlevels'[h] = dlevels[h]
  BY BacktrackKeepsTrailOK, BacktrackMoves
<1>3. \A h \in 1 .. DL' : h \in 1 .. j /\ dlevels'[h] = dlevels[h]
  BY <1>2
<1>4. propagated' \in Nat /\ propagated' <= Cut(j) /\ propagated' <= propagated
  BY <1>1 DEF Backtrack
<1>5. ASSUME NEW p \in Nat, Looked(p)'
      PROVE  Looked(p) /\ p <= Cut(j)
  <2>1. p \in 1 .. propagated' /\ (conflict' = NOREF \/ \E h \in 1 .. DL' : p <= dlevels'[h])
    BY <1>5 DEF Looked
  <2>2. p \in 1 .. propagated /\ p <= Cut(j)
    BY <1>1, <1>4, <2>1
  <2>3. conflict = NOREF \/ \E h \in 1 .. DL : p <= dlevels[h]
    <3>1. CASE conflict = NOREF
      BY <3>1
    <3>2. CASE j < DL
      <4>1. Cut(j) = dlevels[j + 1] /\ j + 1 \in 1 .. DL
        BY <1>1, <3>2 DEF Cut
      <4> QED
        BY <2>2, <4>1
    <3>3. CASE conflict' # NOREF
      <4>1. PICK h \in 1 .. DL' : p <= dlevels'[h]
        BY <2>1, <3>3
      <4>2. h \in 1 .. DL /\ dlevels'[h] = dlevels[h]
        BY <1>1, <1>2, <4>1
      <4> QED
        BY <4>1, <4>2
    <3> QED
      BY <3>1, <3>2, <3>3
  <2> QED
    BY <2>2, <2>3 DEF Looked
<1>6. \A l : ~ ToVisit(l, r)
  BY DEF ToVisit
<1> QED
  BY <1>2, <1>3, <1>5, <1>6, ExaminedMoves

\* A step that leaves the trail alone.
LEMMA StaysExamined ==
    ASSUME UNCHANGED <<trail, propagated, dlevels, visiting>>, conflict' = NOREF => conflict = NOREF,
           NEW r, NEW S, ExaminedFor(r, S),
           \A x \in clauses[r].lits : IsTrue(x) => x \in clauses'[r].lits
    PROVE  ExaminedFor(r, S)'
<1>1. ASSUME NEW p PROVE Looked(p)' => Looked(p)
  BY DEF Looked, DL
<1>2. ASSUME NEW p, NEW l PROVE (FalseUpTo(l, p)' <=> FalseUpTo(l, p)) /\ (Outlives(l, p)' <=> Outlives(l, p))
  BY DEF FalseUpTo, Outlives, IsFalse, IsTrue, Assigned, PositionOf, LevelOf, DL
<1>3. ASSUME NEW p, Witnessed(r, p) PROVE Witnessed(r, p)'
  <2>1. PICK x \in clauses[r].lits : Outlives(x, p)
    BY <1>3 DEF Witnessed
  <2>2. x \in clauses'[r].lits /\ Outlives(x, p)'
    BY <1>2, <2>1 DEF Outlives
  <2> QED
    BY <2>2 DEF Witnessed
<1>4. \A l : ToVisit(l, r)' <=> ToVisit(l, r)
  BY DEF ToVisit
<1> QED
  BY <1>1, <1>2, <1>3, <1>4 DEF ExaminedFor

\* Levels that are added begin after all that was looked at.
LEMMA AddedLevelsExamined ==
    ASSUME Core, TrailOK', visiting = {}, conflict = NOREF,
           NEW n \in Nat, DL' = DL + n, dlevels' = IncDL(n),
           NEW new, Moves(DL, new), UNCHANGED <<clauses, propagated>>,
           NEW r \in Live, NEW S \in SUBSET Lits, ExaminedFor(r, S)
    PROVE  ExaminedFor(r, S)'
<1>1. /\ TrailOK /\ DL \in Nat /\ propagated \in Nat /\ propagated <= Len(trail) /\ Len(trail) \in Nat
      /\ Cut(DL) = Len(trail) /\ clauses[r].lits \subseteq Lits /\ dlevels \in Seq(Nat)
  <2>1. TrailOK /\ dlevels \in Seq(Nat)
    BY DEF Core, TrailOK
  <2>2. clauses \in Seq(ClauseType) /\ r \in DOMAIN clauses
    BY DEF Core, ClausesOK, Live
  <2>3. clauses[r] \in ClauseType
    BY <2>2
  <2> QED
    BY <2>1, <2>3, Levels DEF ClauseType
<1>2. \A h \in 1 .. DL' : \/ h \in 1 .. DL /\ dlevels'[h] = dlevels[h]
                          \/ dlevels'[h] = Len(trail) /\ DL = DL
  <2>1. PICK more : more = [i \in 1 .. n |-> Len(trail)]
    OBVIOUS
  <2>2. more \in Seq(Nat) /\ Len(more) = n /\ \A i \in 1 .. n : more[i] = Len(trail)
    BY <1>1, <2>1
  <2>3. dlevels' = dlevels \o more
    BY <2>1 DEF IncDL
  <2>4. ASSUME NEW h \in 1 .. DL'
        PROVE  \/ h \in 1 .. DL /\ dlevels'[h] = dlevels[h]
               \/ dlevels'[h] = Len(trail)
    <3>1. h \in 1 .. Len(dlevels) + Len(more)
      BY <2>2 DEF DL
    <3>2. CASE h <= DL
      BY <1>1, <2>2, <2>3, <3>1, <3>2 DEF DL
    <3>3. CASE h > DL
      <4>1. h - Len(dlevels) \in 1 .. n
        BY <1>1, <2>2, <3>1, <3>3 DEF DL
      <4>2. dlevels'[h] = more[h - Len(dlevels)]
        BY <1>1, <2>2, <2>3, <3>1, <3>3 DEF DL
      <4> QED
        BY <2>2, <4>1, <4>2
    <3> QED
      BY <1>1, <3>2, <3>3
  <2> QED
    BY <2>4
<1>3. \A p \in Nat : Looked(p)' => Looked(p) /\ p <= Cut(DL)
  BY <1>1 DEF Looked
<1>4. \A l : ~ ToVisit(l, r)
  BY DEF ToVisit
<1>5. DL \in 0 .. DL
  BY <1>1
<1> QED
  BY <1>1, <1>2, <1>3, <1>4, <1>5, ExaminedMoves

\* A literal that is taken from the trail has its clauses to visit.
LEMMA NextLiteralExamined ==
    ASSUME Core, NextLiteral, NEW r \in Live, NEW S \in SUBSET clauses[r].watched, S # {},
           ExaminedFor(r, S)
    PROVE  ExaminedFor(r, S)'
<1> SUFFICES ASSUME NEW p \in Nat, Looked(p)', \A l \in S : FalseUpTo(l, p)',
                    ~ \E l \in S : ToVisit(l, r)'
             PROVE  Witnessed(r, p)'
  BY DEF ExaminedFor
<1>1. /\ Propagating /\ visiting = {} /\ propagated < Len(trail) /\ propagated' = propagated + 1
      /\ visiting' = {w \in watches : w.lit = -trail[propagated + 1].lit}
      /\ UNCHANGED <<clauses, trail, dlevels, conflict>>
  BY DEF NextLiteral
<1>2. /\ TrailOK /\ PositionsOK /\ Len(trail) \in Nat /\ propagated \in Nat /\ conflict = NOREF
      /\ ClausesOK /\ WatchesOK
  BY <1>1, PositionsHold, Levels DEF Core, RestOK
<1>3. ASSUME NEW l \in S
      PROVE  IsFalse(l) /\ PositionOf(l) \in 1 .. propagated /\ PositionOf(l) <= p
  <2>1. IsFalse(l) /\ PositionOf(l) <= p
    BY <1>1 DEF FalseUpTo, IsFalse, PositionOf, Assigned
  <2>2. l \in clauses[r].watched /\ l \in Lits /\ ~ Unassigned(l) /\ -l \in Assigned /\ -(-l) = l
    BY <1>2, <2>1, WatchedInLits, Negation DEF IsFalse, Unassigned
  <2>3. PositionOf(l) \in 1 .. Len(trail) /\ PositionOf(-l) = PositionOf(l) /\ -l \in Lits
    BY <1>2, <2>2, Negation DEF PositionsOK
  <2>4. PositionOf(l) # propagated + 1
    <3>1. SUFFICES ASSUME PositionOf(l) = propagated + 1 PROVE FALSE
      OBVIOUS
    <3>2. trail[propagated + 1].lit = -l
      BY <1>2, <2>2, <2>3, <3>1 DEF PositionsOK
    <3>3. PICK w \in watches : w.ref = r /\ w.lit = l
      BY <1>2, <2>2 DEF WatchesOK
    <3>4. w \in visiting'
      BY <1>1, <2>2, <3>2, <3>3
    <3> QED
      BY <3>3, <3>4 DEF ToVisit
  <2>5. PositionOf(l) <= propagated + 1
    <3>1. p \in 1 .. propagated + 1
      BY <1>1 DEF Looked
    <3> QED
      BY <1>2, <2>1, <2>3, <3>1
  <2> QED
    BY <1>2, <2>1, <2>3, <2>4, <2>5
<1>4. PICK q : q = IF p = propagated + 1 THEN propagated ELSE p
  OBVIOUS
<1>5. p \in 1 .. propagated + 1
  BY <1>1 DEF Looked
<1>6. q \in Nat /\ q <= p /\ Looked(q) /\ \A l \in S : FalseUpTo(l, q)
  <2>1. PICK l \in S : TRUE
    OBVIOUS
  <2>2. propagated > 0
    BY <1>2, <1>3, <2>1
  <2>3. q \in 1 .. propagated /\ q <= p
    BY <1>2, <1>4, <1>5, <2>2
  <2>4. ASSUME NEW k \in S PROVE IsFalse(k) /\ PositionOf(k) <= q
    BY <1>2, <1>3, <1>4, <1>5
  <2> QED
    BY <1>2, <2>3, <2>4 DEF Looked, FalseUpTo
<1>7. PICK x \in clauses[r].lits : Outlives(x, q)
  <2>1. \A l : ~ ToVisit(l, r)
    BY <1>1 DEF ToVisit
  <2> QED
    BY <1>6, <2>1 DEF ExaminedFor, Witnessed
<1>8. Outlives(x, p)
  <2>1. ASSUME NEW h \in 1 .. DL, p <= dlevels[h] PROVE q <= dlevels[h]
    <3>1. dlevels[h] \in Nat
      BY <1>2, Levels
    <3> QED
      BY <1>6, <2>1, <3>1
  <2> QED
    BY <1>7, <2>1 DEF Outlives
<1>9. Outlives(x, p)'
  BY <1>1, <1>8 DEF Outlives, IsTrue, Assigned, PositionOf, LevelOf, DL
<1> QED
  BY <1>1, <1>7, <1>9 DEF Witnessed

\* What a visit does: afterwards the clause is not watched by the literal, or one of
\* its literals is true, or it is the conflict.
VisitsTo(w, new) ==
    /\ Visits(w) /\ Moves(DL, new) /\ Live' = Live /\ DOMAIN clauses' = DOMAIN clauses
    /\ \A r \in DOMAIN clauses : /\ clauses'[r].lits = clauses[r].lits
                                 /\ r # w.ref => clauses'[r].watched = clauses[r].watched
    /\ \A l \in clauses'[w.ref].watched : l \in clauses[w.ref].watched \/ ~ IsFalse(l)'
    /\ w.ref \in Live /\ w.lit \in clauses'[w.ref].watched /\ conflict' = NOREF =>
           \E x \in clauses[w.ref].lits : IsTrue(x)'

\* A visit after which a literal of the clause is true.
LEMMA SatisfyingVisit ==
    ASSUME NEW w, Visits(w), NEW new, Moves(DL, new), clauses' = clauses,
           w.ref \in Live /\ conflict' = NOREF => \E x \in clauses[w.ref].lits : IsTrue(x)'
    PROVE  VisitsTo(w, new)
<1>1. Live' = Live
  BY DEF Live
<1> QED
  BY <1>1 DEF VisitsTo

\* What is appended to the trail is true.
LEMMA AppendedTrue ==
    ASSUME trail \in Seq(EntryType), NEW e, trail' = Append(trail, e)
    PROVE  IsTrue(e.lit)'
<1>1. Len(trail) + 1 \in DOMAIN trail' /\ trail'[Len(trail) + 1] = e
  OBVIOUS
<1> QED
  BY <1>1 DEF IsTrue, Assigned

\* Each of the six ways to visit a watch does so.
LEMMA VisitWatchStep ==
    ASSUME Core, VisitWatch
    PROVE  \E w \in visiting : \E new : VisitsTo(w, new)
<1>1. PICK w \in visiting :
           /\ Visits(w)
           /\ \/ Satisfied(w) \/ ClauseDeleted(w) \/ VisitBinary(w)
              \/ OtherTrue(w) \/ FindLiteral(w) \/ OthersFalse(w)
  BY DEF VisitWatch, Visits, limits
<1>2. /\ TrailOK /\ w.ref \in DOMAIN clauses /\ w.ref # NOREF /\ ClausesOK
      /\ clauses[w.ref] \in ClauseType /\ w.ref \in Nat
      /\ w.lit \in clauses[w.ref].lits /\ w.imp \in clauses[w.ref].lits /\ w.lit # w.imp
      /\ w.lit \in Lits /\ w.imp \in Lits
      /\ IsFalse(w.lit) /\ ~ Unassigned(w.lit) /\ LevelOf(w.lit) \in 0 .. DL
      /\ ~ clauses[w.ref].deleted =>
             /\ w.ref \in Live /\ Other(w) \in clauses[w.ref].lits /\ Other(w) # w.lit
             /\ clauses[w.ref].watched = {w.lit, Other(w)} /\ Other(w) \in Lits
  BY VisitFacts DEF Core, WatchType
<1>3. DL \in Nat /\ TrailOK' /\ trail \in Seq(EntryType)
  <2>1. Core'
    BY VisitWatchKeeps
  <2> QED
    BY <1>2, <2>1, Levels DEF Core, TrailOK
<1>4. \A l \in clauses[w.ref].lits : l \in Lits
  BY <1>2 DEF ClauseType
<1>5. ASSUME NEW l \in clauses[w.ref].lits, IsTrue(l), UNCHANGED <<trail, clauses>>
      PROVE  VisitsTo(w, {})
  <2>1. IsTrue(l)' /\ Moves(DL, {})
    BY <1>2, <1>5, UnchangedMoves DEF IsTrue, Assigned
  <2> QED
    BY <1>1, <1>5, <2>1, SatisfyingVisit
<1>6. CASE Satisfied(w)
  BY <1>2, <1>5, <1>6 DEF Satisfied
<1>7. CASE ClauseDeleted(w)
  <2>1. UNCHANGED <<trail, clauses>> /\ ~ (w.ref \in Live)
    BY <1>7 DEF ClauseDeleted, Live
  <2> QED
    BY <1>1, <1>2, <2>1, UnchangedMoves, SatisfyingVisit
<1>8. CASE Conflicting(w)
  <2>1. UNCHANGED <<trail, clauses>> /\ conflict' # NOREF
    BY <1>2, <1>8 DEF Conflicting
  <2> QED
    BY <1>1, <1>2, <2>1, UnchangedMoves, SatisfyingVisit
<1>9. CASE VisitBinary(w) /\ ~ IsFalse(w.imp)
  <2>1. PICK e : e = Entry(w.imp, LevelOf(w.lit), w.ref)
    OBVIOUS
  <2>2. e.lit = w.imp /\ e \in EntryType
    BY <2>1, <1>2, <1>3 DEF Entry, EntryType
  <2>3. trail' = Append(trail, e) /\ clauses' = clauses
    BY <1>9, <2>1 DEF VisitBinary
  <2>4. Moves(DL, {e}) /\ IsTrue(w.imp)'
    BY <1>2, <1>3, <2>2, <2>3, AppendMoves, AppendedTrue
  <2> QED
    BY <1>1, <1>2, <2>3, <2>4, SatisfyingVisit
<1>10. CASE VisitBinary(w) /\ IsFalse(w.imp)
  BY <1>8, <1>10 DEF VisitBinary
<1>11. CASE OtherTrue(w)
  BY <1>2, <1>5, <1>11 DEF OtherTrue, Visited, Block
<1>12. CASE FindLiteral(w)
  <2>1. Visited(w) /\ clauses[w.ref].watched = {w.lit, Other(w)} /\ Other(w) \in clauses[w.ref].lits
        /\ w.ref \in Live /\ Other(w) # w.lit
    BY <1>2, <1>12 DEF FindLiteral, Visited
  <2>2. PICK l \in Unwatched(w) :
           \/ IsTrue(l) /\ Block(w, l)
           \/ /\ Unassigned(l)
              /\ clauses' = [clauses EXCEPT ![w.ref].watched = {Other(w), l}]
              /\ UNCHANGED trail
    BY <1>12 DEF FindLiteral
  <2>3. l \in clauses[w.ref].lits /\ l \notin clauses[w.ref].watched /\ l \in Lits
    BY <1>4, <2>2 DEF Unwatched
  <2>4. CASE IsTrue(l) /\ Block(w, l)
    BY <1>5, <2>3, <2>4 DEF Block
  <2>5. CASE ~ (IsTrue(l) /\ Block(w, l))
    <3>1. PICK o : o = Other(w)
      OBVIOUS
    <3>2. /\ Unassigned(l) /\ trail' = trail
          /\ clauses' = [clauses EXCEPT ![w.ref].watched = {o, l}]
      BY <2>2, <2>5, <3>1
    <3>3. clauses[w.ref] \in ClauseType /\ clauses \in Seq(ClauseType)
      BY <1>2 DEF ClausesOK
    <3>4. PICK c : c = [clauses[w.ref] EXCEPT !.watched = {o, l}]
      OBVIOUS
    <3>5. c.watched = {o, l} /\ c.lits = clauses[w.ref].lits /\ c.deleted = clauses[w.ref].deleted
      BY <3>3, <3>4 DEF ClauseType
    <3>6. clauses' = [clauses EXCEPT ![w.ref] = c]
      BY <3>2, <3>4
    <3>7. DOMAIN clauses' = DOMAIN clauses /\ clauses'[w.ref] = c
          /\ \A r \in DOMAIN clauses : r # w.ref => clauses'[r] = clauses[r]
      BY <1>2, <3>6
    <3>8. Live' = Live
      BY <3>5, <3>7 DEF Live
    <3>9. \A r \in DOMAIN clauses : clauses'[r].lits = clauses[r].lits
      BY <3>5, <3>7
    <3>10. ~ IsFalse(l)'
      BY <3>2 DEF Unassigned, IsFalse, Assigned
    <3>11. \A k \in clauses'[w.ref].watched : k \in clauses[w.ref].watched \/ ~ IsFalse(k)'
      BY <2>1, <3>1, <3>5, <3>7, <3>10
    <3>12. w.lit \notin clauses'[w.ref].watched
      BY <2>1, <2>3, <3>1, <3>5, <3>7
    <3>13. Moves(DL, {})
      BY <1>2, <3>2, UnchangedMoves
    <3>14. VisitsTo(w, {})
      BY <1>1, <3>7, <3>8, <3>9, <3>11, <3>12, <3>13 DEF VisitsTo
    <3> QED
      BY <3>14
  <2> QED
    BY <2>4, <2>5
<1>13. CASE OthersFalse(w) /\ IsFalse(Other(w))
  BY <1>8, <1>13 DEF OthersFalse
<1>14. CASE OthersFalse(w) /\ ~ IsFalse(Other(w))
  <2>1. /\ Other(w) \in clauses[w.ref].lits /\ clauses[w.ref].watched = {w.lit, Other(w)}
        /\ Other(w) \in Lits /\ Other(w) # w.lit /\ \A l \in Unwatched(w) : IsFalse(l)
    BY <1>2, <1>14 DEF OthersFalse, Visited
  <2> PICK o : o = Other(w)
    OBVIOUS
  <2>2. PICK s : s = clauses[w.ref].lits \ {Other(w)}
    OBVIOUS
  <2>3. s \in SUBSET Lits /\ \A l \in s : ~ Unassigned(l)
    <3>1. \A l \in s : IsFalse(l)
      BY <1>2, <2>1, <2>2 DEF Unwatched
    <3> QED
      BY <1>4, <2>2, <3>1 DEF Unassigned, IsFalse
  <2>4. Highest(s) \in 0 .. DL
    BY <1>2, <2>3, HighestFacts
  <2>5. PICK e : e = Entry(Other(w), Highest(s), w.ref)
    OBVIOUS
  <2>6. e.lit = o /\ o \in clauses[w.ref].lits /\ e \in EntryType
    BY <1>2, <1>3, <2>1, <2>4, <2>5 DEF Entry, EntryType
  <2>7. trail' = Append(trail, e) /\ clauses' = clauses
    BY <1>14, <2>2, <2>5 DEF OthersFalse, Implied
  <2>8. Moves(DL, {e}) /\ IsTrue(o)'
    BY <1>2, <1>3, <2>6, <2>7, AppendMoves, AppendedTrue
  <2> QED
    BY <1>1, <2>6, <2>7, <2>8, SatisfyingVisit
<1> QED
  BY <1>1, <1>6, <1>7, <1>9, <1>10, <1>11, <1>12, <1>13, <1>14

\* What is left to visit is false where propagation stands, above all levels' ends.
LEMMA WhereVisited ==
    ASSUME Core, NEW w \in visiting
    PROVE  /\ PositionOf(w.lit) = propagated /\ propagated \in 1 .. Len(trail)
           /\ w.lit \in Lits /\ ~ Unassigned(w.lit) /\ IsFalse(w.lit)
           /\ \A h \in 1 .. DL : dlevels[h] < propagated
<1>1. w.lit \in Lits /\ ~ Unassigned(w.lit) /\ IsFalse(w.lit) /\ propagated > 0
      /\ \A h \in 1 .. DL : dlevels[h] < propagated
  BY VisitFacts
<1>2. w.lit = -trail[propagated].lit
  BY DEF Core, VisitingOK
<1>3. PositionsOK /\ propagated \in 1 .. Len(trail)
  BY <1>1, PositionsHold, Levels DEF Core
<1>4. PositionOf(w.lit) = propagated
  BY <1>2, <1>3, EntryAt
<1> QED
  BY <1>1, <1>3, <1>4

\* A visit examines its clause for the literal that is visited.
LEMMA VisitWatchExamined ==
    ASSUME Core, VisitWatch, NEW r \in Live', NEW S \in SUBSET clauses'[r].watched,
           S \subseteq clauses[r].watched => ExaminedFor(r, S)
    PROVE  ExaminedFor(r, S)'
<1>w. PICK w \in visiting : \E new : VisitsTo(w, new)
  BY VisitWatchStep
<1>1. PICK new : VisitsTo(w, new)
  BY <1>w
<1>2. /\ Moves(DL, new) /\ r \in Live /\ clauses'[r].lits = clauses[r].lits
      /\ r # w.ref => clauses'[r].watched = clauses[r].watched
      /\ \A l \in clauses'[w.ref].watched : l \in clauses[w.ref].watched \/ ~ IsFalse(l)'
      /\ w.lit \in clauses'[w.ref].watched /\ w.ref = r /\ conflict' = NOREF =>
             \E x \in clauses[r].lits : IsTrue(x)'
      /\ visiting' = (IF conflict' = NOREF THEN visiting \ {w} ELSE {})
      /\ propagated' = propagated /\ dlevels' = dlevels /\ DL' = DL
  <2>1. r \in DOMAIN clauses /\ r \in Live
    BY <1>1 DEF VisitsTo, Live
  <2> QED
    BY <1>1, <2>1 DEF VisitsTo, Visits, DL
<1>3. Core'
  BY VisitWatchKeeps
<1>4. /\ TrailOK /\ TrailOK' /\ PositionsOK /\ DL \in Nat /\ Len(trail) \in Nat
      /\ Cut(DL) = Len(trail) /\ propagated \in 1 .. Len(trail) /\ propagated <= Len(trail')
      /\ conflict = NOREF /\ DL \in 0 .. DL /\ Len(trail') \in Nat
  <2>1. TrailOK /\ TrailOK' /\ conflict = NOREF
    BY <1>3, VisitFacts DEF Core
  <2> QED
    BY <1>2, <2>1, PositionsHold, Levels, WhereVisited DEF TrailOK
<1>5. /\ clauses[r].lits \subseteq Lits /\ S \in SUBSET Lits
  <2>1. clauses \in Seq(ClauseType) /\ r \in DOMAIN clauses
    BY <1>2 DEF Core, ClausesOK, Live
  <2>2. clauses[r] \in ClauseType
    BY <2>1
  <2>3. ClausesOK'
    BY <1>3 DEF Core
  <2>4. clauses'[r].watched \subseteq clauses'[r].lits
    BY <2>3 DEF ClausesOK
  <2> QED
    BY <1>2, <2>2, <2>4 DEF ClauseType
<1>6. CASE \E l \in S : l \notin clauses[r].watched
  <2>1. PICK l \in S : ~ IsFalse(l)'
    BY <1>2, <1>6
  <2> QED
    BY <2>1 DEF ExaminedFor, FalseUpTo
<1>7. CASE r = w.ref /\ w.lit \in S
  <2> SUFFICES ASSUME NEW p \in Nat, Looked(p)', \A l \in S : FalseUpTo(l, p)'
               PROVE  Witnessed(r, p)'
    BY DEF ExaminedFor
  <2>1. PositionOf(w.lit)' = propagated
    BY <1>2, <1>4, WhereVisited, PrefixStays
  <2>2. propagated <= p
    BY <1>7, <2>1 DEF FalseUpTo
  <2>3. \A h \in 1 .. DL' : ~ (p <= dlevels'[h])
    BY <1>2, <1>4, <2>2, WhereVisited, Levels
  <2>4. conflict' = NOREF
    BY <2>3 DEF Looked
  <2>5. PICK x \in clauses[r].lits : IsTrue(x)'
    BY <1>2, <1>7, <2>4
  <2>6. Outlives(x, p)'
    BY <2>3, <2>5 DEF Outlives
  <2> QED
    BY <1>2, <2>6 DEF Witnessed
<1>8. CASE S \subseteq clauses[r].watched /\ ~ (r = w.ref /\ w.lit \in S)
  <2>1. \A p \in Nat : Looked(p)' => Looked(p) /\ p <= Cut(DL)
    BY <1>2, <1>4 DEF Looked
  <2>2. ASSUME NEW p \in Nat, NEW l \in S, Looked(p)', FalseUpTo(l, p), ToVisit(l, r)
        PROVE  ToVisit(l, r)'
    <3>1. PICK v \in visiting : v.ref = r /\ v.lit = l
      BY <2>2 DEF ToVisit
    <3>2. PositionOf(l) = propagated /\ propagated <= p
      BY <2>2, <3>1, WhereVisited DEF FalseUpTo
    <3>3. conflict' = NOREF
      BY <1>2, <1>4, <2>2, <3>2, WhereVisited, Levels DEF Looked
    <3>4. v \in visiting'
      BY <1>2, <1>8, <3>1, <3>3
    <3> QED
      BY <3>1, <3>4 DEF ToVisit
  <2>3. \A h \in 1 .. DL' : \/ h \in 1 .. DL /\ dlevels'[h] = dlevels[h]
                            \/ dlevels'[h] = Len(trail) /\ DL = DL
    BY <1>2
  <2> QED
    BY <1>2, <1>4, <1>5, <1>8, <2>1, <2>2, <2>3, ExaminedMoves
<1> QED
  BY <1>6, <1>7, <1>8

\* The literals of a clause.
LEMMA ClauseLits ==
    ASSUME ClausesOK, NEW r \in DOMAIN clauses
    PROVE  clauses[r] \in ClauseType /\ clauses[r].lits \in SUBSET Lits
<1>1. clauses[r] \in ClauseType
  BY DEF ClausesOK
<1> QED
  BY <1>1 DEF ClauseType

\* Decisions, and the levels of a failed assumption.
LEMMA AddingExamined ==
    ASSUME Core, Decide \/ FailAssumption, NEW r \in Live, NEW S \in SUBSET Lits, ExaminedFor(r, S)
    PROVE  ExaminedFor(r, S)'
<1>1. visiting = {} /\ conflict = NOREF /\ UNCHANGED <<clauses, propagated>>
  BY DEF Decide, FailAssumption, Quiescent, PropagationDone, Core, RestOK
<1>2. \E n \in Nat : \E new : dlevels' = IncDL(n) /\ TrailOK' /\ Moves(DL, new) /\ DL' = DL + n
  BY DecideMoves, FailAssumptionMoves
<1> QED
  BY <1>1, <1>2, AddedLevelsExamined

\* The steps that leave the clauses alone, and do not propagate.
LEMMA SameClausesExamined ==
    ASSUME Core, Call => conflict = NOREF, NEW r \in Live, NEW S \in SUBSET Lits,
           ExaminedFor(r, S),
           \/ Call \/ Analyze \/ Resolve \/ RootDone \/ AllAssigned \/ Reduce \/ Restart
           \/ Decide \/ FailAssumption \/ UNCHANGED vars
    PROVE  ExaminedFor(r, S)'
<1>1. /\ TrailOK /\ ClausesOK /\ DL \in Nat /\ r \in DOMAIN clauses
      /\ 0 \in 0 .. DL /\ Enqueued(<<>>, {}, 0) /\ \A j \in 0 .. DL : Enqueued(<<>>, {}, j)
  BY Levels DEF Core, Live, Enqueued
<1>2. clauses[r].lits \in SUBSET Lits
  BY <1>1, ClauseLits
<1>3. CASE Decide \/ FailAssumption
  BY <1>3, AddingExamined
<1>4. CASE Analyze \/ Resolve \/ RootDone \/ AllAssigned \/ UNCHANGED vars
  <2>1. UNCHANGED <<trail, propagated, dlevels, visiting, conflict, clauses>>
    BY <1>4 DEF Analyze, Resolve, RootDone, AllAssigned, vars, search
  <2> QED
    BY <2>1, StaysExamined
<1>5. ASSUME visiting = {}, conflict = NOREF, UNCHANGED clauses,
             \E j \in 0 .. DL : Backtrack(j, <<>>)
      PROVE  ExaminedFor(r, S)'
  BY <1>1, <1>2, <1>5, BacktrackExamined
<1>6. CASE Call
  <2>1. visiting = {} /\ UNCHANGED clauses /\ Backtrack(0, <<>>)
    BY <1>6, IdleNotVisiting DEF Call, Propagating
  <2> QED
    BY <1>1, <1>5, <1>6, <2>1
<1>7. CASE Reduce \/ Restart
  <2>1. /\ visiting = {} /\ UNCHANGED <<clauses, visiting, conflict>> /\ conflict = NOREF
        /\ (\E j \in 0 .. DL : Backtrack(j, <<>>)) \/ UNCHANGED <<trail, propagated, dlevels>>
    BY <1>1, <1>7 DEF Reduce, Restart, Quiescent, PropagationDone, Core, RestOK
  <2> QED
    BY <1>5, <2>1, StaysExamined
<1> QED
  BY <1>3, <1>4, <1>6, <1>7

\* A literal of level h lies after the end of the level below.
LEMMA BehindLevels ==
    ASSUME TrailOK, NEW l \in Lits, ~ Unassigned(l), NEW h \in 1 .. DL, LevelOf(l) >= h,
           NEW p \in Nat, PositionOf(l) <= p
    PROVE  dlevels[h] < p
<1>1. /\ PositionsOK /\ dlevels[h] \in Nat /\ \A i \in 1 .. dlevels[h] : trail[i].level < h
      /\ \A i \in 1 .. Len(trail) : trail[i].level \in Nat
  BY PositionsHold, Levels DEF TrailOK
<1>2. /\ PositionOf(l) \in 1 .. Len(trail) /\ LevelOf(l) = trail[PositionOf(l)].level
  BY <1>1 DEF PositionsOK, LevelOf
<1>3. ~ (PositionOf(l) <= dlevels[h])
  <2>1. SUFFICES ASSUME PositionOf(l) <= dlevels[h] PROVE FALSE
    OBVIOUS
  <2>2. PositionOf(l) \in 1 .. dlevels[h]
    BY <1>1, <1>2, <2>1
  <2>3. trail[PositionOf(l)].level < h
    BY <1>1, <2>2
  <2> QED
    BY <1>1, <1>2, <2>3
<1> QED
  BY <1>1, <1>2, <1>3

\* The same after a step.
LEMMA BehindLevelsAfter ==
    ASSUME TrailOK', NEW l \in Lits, ~ Unassigned(l)', NEW h \in 1 .. DL', LevelOf(l)' >= h,
           NEW p \in Nat, PositionOf(l)' <= p
    PROVE  dlevels'[h] < p
<1>1. /\ PositionsOK' /\ dlevels'[h] \in Nat /\ \A i \in 1 .. dlevels'[h] : trail'[i].level < h
      /\ \A i \in 1 .. Len(trail') : trail'[i].level \in Nat
  <2>1. PositionsOK' /\ dlevels' \in Seq(Nat) /\ h \in 1 .. Len(dlevels')
    BY PositionsHoldAfter DEF TrailOK, DL
  <2>2. \A i \in 1 .. dlevels'[h] : trail'[i].level < h
    BY DEF TrailOK
  <2>3. trail' \in Seq(EntryType)
    BY DEF TrailOK
  <2>4. ASSUME NEW i \in 1 .. Len(trail') PROVE trail'[i].level \in Nat
    <3>1. trail'[i] \in EntryType
      BY <2>3
    <3> QED
      BY <3>1 DEF EntryType
  <2> QED
    BY <2>1, <2>2, <2>4
<1>2. /\ PositionOf(l)' \in 1 .. Len(trail') /\ LevelOf(l)' = trail'[PositionOf(l)'].level
  BY <1>1 DEF PositionsOK, LevelOf
<1>3. ~ (PositionOf(l)' <= dlevels'[h])
  <2>1. SUFFICES ASSUME PositionOf(l)' <= dlevels'[h] PROVE FALSE
    OBVIOUS
  <2>2. PositionOf(l)' \in 1 .. dlevels'[h]
    BY <1>1, <1>2, <2>1
  <2>3. trail'[PositionOf(l)'].level < h
    BY <1>1, <2>2
  <2> QED
    BY <1>1, <1>2, <2>3
<1> QED
  BY <1>1, <1>2, <1>3

\* A clause that is strengthened is false, and one of its watches of the highest level.
LEMMA StrengthenedLevels ==
    ASSUME Core, Strengthen, NEW p, p = Parent.lit, NEW r, r = Parent.source,
           NEW first, NEW second, NEW lits, StrengthenedTo(p, r, first, second, lits)
    PROVE  /\ \A k \in lits : k \in Lits /\ IsFalse(k) /\ ~ Unassigned(k)
           /\ \E k \in lits : LevelOf(k) = DL
           /\ LevelOf(first) = DL \/ LevelOf(second) = DL
<1>1. pc = "uip" /\ Cardinality(Tracked) > 1 /\ SubsumesReason /\ TrailOK
  BY DEF Strengthen, Core
<1>2. \A k \in clauses[r].lits \ {p} :
             /\ k \in Lits /\ IsFalse(k) /\ ~ Unassigned(k)
  BY <1>1, ReasonLitsFacts
<1>3. /\ lits = {first} \cup ReasonLits /\ {first, second} \subseteq lits
      /\ LevelOf(second) = Highest(lits \ {first})
      /\ lits \subseteq clauses[r].lits \ {p}
  BY DEF StrengthenedTo
<1>4. PICK k \in lits : LevelOf(k) = DL
  <2>1. PICK k \in Tracked : k # -p
    BY <1>1, ParentFacts
  <2>2. k \in Resolved.seen \ Resolved.resolved /\ LevelOf(k) = DL
    BY <2>1 DEF Resolved, Tracked, Resolvent
  <2>3. k \in ReasonLits
    BY <1>1, <2>2, SubsumingResolvent
  <2> QED
    BY <1>3, <2>2, <2>3
<1>5. CASE k # first
  <2>1. PICK s : s = lits \ {first}
    OBVIOUS
  <2>2. s \in SUBSET Lits /\ \A l \in s : ~ Unassigned(l)
    BY <1>2, <1>3, <2>1
  <2>3. Highest(s) \in 0 .. DL /\ LevelOf(k) <= Highest(s)
    BY <1>1, <1>5, <2>1, <2>2, HighestFacts
  <2>4. Highest(s) = DL
    BY <1>1, <1>4, <2>3, Levels
  <2> QED
    BY <1>2, <1>3, <1>4, <2>1, <2>4
<1> QED
  BY <1>2, <1>3, <1>4, <1>5

\* A reason that is strengthened is false at the highest level, which is not looked
\* at; other clauses stay.
LEMMA StrengthenExamined ==
    ASSUME Core, Strengthen, NEW r \in Live', NEW S \in SUBSET clauses'[r].watched,
           r = conflict' => S = clauses'[r].watched,
           r # conflict' => (S \subseteq clauses[r].watched => ExaminedFor(r, S))
    PROVE  ExaminedFor(r, S)'
<1>1. PICK q : q = Parent.source
  OBVIOUS
<1>2. PICK p : p = Parent.lit
  OBVIOUS
<1>3. /\ UNCHANGED <<trail, propagated, dlevels, visiting>> /\ conflict' = q
      /\ pc = "uip" /\ Cardinality(Tracked) > 1 /\ TrailOK /\ TrailOK'
  <2>1. UNCHANGED <<trail, propagated, dlevels, visiting>> /\ conflict' = q
        /\ pc = "uip" /\ Cardinality(Tracked) > 1
    BY <1>1 DEF Strengthen
  <2>2. TrailOK /\ TrailOK'
    BY StrengthenKeeps DEF Core
  <2> QED
    BY <2>1, <2>2
<1>4. PICK first, second, lits : StrengthenedTo(p, q, first, second, lits)
  BY <1>1, <1>2, StrengthenFacts
<1>5. q # NOREF
  BY <1>1, <1>2, <1>3, ParentFacts
<1>6. CASE r # q
  <2>1. r \in DOMAIN clauses /\ clauses'[r].lits = clauses[r].lits
        /\ clauses'[r].watched = clauses[r].watched
    <3>1. r \in DOMAIN clauses'
      BY DEF Live
    <3> QED
      BY <1>4, <1>6, <3>1 DEF StrengthenedTo
  <2> QED
    BY <1>3, <1>5, <1>6, <2>1, StaysExamined
<1>7. CASE r = q
  <2>1. S = {first, second} /\ {first, second} \subseteq lits
    BY <1>3, <1>4, <1>7 DEF StrengthenedTo
  <2>2. PICK l \in S : l \in Lits /\ ~ Unassigned(l) /\ LevelOf(l) = DL
    BY <1>1, <1>2, <1>4, <2>1, StrengthenedLevels
  <2>3. ~ Unassigned(l)' /\ LevelOf(l)' = DL /\ DL' = DL /\ DL \in Nat
    BY <1>3, <2>2, Levels DEF Unassigned, Assigned, LevelOf, PositionOf, DL
  <2>4. ASSUME NEW x \in Nat, Looked(x)', FalseUpTo(l, x)' PROVE FALSE
    <3>1. PICK h \in 1 .. DL' : x <= dlevels'[h]
      BY <1>3, <1>5, <2>4 DEF Looked
    <3>2. dlevels'[h] < x
      BY <1>3, <2>2, <2>3, <2>4, BehindLevelsAfter DEF FalseUpTo
    <3>3. dlevels'[h] \in Nat
      <4>1. dlevels' \in Seq(Nat) /\ h \in 1 .. Len(dlevels')
        BY <1>3 DEF TrailOK, DL
      <4> QED
        BY <4>1
    <3> QED
      BY <3>1, <3>2, <3>3
  <2> QED
    BY <2>2, <2>4 DEF ExaminedFor
<1> QED
  BY <1>6, <1>7

\* A literal that is true at the level of a false one outlives where that one is.
LEMMA OutlivesLevel ==
    ASSUME TrailOK', NEW l \in Lits, IsTrue(l)', NEW k \in Lits, ~ Unassigned(k)',
           LevelOf(l)' <= LevelOf(k)', LevelOf(l)' \in Nat, LevelOf(k)' \in Nat,
           NEW p \in Nat, PositionOf(k)' <= p
    PROVE  Outlives(l, p)'
<1>1. ASSUME NEW h \in 1 .. DL', p <= dlevels'[h] PROVE LevelOf(l)' < h
  <2>1. dlevels'[h] \in Nat
    <3>1. dlevels' \in Seq(Nat) /\ h \in 1 .. Len(dlevels')
      BY DEF TrailOK, DL
    <3> QED
      BY <3>1
  <2>2. ~ (LevelOf(k)' >= h)
    BY <1>1, <2>1, BehindLevelsAfter
  <2> QED
    BY <2>2
<1> QED
  BY <1>1 DEF Outlives

\* chronoAnalyze watches two literals of the highest levels: what it asserts is not
\* above the other one, and if it asserts nothing they are not looked at.
LEMMA ChronoAnalyzeExamined ==
    ASSUME Core, ChronoAnalyze, NEW r \in Live', NEW S \in SUBSET clauses'[r].watched, S # {},
           r # conflict \/ Highest(clauses[conflict].lits) = 0 =>
               (S \subseteq clauses[r].watched => ExaminedFor(r, S))
    PROVE  ExaminedFor(r, S)'
<1>1. /\ pc = "analyze" /\ Analyzing /\ TrailOK /\ ClausesOK /\ DL \in Nat
      /\ conflict \in DOMAIN clauses /\ conflict # NOREF /\ visiting = {} /\ visiting' = visiting
  <2>1. pc = "analyze" /\ Analyzing /\ visiting' = visiting
    BY DEF ChronoAnalyze, Analyzing
  <2>2. TrailOK /\ ClausesOK
    BY DEF Core
  <2> QED
    BY <2>1, <2>2, ConflictFacts, Levels
<1>2. CASE Highest(clauses[conflict].lits) = 0
  <2>1. UNCHANGED <<clauses, trail, propagated, dlevels, conflict>>
    BY <1>2 DEF ChronoAnalyze, search
  <2> QED
    BY <1>1, <1>2, <2>1, StaysExamined
<1>3. CASE Highest(clauses[conflict].lits) # 0
  <2>1. PICK c : c = clauses[conflict].lits
    OBVIOUS
  <2>2. PICK level \in 1 .. DL, pair \in SUBSET c :
            /\ level = Highest(c)
            /\ \A l \in c : IsFalse(l) /\ ~ Unassigned(l) /\ l \in Lits /\ LevelOf(l) <= level
            /\ \A l \in c \ pair, k \in pair : LevelOf(l) <= LevelOf(k)
            /\ clauses'[conflict].watched = pair
            /\ IsPair(pair)
            /\ SameLits /\ Live' = Live
            /\ \A q \in DOMAIN clauses : q # conflict => clauses'[q] = clauses[q]
            /\ \/ \E l \in c :
                      /\ LevelOf(l) = level /\ \A k \in c \ {l} : LevelOf(k) <= level - 1
                      /\ Backtrack(level - 1, <<Implied(l, conflict)>>)
               \/ /\ Backtrack(level, <<>>) /\ conflict' = conflict
                  /\ \A l \in c : LevelOf(l) = level =>
                         \E k \in c \ {l} : LevelOf(k) = level
    BY <1>3, <2>1, ChronoFacts
  <2>3. /\ c \in SUBSET Lits /\ \A l \in c : LevelOf(l) \in Nat
        /\ r \in DOMAIN clauses /\ clauses'[r].lits = clauses[r].lits /\ r \in Live
        /\ level \in Nat /\ level > 0 /\ level <= DL /\ level - 1 \in 0 .. DL /\ level \in 0 .. DL
    BY <1>1, <2>2, Levels DEF SameLits, Live
  <2>4. clauses[r].lits \in SUBSET Lits
    BY <1>1, <2>3, ClauseLits
  <2>5. ASSUME r # conflict
        PROVE  clauses'[r] = clauses[r] /\ S \in SUBSET Lits /\ ExaminedFor(r, S)
    <3>1. clauses'[r] = clauses[r]
      BY <2>2, <2>3, <2>5
    <3>2. clauses[r].watched \subseteq clauses[r].lits
      BY <1>1, <2>3 DEF ClausesOK
    <3> QED
      BY <2>4, <2>5, <3>1, <3>2
  <2>6. ASSUME NEW l \in c, LevelOf(l) = level, \A k \in c \ {l} : LevelOf(k) <= level - 1,
               Backtrack(level - 1, <<Implied(l, conflict)>>)
        PROVE  ExaminedFor(r, S)'
    <3>1. PICK others \in SUBSET Lits : others = c \ {l}
      BY <2>3
    <3>2. PICK hi : hi = Highest(others)
      OBVIOUS
    <3>3. /\ hi \in Nat /\ \A k \in others : LevelOf(k) <= hi
          /\ hi = 0 \/ \E k \in others : LevelOf(k) = hi
      BY <1>1, <2>2, <3>1, <3>2, HighestFacts
    <3>4. hi <= level - 1
      BY <2>3, <2>6, <3>1, <3>3
    <3>5. PICK e : e = Implied(l, conflict)
      OBVIOUS
    <3>6. /\ e.lit = l /\ e.level = hi /\ e.source = conflict /\ e \in EntryType
      <4>1. conflict \in Nat
        BY <1>1 DEF ClausesOK
      <4> QED
        BY <2>1, <2>3, <3>1, <3>2, <3>3, <3>5, <4>1 DEF Implied, Entry, EntryType
    <3>7. Enqueued(<<e>>, {e}, level - 1) /\ Backtrack(level - 1, <<e>>)
      BY <1>1, <2>3, <2>6, <3>4, <3>5, <3>6 DEF Enqueued
    <3>8. CASE r # conflict
      <4>1. level - 1 < DL
        BY <1>1, <2>3
      <4>2. clauses'[r] = clauses[r] /\ S \in SUBSET Lits /\ ExaminedFor(r, S)
        BY <2>5, <3>8
      <4> QED
        BY <1>1, <2>3, <2>4, <3>7, <4>1, <4>2, BacktrackExamined
    <3>9. CASE r = conflict
      <4>1. TrailOK' /\ Moves(level - 1, {e}) /\ DL' = level - 1
        BY <1>1, <2>3, <3>7, BacktrackKeepsTrailOK, BacktrackMoves
      <4>2. PositionsOK /\ PositionsOK'
        BY <1>1, <4>1, PositionsHold, PositionsHoldAfter
      <4>3. IsTrue(l)' /\ LevelOf(l)' = hi /\ l \in Lits
        BY <2>2, <3>6, <4>1 DEF Moves, IsTrue
      <4>4. l \in pair
        <5>1. SUFFICES ASSUME l \notin pair PROVE FALSE
          OBVIOUS
        <5>2. PICK k \in pair : k \in c
          BY <2>2 DEF IsPair
        <5>3. LevelOf(l) <= LevelOf(k) /\ LevelOf(k) <= level - 1
          BY <2>2, <2>6, <5>1, <5>2
        <5> QED
          BY <2>3, <2>6, <5>2, <5>3
      <4>5. CASE l \in S
        <5>1. ~ IsFalse(l)'
          BY <4>2, <4>3 DEF IsFalse, IsTrue, PositionsOK
        <5> QED
          BY <4>5, <5>1 DEF ExaminedFor, FalseUpTo
      <4>6. CASE l \notin S
        <5>1. PICK k \in S : k \in pair /\ k # l /\ pair = {l, k}
          BY <2>2, <3>9, <4>4, <4>6 DEF IsPair
        <5>2. LevelOf(k) = hi /\ k \in others /\ k \in Lits /\ ~ Unassigned(k)
          BY <2>2, <2>3, <3>1, <3>3, <5>1
        <5>3. LevelOf(k)' = hi /\ ~ Unassigned(k)'
          BY <3>4, <4>1, <4>2, <5>2, MovesKeeps
        <5>4. ASSUME NEW p \in Nat, FalseUpTo(k, p)' PROVE Outlives(l, p)'
          BY <3>3, <4>1, <4>3, <5>2, <5>3, <5>4, OutlivesLevel DEF FalseUpTo
        <5>5. l \in clauses'[r].lits
          BY <2>1, <2>3, <3>9
        <5> QED
          BY <5>1, <5>4, <5>5 DEF ExaminedFor, Witnessed
      <4> QED
        BY <4>5, <4>6
    <3> QED
      BY <3>8, <3>9
  <2>7. ASSUME Backtrack(level, <<>>), conflict' = conflict,
               \A l \in c : LevelOf(l) = level => \E k \in c \ {l} : LevelOf(k) = level
        PROVE  ExaminedFor(r, S)'
    <3>1. Enqueued(<<>>, {}, level)
      BY DEF Enqueued
    <3>2. CASE r # conflict
      <4>1. conflict' # NOREF
        BY <1>1, <2>7
      <4>2. clauses'[r] = clauses[r] /\ S \in SUBSET Lits /\ ExaminedFor(r, S)
        BY <2>5, <3>2
      <4> QED
        BY <1>1, <2>3, <2>4, <2>7, <3>1, <4>1, <4>2, BacktrackExamined
    <3>3. CASE r = conflict
      <4>1. TrailOK' /\ Moves(level, {}) /\ DL' = level
        BY <1>1, <2>3, <2>7, <3>1, BacktrackKeepsTrailOK, BacktrackMoves
      <4>2. PositionsOK /\ PositionsOK'
        BY <1>1, <4>1, PositionsHold, PositionsHoldAfter
      <4>3. PICK k \in S : k \in pair /\ k \in c
        BY <2>2, <3>3
      <4>4. LevelOf(k) = level
        <5>1. PICK s \in SUBSET Lits : s = c
          BY <2>3
        <5>2. \E x \in c : LevelOf(x) = level
          <6>1. Highest(s) \in 0 .. DL /\ Highest(s) # 0 /\ \E x \in s : LevelOf(x) = Highest(s)
            BY <1>1, <1>3, <2>1, <2>2, <5>1, HighestFacts
          <6>2. Highest(s) = level
            BY <2>2, <5>1
          <6> QED
            BY <5>1, <6>1, <6>2
        <5>3. PICK x \in c, y \in c : x # y /\ LevelOf(x) = level /\ LevelOf(y) = level
          BY <2>7, <5>2
        <5>4. x \in pair /\ y \in pair => k \in {x, y}
          BY <2>2, <4>3, <5>3 DEF IsPair
        <5> QED
          BY <2>2, <2>3, <4>3, <5>3, <5>4
      <4>5. ~ Unassigned(k)' /\ LevelOf(k)' = level /\ k \in Lits
        BY <2>2, <4>1, <4>2, <4>3, <4>4, MovesKeeps, <2>3
      <4>6. ASSUME NEW p \in Nat, Looked(p)', FalseUpTo(k, p)' PROVE FALSE
        <5>1. PICK h \in 1 .. DL' : p <= dlevels'[h]
          BY <1>1, <2>7, <4>6 DEF Looked
        <5>2. dlevels'[h] < p
          BY <2>3, <4>1, <4>5, <4>6, BehindLevelsAfter DEF FalseUpTo
        <5>3. dlevels'[h] \in Nat
          <6>1. dlevels' \in Seq(Nat) /\ h \in 1 .. Len(dlevels')
            BY <4>1 DEF TrailOK, DL
          <6> QED
            BY <6>1
        <5> QED
          BY <5>1, <5>2, <5>3
      <4> QED
        BY <4>3, <4>6 DEF ExaminedFor
    <3> QED
      BY <3>2, <3>3
  <2> QED
    BY <2>2, <2>6, <2>7
<1> QED
  BY <1>2, <1>3

\* Whether backjumping goes to the level at which what is learnt is false.
JumpsLow == opts.chrono => DL <= opts.distance

\* The literal that is learnt is true at the level to which the search goes back.
LEMMA LearnExamined ==
    ASSUME Core, Learn, NEW r \in Live', NEW S \in SUBSET clauses'[r].watched, S # {},
           S = clauses'[r].watched \/ JumpsLow,
           r \in Live => (S \subseteq clauses[r].watched => ExaminedFor(r, S))
    PROVE  ExaminedFor(r, S)'
<1>1. PICK l \in Lits, rest \in SUBSET Lits, j \in 0 .. DL : Learns(l, rest, j, Len(clauses) + 1)
  BY LearnFacts
<1>2. PICK ref : ref = Len(clauses) + 1
  OBVIOUS
<1>3. /\ TrailOK /\ ClausesOK /\ DL \in Nat /\ visiting = {} /\ clauses \in Seq(ClauseType)
      /\ conflict' = NOREF /\ visiting' = visiting /\ Len(clauses) \in Nat
  BY Levels, IdleNotVisiting DEF Core, ClausesOK, Learn, Propagating
<1>4. PICK e \in EntryType : /\ Backtrack(j, <<e>>) /\ e.lit = l /\ Enqueued(<<e>>, {e}, j)
                             /\ rest # {} => e.level = j
  <2>1. PICK x : x = IF rest = {} THEN Entry(l, 0, NOREF) ELSE Entry(l, j, ref)
    OBVIOUS
  <2>2. Backtrack(j, <<x>>) /\ LevelOf(l) = DL /\ j < DL
    BY <1>1, <1>2, <2>1 DEF Learns
  <2>3. x \in EntryType /\ x.lit = l /\ x.level <= j /\ (x.source = NOREF => x.level = 0)
        /\ (rest # {} => x.level = j)
    BY <1>2, <1>3, <2>1 DEF Entry, EntryType, NOREF
  <2>4. Enqueued(<<x>>, {x}, j)
    BY <1>3, <2>2, <2>3 DEF Enqueued
  <2> QED
    BY <2>2, <2>3, <2>4
<1>5. TrailOK' /\ Moves(j, {e}) /\ DL' = j /\ PositionsOK /\ PositionsOK' /\ j < DL
  <2>1. TrailOK' /\ Moves(j, {e}) /\ DL' = j
    BY <1>3, <1>4, BacktrackKeepsTrailOK, BacktrackMoves
  <2>2. j < DL
    BY <1>1 DEF Learns
  <2> QED
    BY <1>3, <2>1, <2>2, PositionsHold, PositionsHoldAfter
<1>6. CASE rest = {}
  <2>1. clauses' = clauses
    BY <1>1, <1>6 DEF Learns
  <2>2. /\ r \in Live /\ clauses[r].lits \in SUBSET Lits
        /\ clauses[r].watched \subseteq clauses[r].lits
    BY <1>3, <2>1, ClauseLits DEF ClausesOK, Live
  <2> QED
    BY <1>3, <1>4, <1>5, <2>1, <2>2, BacktrackExamined
<1>7. CASE rest # {}
  <2> DEFINE Marked ==
                 [q \in DOMAIN clauses |->
                     [clauses[q] EXCEPT !.deleted =
                         @ \/ (clauses[q].learnt /\ ({l} \cup rest) \subseteq clauses[q].lits)]]
  <2>1. PICK second \in rest :
            /\ LevelOf(second) = Highest(rest)
            /\ clauses' = Append(Marked, [lits |-> {l} \cup rest, watched |-> {l, second},
                                         learnt |-> TRUE, deleted |-> FALSE])
    BY <1>1, <1>7 DEF Learns
  <2>2. PICK c : c = [lits |-> {l} \cup rest, watched |-> {l, second},
                      learnt |-> TRUE, deleted |-> FALSE]
    OBVIOUS
  <2>3. c \in ClauseType /\ c.lits = {l} \cup rest /\ c.watched = {l, second}
    BY <2>2 DEF ClauseType
  <2>4. Added(c, ref)
    BY <1>2, <1>3, <2>1, <2>2, <2>3, AppendedClause
  <2>5. CASE r \in DOMAIN clauses
    <3>1. /\ clauses'[r].lits = clauses[r].lits /\ clauses'[r].watched = clauses[r].watched
          /\ r \in Live
      BY <2>5, <2>4 DEF Added, Live
    <3>2. clauses[r].lits \in SUBSET Lits /\ clauses[r].watched \subseteq clauses[r].lits
      BY <1>3, <2>5, <3>1, ClauseLits DEF ClausesOK
    <3> QED
      BY <1>3, <1>4, <1>5, <2>5, <3>1, <3>2, BacktrackExamined
  <2>6. CASE r \notin DOMAIN clauses
    <3>1. /\ clauses'[r].lits = {l} \cup rest /\ clauses'[r].watched = {l, second}
      BY <2>3, <2>6, <2>4 DEF Added, Live
    <3>2. IsTrue(l)' /\ LevelOf(l)' = j /\ ~ IsFalse(l)'
      <4>1. IsTrue(l)' /\ LevelOf(l)' = j
        BY <1>4, <1>5, <1>7 DEF Moves, IsTrue
      <4> QED
        BY <1>5, <4>1 DEF IsFalse, IsTrue, PositionsOK
    <3>3. CASE l \in S
      BY <3>2, <3>3 DEF ExaminedFor, FalseUpTo
    <3>4. CASE l \notin S
      <4>1. second \in S /\ JumpsLow
        BY <3>1, <3>4
      <4>2. IsFalse(second) /\ second \in Lits /\ ~ Unassigned(second)
            /\ \A k \in rest : IsFalse(k)
        BY <1>1 DEF Learns, IsFalse, Unassigned
      <4>3. j = LevelOf(second)
        <5>1. \A k \in rest : ~ Unassigned(k)
          BY <4>2 DEF IsFalse, Unassigned
        <5>2. Highest(rest) \in 0 .. DL
          BY <1>3, <5>1, HighestFacts
        <5>3. opts.chrono => DL <= opts.distance /\ opts.distance \in Nat
          BY <4>1, OptionsAssumption DEF JumpsLow, Core, RestOK
        <5>4. JumpLevel(rest) = Highest(rest)
          BY <1>3, <5>2, <5>3 DEF JumpLevel
        <5> QED
          BY <1>1, <2>1, <5>4 DEF Learns
      <4>4. LevelOf(second)' = j /\ ~ Unassigned(second)'
        BY <1>3, <1>5, <4>2, <4>3, MovesKeeps
      <4>5. ASSUME NEW p \in Nat, FalseUpTo(second, p)' PROVE Outlives(l, p)'
        BY <1>3, <1>5, <3>2, <4>2, <4>4, <4>5, OutlivesLevel DEF FalseUpTo
      <4> QED
        BY <3>1, <4>1, <4>5 DEF ExaminedFor, Witnessed
    <3> QED
      BY <3>3, <3>4
  <2> QED
    BY <2>5, <2>6
<1> QED
  BY <1>6, <1>7

\* sortClause puts a false literal first only if all are false, and second only if
\* all others are, and then one of the highest level.
LEMMA SortedPairFacts ==
    ASSUME PositionsOK, NEW lits \in SUBSET Lits, NEW pair \in SortedPairs(lits)
    PROVE  \E a, b \in lits :
               /\ pair = {a, b} /\ a # b
               /\ IsFalse(a) => \A l \in lits : IsFalse(l)
               /\ IsFalse(b) => /\ \A l \in lits \ {a} : IsFalse(l)
                                /\ LevelOf(b) = Highest(lits \ {a})
<1>1. PICK a \in Firsts(lits) : \E b \in Seconds(lits \ {a}) : pair = {a, b}
  BY DEF SortedPairs
<1>2. PICK b \in Seconds(lits \ {a}) : pair = {a, b}
  BY <1>1
<1>3. ASSUME NEW l \in lits PROVE ~ (IsTrue(l) /\ IsFalse(l))
  BY DEF PositionsOK, IsTrue, IsFalse
<1>4. b \in lits \ {a} /\ (IsFalse(b) => /\ \A l \in lits \ {a} : IsFalse(l)
                                         /\ LevelOf(b) = Highest(lits \ {a}))
  BY DEF Seconds
<1>5. a \in lits /\ (IsFalse(a) => \A l \in lits : IsFalse(l))
  <2>1. CASE \E l \in lits : Unassigned(l)
    BY <2>1, <1>1 DEF Firsts, Unassigned, IsFalse
  <2>2. CASE (~ \E l \in lits : Unassigned(l)) /\ {l \in lits : IsTrue(l)} # {}
    BY <2>2, <1>1, <1>3 DEF Firsts
  <2>3. CASE (~ \E l \in lits : Unassigned(l)) /\ {l \in lits : IsTrue(l)} = {}
    <3>1. a \in lits
      BY <2>3, <1>1 DEF Firsts
    <3>2. \A l \in lits : IsFalse(l)
      BY <2>3 DEF Unassigned, IsFalse, IsTrue
    <3> QED
      BY <3>1, <3>2
  <2> QED
    BY <2>1, <2>2, <2>3
<1> QED
  BY <1>2, <1>4, <1>5

\* What was examined up to the end of the trail.
LEMMA ExaminedAtRest ==
    ASSUME Core, PropagationDone, NEW r \in Live, NEW S \in SUBSET Lits, S # {},
           ExaminedFor(r, S), \A l \in S : IsFalse(l)
    PROVE  \E x \in clauses[r].lits : IsTrue(x)
<1>1. /\ visiting = {} /\ propagated = Len(trail) /\ conflict = NOREF /\ PositionsOK
      /\ Len(trail) \in Nat
  BY PositionsHold, Levels DEF PropagationDone, Core, RestOK
<1>2. ASSUME NEW l \in S PROVE PositionOf(l) \in 1 .. Len(trail)
  BY <1>1, Negation DEF IsFalse, Unassigned, PositionsOK
<1>3. Looked(propagated) /\ propagated \in Nat
  BY <1>1, <1>2 DEF Looked
<1>4. \A l \in S : FalseUpTo(l, propagated)
  BY <1>1, <1>2 DEF FalseUpTo
<1>5. ~ \E l \in S : ToVisit(l, r)
  BY <1>1 DEF ToVisit
<1>6. Witnessed(r, propagated)
  BY <1>3, <1>4, <1>5 DEF ExaminedFor
<1> QED
  BY <1>6 DEF Witnessed, Outlives

\* reduce puts false literals first only in clauses that are false.
LEMMA ReduceLearntsExamined ==
    ASSUME Core, ReduceLearnts, \E q \in Learnt : ~ Shrunk[q].deleted, NEW r \in Live',
           NEW S, S = clauses'[r].watched, NEW T, T = clauses[r].watched,
           r \in Live => ExaminedFor(r, T)
    PROVE  ExaminedFor(r, S)'
<1>1. /\ PropagationDone /\ UNCHANGED <<trail, propagated, dlevels, visiting, conflict>>
      /\ PositionsOK /\ ClausesOK
  BY PositionsHold DEF ReduceLearnts, Core
<1>2. PICK gone : ReducedTo(gone)
  BY ReduceLearntsStep
<1>3. /\ r \in DOMAIN clauses /\ r \in Live
      /\ clauses'[r].lits \subseteq clauses[r].lits
      /\ \A l \in clauses[r].lits \ clauses'[r].lits : IsFalse(l)
      /\ \/ clauses'[r].watched = clauses[r].watched
         \/ clauses'[r].watched \in SortedPairs(clauses'[r].lits)
  <2>1. r \in DOMAIN clauses /\ r \in Live
    BY <1>2 DEF ReducedTo, Live
  <2> QED
    BY <1>2, <2>1 DEF ReducedTo
<1>4. /\ clauses[r].lits \in SUBSET Lits /\ clauses'[r].lits \in SUBSET Lits
      /\ clauses[r].watched \subseteq clauses[r].lits /\ clauses[r].watched # {}
  BY <1>1, <1>3, ClauseLits DEF ClausesOK, IsPair
<1>5. \A x \in clauses[r].lits : IsTrue(x) => x \in clauses'[r].lits
  BY <1>1, <1>3, <1>4 DEF PositionsOK, IsTrue, IsFalse
<1>6. CASE clauses'[r].watched = clauses[r].watched
  BY <1>1, <1>3, <1>5, <1>6, StaysExamined
<1>7. CASE clauses'[r].watched \in SortedPairs(clauses'[r].lits)
  <2>0. PICK lits \in SUBSET Lits : lits = clauses'[r].lits
    BY <1>4
  <2>1. PICK a \in lits : a \in S /\ (IsFalse(a) => \A l \in lits : IsFalse(l))
    <3>1. S \in SortedPairs(lits)
      BY <1>7, <2>0
    <3> QED
      BY <1>1, <3>1, SortedPairFacts
  <2>2. ~ IsFalse(a)
    <3>1. SUFFICES ASSUME IsFalse(a) PROVE FALSE
      OBVIOUS
    <3>2. \A l \in clauses[r].lits : IsFalse(l) /\ ~ IsTrue(l)
      BY <1>1, <1>3, <1>4, <2>0, <2>1, <3>1 DEF PositionsOK, IsTrue, IsFalse
    <3> QED
      BY <1>1, <1>3, <1>4, <3>2, ExaminedAtRest
  <2>3. ~ IsFalse(a)'
    BY <1>1, <2>2 DEF IsFalse, Assigned
  <2> QED
    BY <2>1, <2>3 DEF ExaminedFor, FalseUpTo
<1> QED
  BY <1>3, <1>6, <1>7

\* A pair in a pair is the same.
LEMMA SamePair == ASSUME NEW S, IsPair(S), NEW T, IsPair(T), S \subseteq T PROVE S = T
BY DEF IsPair

\* No clause is false of which the watched literals have been propagated.
Examined == \A r \in Live : ExaminedFor(r, clauses[r].watched)

\* The solver is not called again after a conflict at level 0: it would go on with
\* a clause that is false where propagation has been.
Proper == Regular /\ (Call => conflict = NOREF)

\* Every proper step leaves each clause with watches that are not both false where
\* propagation has been, unless it is satisfied for as long as they are.
LEMMA StepExamined ==
    ASSUME InductiveInvariant, Examined, Proper, [Next]_vars
    PROVE  Examined'
<1> SUFFICES ASSUME NEW r \in Live', NEW S, S = clauses'[r].watched
             PROVE  ExaminedFor(r, S)'
  <2>1. ASSUME NEW r \in Live' PROVE ExaminedFor(r, clauses[r].watched)'
    <3>1. PICK S : S = clauses'[r].watched
      OBVIOUS
    <3>2. ExaminedFor(r, S)'
      BY <3>1
    <3> QED
      BY <3>1, <3>2
  <2> QED
    BY <2>1 DEF Examined
<1>1. /\ Core /\ Core' /\ Regular /\ (Call => conflict = NOREF)
      /\ ClausesOK /\ ClausesOK'
  BY StepKeepsCore DEF InductiveInvariant, Proper, Core
<1>2. IsPair(S) /\ S # {} /\ S \subseteq clauses'[r].lits
  BY <1>1 DEF ClausesOK, IsPair
<1>3. ASSUME r \in Live
      PROVE  /\ ExaminedFor(r, clauses[r].watched) /\ IsPair(clauses[r].watched)
             /\ clauses[r].watched \in SUBSET Lits
             /\ S \subseteq clauses[r].watched => ExaminedFor(r, S)
  <2>1. PICK T : T = clauses[r].watched
    OBVIOUS
  <2>2. ExaminedFor(r, T) /\ IsPair(T)
    BY <1>1, <1>3, <2>1 DEF Examined, ClausesOK
  <2>3. T \in SUBSET Lits
    BY <1>1, <1>3, <2>1, WatchedInLits
  <2> QED
    BY <1>2, <2>1, <2>2, <2>3, SamePair
<1>4. CASE \/ Call \/ Analyze \/ Resolve \/ RootDone \/ AllAssigned \/ Reduce \/ Restart
           \/ Decide \/ FailAssumption \/ Terminating \/ UNCHANGED vars
  <2>1. clauses' = clauses
    BY <1>4 DEF Call, Analyze, Resolve, RootDone, AllAssigned, Reduce, Restart, Decide,
                FailAssumption, Terminating, vars, search
  <2>2. r \in Live /\ S \in SUBSET Lits /\ ExaminedFor(r, S)
    BY <1>3, <2>1 DEF Live
  <2>3. \/ Call \/ Analyze \/ Resolve \/ RootDone \/ AllAssigned \/ Reduce \/ Restart
        \/ Decide \/ FailAssumption \/ UNCHANGED vars
    BY <1>4 DEF Terminating
  <2> QED
    BY <1>1, <2>2, <2>3, SameClausesExamined
<1>5. CASE NextLiteral
  <2>1. clauses' = clauses
    BY <1>5 DEF NextLiteral
  <2>2. r \in Live /\ ExaminedFor(r, S)
    BY <1>3, <2>1 DEF Live
  <2> QED
    BY <1>1, <1>2, <1>5, <2>1, <2>2, NextLiteralExamined
<1>6. CASE VisitWatch
  <2>1. S \subseteq clauses[r].watched => ExaminedFor(r, S)
    <3>1. Live' = Live
      BY <1>1, <1>6, VisitWatchStep DEF VisitsTo
    <3> QED
      BY <1>3, <3>1
  <2> QED
    BY <1>1, <1>6, <2>1, VisitWatchExamined
<1>7. CASE ChronoAnalyze
  <2>1. r \in Live
    <3>1. CASE Highest(clauses[conflict].lits) = 0
      <4>1. clauses' = clauses
        BY <1>7, <3>1 DEF ChronoAnalyze, search
      <4> QED
        BY <4>1 DEF Live
    <3>2. CASE Highest(clauses[conflict].lits) # 0
      BY <1>1, <1>7, <3>2, ChronoFacts
    <3> QED
      BY <3>1, <3>2
  <2> QED
    BY <1>1, <1>2, <1>3, <1>7, <2>1, ChronoAnalyzeExamined
<1>8. CASE Strengthen
  <2>1. r \in Live
    <3>1. PICK p, q, first, second, lits :
              StrengthenedTo(p, q, first, second, lits)
      BY <1>1, <1>8, StrengthenFacts
    <3> QED
      BY <3>1 DEF StrengthenedTo, Live
  <2> QED
    BY <1>1, <1>3, <1>8, <2>1, StrengthenExamined
<1>9. CASE Learn
  BY <1>1, <1>2, <1>3, <1>9, LearnExamined
<1>10. CASE ReduceLearnts
  <2>1. \E q \in Learnt : ~ Shrunk[q].deleted
    BY <1>1, <1>10 DEF Regular
  <2>2. PICK T : T = clauses[r].watched
    OBVIOUS
  <2> QED
    BY <1>1, <1>3, <1>10, <2>1, <2>2, ReduceLearntsExamined
<1> QED
  BY <1>4, <1>5, <1>6, <1>7, <1>8, <1>9, <1>10 DEF Next

\* There is a position of the trail for each variable at most, and if there are as
\* many positions as variables all are assigned.
LEMMA TrailSize ==
    ASSUME TrailOK
    PROVE  Len(trail) <= NumVars /\ (Len(trail) = NumVars => \A l \in Lits : ~ Unassigned(l))
<1>1. PositionsOK /\ Len(trail) \in Nat
  BY PositionsHold, Levels
<1>2. PICK n \in Nat : n = Len(trail)
  BY <1>1
<1> DEFINE var(l) == IF l > 0 THEN l ELSE -l
<1>3. \A l \in Lits : var(l) \in Vars /\ l \in {var(l), -var(l)}
  BY NumVarsAssumption DEF Lits, Vars
<1>4. \A i \in 1 .. n : trail[i].lit \in Lits
  BY <1>1, <1>2 DEF PositionsOK
<1>5. PICK f : f = [i \in 1 .. n |-> var(trail[i].lit)]
  OBVIOUS
<1>6. f \in [1 .. n -> Vars] /\ \A i \in 1 .. n : trail[i].lit \in {f[i], -f[i]}
  BY <1>3, <1>4, <1>5
<1>7. ASSUME NEW i \in 1 .. n, NEW k \in 1 .. n, f[i] = f[k] PROVE i = k
  <2>1. trail[i].lit \in {trail[k].lit, -trail[k].lit}
    BY <1>4, <1>6, <1>7, Negation
  <2> QED
    BY <1>2, <2>1 DEF TrailOK
<1>8. f \in Injection(1 .. n, Vars)
  BY <1>6, <1>7 DEF Injection, IsInjective
<1>9. IsFiniteSet(Vars) /\ Cardinality(Vars) = NumVars /\ Cardinality(1 .. n) = n
  <2>1. Cardinality(1 .. NumVars) = NumVars /\ IsFiniteSet(1 .. NumVars)
    BY NumVarsAssumption, FS_Interval
  <2>2. Cardinality(1 .. n) = n
    BY FS_Interval
  <2> QED
    BY <2>1, <2>2 DEF Vars
<1>10. n <= NumVars /\ (n = NumVars => f \in Surjection(1 .. n, Vars))
  BY <1>8, <1>9, FS_Injection
<1>11. ASSUME n = NumVars, NEW l \in Lits PROVE ~ Unassigned(l)
  <2>1. PICK i \in 1 .. n : f[i] = var(l)
    BY <1>3, <1>10, <1>11 DEF Surjection
  <2>2. trail[i].lit \in {l, -l} /\ i \in DOMAIN trail
    BY <1>2, <1>3, <1>6, <2>1, Negation
  <2> QED
    BY <2>2 DEF Unassigned, Assigned
<1> QED
  BY <1>2, <1>10, <1>11

\* When all is assigned and no clause is false, the assignment is a model.
LEMMA AllAssignedModel ==
    ASSUME Core, Examined, PropagationDone, Len(trail) = NumVars
    PROVE  Assigned \in Models
<1>1. TrailOK /\ PositionsOK /\ ClausesOK /\ \A l \in Lits : ~ Unassigned(l)
  BY TrailSize, PositionsHold DEF Core
<1>2. Assigned \in Assignments
  <2>1. PICK on : on = Assigned \cap Vars
    OBVIOUS
  <2>2. Assigned \subseteq on \cup {-v : v \in Vars \ on}
    <3>1. ASSUME NEW l \in Assigned, l \notin Vars PROVE \E v \in Vars \ on : l = -v
      <4>1. PICK v \in Vars : l = -v
        BY <1>1, <3>1 DEF PositionsOK, Lits
      <4>2. v \in Lits /\ -v = l
        BY <4>1 DEF Lits
      <4>3. v \notin Assigned
        BY <1>1, <4>2 DEF PositionsOK
      <4> QED
        BY <2>1, <4>1, <4>3
    <3> QED
      BY <2>1, <3>1
  <2>3. \A v \in Vars \ on : -v \in Assigned
    BY <1>1, <2>1 DEF Unassigned, Lits
  <2>4. Assigned = on \cup {-v : v \in Vars \ on}
    BY <2>1, <2>2, <2>3
  <2> QED
    BY <2>1, <2>4 DEF Assignments
<1>3. Roots \subseteq Assigned
  BY DEF Roots, Assigned
<1>4. ASSUME NEW r \in Live PROVE Satisfies(Assigned, clauses[r].lits)
  <2>1. PICK S : S = clauses[r].watched
    OBVIOUS
  <2>2. /\ ExaminedFor(r, S) /\ S # {} /\ S \in SUBSET Lits /\ S \subseteq clauses[r].lits
    BY <1>1, <2>1, WatchedInLits DEF Examined, ClausesOK, IsPair
  <2>3. CASE \A l \in S : IsFalse(l)
    BY <2>2, <2>3, ExaminedAtRest DEF Satisfies, IsTrue
  <2>4. CASE ~ \A l \in S : IsFalse(l)
    <3>1. PICK l \in S : ~ IsFalse(l)
      BY <2>4
    <3>2. l \in Assigned
      BY <1>1, <2>2, <3>1 DEF Unassigned, IsFalse
    <3> QED
      BY <2>2, <3>2 DEF Satisfies
  <2> QED
    BY <2>3, <2>4
<1> QED
  BY <1>2, <1>3, <1>4 DEF Core, Complete

\* When propagation rests no clause is false.
LEMMA NothingFalse ==
    ASSUME Core, Examined, PropagationDone, NEW r \in Live
    PROVE  ~ Falsified(r)
<1>1. PositionsOK /\ ClausesOK
  BY PositionsHold DEF Core
<1>2. PICK S : S = clauses[r].watched
  OBVIOUS
<1>3. /\ ExaminedFor(r, S) /\ S # {} /\ S \in SUBSET Lits /\ S \subseteq clauses[r].lits
  BY <1>1, <1>2, WatchedInLits DEF Examined, ClausesOK, IsPair
<1>4. SUFFICES ASSUME Falsified(r) PROVE FALSE
  OBVIOUS
<1>5. r \in DOMAIN clauses
  BY DEF Live
<1>6. PICK x \in clauses[r].lits : IsTrue(x)
  BY <1>3, <1>4, ExaminedAtRest DEF Falsified
<1>7. x \in Lits /\ IsFalse(x)
  BY <1>1, <1>4, <1>5, <1>6, ClauseLits DEF Falsified
<1> QED
  BY <1>1, <1>6, <1>7 DEF PositionsOK, IsTrue, IsFalse

-----------------------------------------------------------------------------
(***************************************************************************)
(* The levels that belong to assumptions, with or without a decision.      *)
(***************************************************************************)
\* A level that belongs to an assumption has it on the trail, at this level or below,
\* where a backtrack to the level keeps it.
LevelsAssume ==
    \A h \in 1 .. DL : h <= Len(assumptions) =>
        \E i \in 1 .. Len(trail) : trail[i].lit = assumptions[h] /\ trail[i].level <= h

\* Backtracking to a level keeps the assumptions of the levels up to it.
LEMMA BacktrackAssumes ==
    ASSUME TrailOK, LevelsAssume, NEW j \in 0 .. DL, assumptions' = assumptions \/ j = 0,
           NEW enq, NEW new, Enqueued(enq, new, j), Backtrack(j, enq)
    PROVE  LevelsAssume'
<1>1. /\ DL' = j /\ DL \in Nat /\ j \in Nat /\ j <= DL
      /\ Len(trail) \in Nat /\ Cut(j) \in 0 .. Len(trail) /\ trail \in Seq(EntryType)
  BY BacktrackKeepsTrailOK, Levels DEF TrailOK
<1>2. PICK K, g : K = Kept(j) /\ FromTrail(K, g, Len(trail), j)
  BY <1>1, KeptPositions
<1>3. TrailLeft(K, g, enq, new, j) /\ trail' = K \o enq
  BY <1>2, BacktrackedTrail DEF Backtrack
<1>4. Len(K) \in Nat /\ Len(trail') \in Nat /\ Len(K) <= Len(trail')
  <2>1. Len(K) \in Nat /\ (Len(trail') = Len(K) \/ Len(trail') = Len(K) + 1)
    BY <1>3 DEF TrailLeft
  <2> QED
    BY <2>1
<1>5. ASSUME NEW h \in 1 .. j, assumptions' = assumptions, h <= Len(assumptions)
      PROVE  \E i \in 1 .. Len(trail') : trail'[i].lit = assumptions[h] /\ trail'[i].level <= h
  <2>1. h \in 1 .. DL /\ h <= j
    BY <1>1
  <2>2. PICK k \in 1 .. Len(trail) : trail[k].lit = assumptions[h] /\ trail[k].level <= h
    BY <1>5, <2>1 DEF LevelsAssume
  <2>3. trail[k].level \in Nat
    BY Levels
  <2>4. trail[k].level <= j
    BY <1>1, <2>1, <2>2, <2>3
  <2>5. PICK x \in 1 .. Len(K) : g[x] = k
    BY <1>2, <2>4 DEF FromTrail
  <2>6. trail'[x] = trail[k]
    BY <1>3, <2>5 DEF TrailLeft
  <2>7. x \in 1 .. Len(trail')
    BY <1>4
  <2> QED
    BY <2>2, <2>6, <2>7
<1>6. ASSUME NEW h \in 1 .. DL', h <= Len(assumptions')
      PROVE  \E i \in 1 .. Len(trail') : trail'[i].lit = assumptions'[h] /\ trail'[i].level <= h
  <2>1. h \in 1 .. j /\ j # 0
    BY <1>1
  <2>2. assumptions' = assumptions
    BY <2>1
  <2> QED
    BY <1>5, <1>6, <2>1, <2>2
<1> QED
  BY <1>6 DEF LevelsAssume

\* A longer trail holds what it held, and the levels added are those of assumptions that
\* are true, but for the last, which may be that of a decision.
LEMMA LongerAssumes ==
    ASSUME TrailOK, LevelsAssume, assumptions' = assumptions, NEW n \in Nat, DL' = DL + n,
           \/ trail' = trail
           \/ \E e \in EntryType : trail' = Append(trail, e),
           \A h \in DL + 1 .. DL + n : h <= Len(assumptions) =>
               IsTrue(assumptions[h]) \/ \E i \in 1 .. Len(trail') :
                   trail'[i].lit = assumptions[h] /\ trail'[i].level <= h
    PROVE  LevelsAssume'
<1>1. /\ DL \in Nat /\ Len(trail) \in Nat /\ trail \in Seq(EntryType)
      /\ \A i \in 1 .. Len(trail) : trail[i].level \in Nat /\ trail[i].level <= DL
  BY Levels DEF TrailOK
<1>2. \A i \in 1 .. Len(trail) : i \in 1 .. Len(trail') /\ trail'[i] = trail[i]
  BY <1>1
<1>3. ASSUME NEW h \in 1 .. DL', h <= Len(assumptions)
      PROVE  \E i \in 1 .. Len(trail') : trail'[i].lit = assumptions[h] /\ trail'[i].level <= h
  <2>1. CASE h <= DL
    <3>1. h \in 1 .. DL
      BY <1>1, <2>1
    <3>2. PICK i \in 1 .. Len(trail) : trail[i].lit = assumptions[h] /\ trail[i].level <= h
      BY <1>3, <3>1 DEF LevelsAssume
    <3> QED
      BY <1>2, <3>2
  <2>2. CASE ~ (h <= DL)
    <3>1. h \in DL + 1 .. DL + n /\ h \in Nat /\ h > DL
      BY <1>1, <2>2
    <3>2. CASE IsTrue(assumptions[h])
      <4>1. PICK i \in DOMAIN trail : trail[i].lit = assumptions[h]
        BY <3>2 DEF IsTrue, Assigned
      <4>2. i \in 1 .. Len(trail)
        BY <1>1
      <4>3. trail[i].level <= h
        BY <1>1, <3>1, <4>2
      <4> QED
        BY <1>2, <4>1, <4>2, <4>3
    <3> QED
      BY <1>3, <3>1, <3>2
  <2> QED
    BY <2>1, <2>2
<1> QED
  BY <1>3 DEF LevelsAssume

\* The assumptions that are not pending are true.
LEMMA NotPending ==
    ASSUME TrailOK, assumptions \in Seq(Lits)
    PROVE  /\ Pending = {} => \A h \in DL + 1 .. Len(assumptions) : IsTrue(assumptions[h])
           /\ Pending # {} => \A h \in DL + 1 .. Min(Pending) - 1 : IsTrue(assumptions[h])
<1>1. DL \in Nat /\ Len(assumptions) \in Nat
  BY Levels
<1>2. Pending = {} => \A h \in DL + 1 .. Len(assumptions) : IsTrue(assumptions[h])
  BY DEF Pending
<1>3. ASSUME Pending # {}, NEW h \in DL + 1 .. Min(Pending) - 1
      PROVE  IsTrue(assumptions[h])
  <2>1. Pending \in SUBSET Nat
    BY <1>1 DEF Pending
  <2>2. Min(Pending) \in Nat /\ Min(Pending) <= Len(assumptions) /\ \A x \in Pending : Min(Pending) <= x
    BY <1>3, <2>1, PendingFacts, LeastOf
  <2>3. h \notin Pending /\ h \in DL + 1 .. Len(assumptions)
    BY <1>1, <2>1, <2>2
  <2> QED
    BY <2>3 DEF Pending
<1> QED
  BY <1>2, <1>3

\* The levels that incDL adds begin at the end of the trail.
LEMMA AddedLevels ==
    ASSUME TrailOK, NEW n \in Nat, dlevels' = IncDL(n)
    PROVE  /\ DL' = DL + n /\ DL \in Nat
           /\ \A h \in 1 .. DL' : dlevels'[h] = IF h <= DL THEN dlevels[h] ELSE Len(trail)
<1>1. DL \in Nat /\ dlevels \in Seq(Nat) /\ Len(trail) \in Nat /\ DL = Len(dlevels)
  BY Levels DEF TrailOK, DL
<1>2. PICK more : more = [i \in 1 .. n |-> Len(trail)]
  OBVIOUS
<1>3. more \in Seq(Nat) /\ Len(more) = n /\ \A i \in 1 .. n : more[i] = Len(trail)
  BY <1>1, <1>2
<1>4. dlevels' = dlevels \o more
  BY <1>2 DEF IncDL
<1>5. dlevels \in Seq(Nat) /\ Len(dlevels) = DL /\ DL \in Nat
  BY <1>1
<1>6. /\ Len(dlevels \o more) = DL + n
      /\ \A h \in 1 .. DL : (dlevels \o more)[h] = dlevels[h]
      /\ \A h \in DL + 1 .. DL + n : (dlevels \o more)[h] = more[h - DL]
  BY <1>3, <1>5
<1>7. DL' = DL + n
  BY <1>4, <1>6 DEF DL
<1>8. ASSUME NEW h \in 1 .. DL'
      PROVE  dlevels'[h] = IF h <= DL THEN dlevels[h] ELSE Len(trail)
  <2>1. CASE h <= DL
    <3>1. h \in 1 .. DL
      BY <1>5, <1>7, <2>1
    <3> QED
      BY <1>4, <1>6, <2>1, <3>1
  <2>2. CASE ~ (h <= DL)
    <3>1. h - DL \in 1 .. n /\ h \in DL + 1 .. DL + n
      BY <1>5, <1>7, <2>2
    <3> QED
      BY <1>3, <1>4, <1>6, <2>2, <3>1
  <2> QED
    BY <2>1, <2>2
<1> QED
  BY <1>5, <1>7, <1>8

\* A decision leaves behind the levels of assumptions that are true, or is the next one.
LEMMA DecideAssumes == Core /\ LevelsAssume /\ Decide => LevelsAssume'
<1> SUFFICES ASSUME Core, LevelsAssume, Decide PROVE LevelsAssume'
  OBVIOUS
<1> DEFINE levels == IF Pending # {} THEN Min(Pending) - 1 ELSE Max({DL, Len(assumptions)})
           n == levels + 1 - DL
<1>1. /\ TrailOK /\ DL \in Nat /\ assumptions \in Seq(Lits) /\ Len(assumptions) \in Nat
      /\ Len(trail) \in Nat /\ trail \in Seq(EntryType) /\ assumptions' = assumptions
  <2>1. TrailOK /\ assumptions \in Seq(Lits) /\ assumptions' = assumptions
    BY DEF Core, RestOK, Decide, call
  <2>2. trail \in Seq(EntryType)
    BY <2>1 DEF TrailOK
  <2> QED
    BY <2>1, <2>2, Levels
<1>2. PICK l \in IF Pending # {} THEN {assumptions[Min(Pending)]} ELSE Lits :
          trail' = Append(trail, Entry(l, levels + 1, NOREF))
  BY DEF Decide
<1>3. dlevels' = IncDL(n)
  BY DEF Decide
<1>4. /\ levels \in Nat /\ levels >= DL /\ l \in Lits
      /\ Pending # {} => levels + 1 = Min(Pending) /\ l = assumptions[Min(Pending)]
      /\ Pending = {} => levels >= Len(assumptions)
  <2>1. CASE Pending # {}
    BY <1>1, <1>2, <2>1, PendingFacts
  <2>2. CASE Pending = {}
    BY <1>1, <1>2, <2>2, MaxOfTwo
  <2> QED
    BY <2>1, <2>2
<1> HIDE DEF levels
<1>5. n \in Nat /\ DL + n = levels + 1
  BY <1>1, <1>4
<1> HIDE DEF n
<1>6. DL' = DL + n
  BY <1>1, <1>3, <1>5, AddedLevels
<1>7. PICK e : e = Entry(l, levels + 1, NOREF)
  OBVIOUS
<1>8. e \in EntryType /\ e.lit = l /\ e.level = levels + 1 /\ trail' = Append(trail, e)
  BY <1>2, <1>4, <1>7 DEF Entry, EntryType, NOREF
<1>9. Len(trail) + 1 \in 1 .. Len(trail') /\ trail'[Len(trail) + 1] = e
  BY <1>1, <1>8
<1>10. ASSUME NEW h \in DL + 1 .. DL + n, h <= Len(assumptions)
       PROVE  IsTrue(assumptions[h]) \/ \E i \in 1 .. Len(trail') :
                  trail'[i].lit = assumptions[h] /\ trail'[i].level <= h
  <2>1. h \in Nat /\ h > DL /\ h <= levels + 1
    BY <1>1, <1>4, <1>5
  <2>2. CASE Pending = {}
    BY <1>1, <1>10, <2>1, <2>2, NotPending
  <2>3. CASE Pending # {} /\ h = levels + 1
    BY <1>4, <1>8, <1>9, <2>1, <2>3
  <2>4. CASE Pending # {} /\ h # levels + 1
    <3>1. h \in DL + 1 .. Min(Pending) - 1
      BY <1>1, <1>4, <2>1, <2>4
    <3> QED
      BY <1>1, <2>4, <3>1, NotPending
  <2> QED
    BY <2>2, <2>3, <2>4
<1>11. \E f \in EntryType : trail' = Append(trail, f)
  BY <1>8
<1> QED
  BY <1>1, <1>5, <1>6, <1>10, <1>11, LongerAssumes

\* A failed assumption leaves behind the levels of those that are true.
LEMMA FailAssumptionAssumes == Core /\ LevelsAssume /\ FailAssumption => LevelsAssume'
<1> SUFFICES ASSUME Core, LevelsAssume, FailAssumption PROVE LevelsAssume'
  OBVIOUS
<1>1. /\ TrailOK /\ DL \in Nat /\ assumptions \in Seq(Lits) /\ Len(assumptions) \in Nat
      /\ UNCHANGED <<assumptions, trail>> /\ Pending # {}
  BY Levels DEF Core, RestOK, FailAssumption
<1>2. PICK n : n = Min(Pending) - 1 - DL
  OBVIOUS
<1>3. n \in Nat /\ DL + n = Min(Pending) - 1 /\ dlevels' = IncDL(n)
  BY <1>1, <1>2, PendingFacts DEF FailAssumption
<1>4. DL' = DL + n
  BY <1>1, <1>3, AddedLevels
<1>5. \A h \in DL + 1 .. DL + n : IsTrue(assumptions[h])
  BY <1>1, <1>3, NotPending
<1> QED
  BY <1>1, <1>3, <1>4, <1>5, LongerAssumes

\* What a visit implies takes nothing away.
LEMMA VisitWatchAssumes == Core /\ LevelsAssume /\ VisitWatch => LevelsAssume'
<1> SUFFICES ASSUME Core, LevelsAssume, VisitWatch PROVE LevelsAssume'
  OBVIOUS
<1>1. PICK w \in visiting :
           \/ Satisfied(w) \/ ClauseDeleted(w) \/ VisitBinary(w)
           \/ OtherTrue(w) \/ FindLiteral(w) \/ OthersFalse(w)
  BY DEF VisitWatch
<1>2. /\ TrailOK /\ DL \in Nat /\ trail \in Seq(EntryType) /\ Len(trail) \in Nat
      /\ assumptions' = assumptions /\ DL' = DL
  <2>1. TrailOK /\ assumptions' = assumptions /\ DL' = DL
    BY DEF Core, VisitWatch, DL
  <2>2. trail \in Seq(EntryType)
    BY <2>1 DEF TrailOK
  <2> QED
    BY <2>1, <2>2, Levels
<1>3. trail' = trail \/ \E e : trail' = Append(trail, e)
  BY <1>1 DEF Satisfied, ClauseDeleted, VisitBinary, OtherTrue, FindLiteral, OthersFalse,
              Block, Conflicting
<1>4. \A i \in 1 .. Len(trail) : i \in 1 .. Len(trail') /\ trail'[i] = trail[i]
  BY <1>2, <1>3
<1> QED
  BY <1>2, <1>4 DEF LevelsAssume

\* Learn backtracks and enqueues a literal that belongs to a level that is left.
LEMMA LearnBacktracks ==
    ASSUME Core, Learn
    PROVE  /\ assumptions' = assumptions
           /\ \E j \in 0 .. DL : \E enq, new : Enqueued(enq, new, j) /\ Backtrack(j, enq)
<1>1. PICK l \in Lits, rest \in SUBSET Lits, j \in 0 .. DL : Learns(l, rest, j, Len(clauses) + 1)
  BY LearnFacts
<1>2. TrailOK /\ DL \in Nat /\ assumptions' = assumptions /\ Len(clauses) \in Nat
  BY Levels DEF Core, ClausesOK, Learn, call
<1>3. PICK e : e = IF rest = {} THEN Entry(l, 0, NOREF) ELSE Entry(l, j, Len(clauses) + 1)
  OBVIOUS
<1>4. Backtrack(j, <<e>>) /\ LevelOf(l) = DL /\ j < DL
  BY <1>1, <1>3 DEF Learns
<1>5. e \in EntryType /\ e.lit = l /\ e.level <= j /\ (e.source = NOREF => e.level = 0)
  BY <1>2, <1>3, <1>4 DEF Entry, EntryType, NOREF
<1>6. Enqueued(<<e>>, {e}, j)
  BY <1>2, <1>4, <1>5 DEF Enqueued
<1> QED
  BY <1>2, <1>4, <1>6

\* chronoAnalyze backtracks, unless the conflict is at level 0.
LEMMA ChronoBacktracks ==
    ASSUME Core, ChronoAnalyze
    PROVE  \/ UNCHANGED <<assumptions, trail, dlevels>>
           \/ /\ assumptions' = assumptions
              /\ \E j \in 0 .. DL : \E enq, new : Enqueued(enq, new, j) /\ Backtrack(j, enq)
<1>1. /\ TrailOK /\ DL \in Nat /\ assumptions' = assumptions
      /\ conflict \in DOMAIN clauses /\ conflict \in Nat
      /\ clauses[conflict].lits \in SUBSET Lits
  BY Levels, ConflictFacts DEF Core, ClausesOK, ChronoAnalyze, Analyzing
<1>2. CASE Highest(clauses[conflict].lits) = 0
  BY <1>1, <1>2 DEF ChronoAnalyze, search
<1>3. CASE Highest(clauses[conflict].lits) # 0
  <2>1. PICK c : c = clauses[conflict].lits
    OBVIOUS
  <2>2. PICK level \in 1 .. DL :
            /\ \A l \in c : ~ Unassigned(l) /\ l \in Lits
            /\ \/ \E l \in c :
                      /\ LevelOf(l) = level /\ \A k \in c \ {l} : LevelOf(k) <= level - 1
                      /\ Backtrack(level - 1, <<Implied(l, conflict)>>)
               \/ Backtrack(level, <<>>)
    BY <1>3, <2>1, ChronoFacts
  <2>3. level - 1 \in 0 .. DL /\ level \in 0 .. DL /\ level \in Nat /\ level > 0
    BY <1>1
  <2>4. ASSUME Backtrack(level, <<>>)
        PROVE  \E j \in 0 .. DL : \E enq, new : Enqueued(enq, new, j) /\ Backtrack(j, enq)
    <3>1. Enqueued(<<>>, {}, level)
      BY DEF Enqueued
    <3> QED
      BY <2>3, <2>4, <3>1
  <2>5. ASSUME NEW l \in c, LevelOf(l) = level, \A k \in c \ {l} : LevelOf(k) <= level - 1,
               Backtrack(level - 1, <<Implied(l, conflict)>>)
        PROVE  \E j \in 0 .. DL : \E enq, new : Enqueued(enq, new, j) /\ Backtrack(j, enq)
    <3>1. PICK others : others = c \ {l}
      OBVIOUS
    <3>2. /\ others \in SUBSET Lits /\ \A k \in others : ~ Unassigned(k)
      BY <1>1, <2>1, <2>2, <3>1
    <3>3. PICK hi : hi = Highest(others)
      OBVIOUS
    <3>4. hi \in Nat /\ (hi = 0 \/ \E k \in others : LevelOf(k) = hi)
      BY <1>1, <3>2, <3>3, HighestFacts
    <3>5. hi <= level - 1
      BY <2>3, <2>5, <3>1, <3>4
    <3>6. PICK e : e = Implied(l, conflict)
      OBVIOUS
    <3>7. e \in EntryType /\ e.lit = l /\ e.level = hi /\ e.source = conflict /\ conflict # NOREF
      BY <1>1, <2>1, <2>2, <3>1, <3>3, <3>4, <3>6 DEF Implied, Entry, EntryType, NOREF, ClausesOK, Core
    <3>8. Enqueued(<<e>>, {e}, level - 1) /\ Backtrack(level - 1, <<e>>)
      BY <2>3, <2>5, <3>5, <3>6, <3>7 DEF Enqueued
    <3> QED
      BY <2>3, <3>8
  <2> QED
    BY <1>1, <2>2, <2>4, <2>5
<1> QED
  BY <1>2, <1>3

\* Every step keeps the assumptions of the levels on the trail.
LEMMA StepAssumes ==
    ASSUME Core, LevelsAssume, [Next]_vars
    PROVE  LevelsAssume'
<1>1. TrailOK /\ 0 \in 0 .. DL /\ \A j : Enqueued(<<>>, {}, j)
  BY Levels DEF Core, Enqueued
<1>2. CASE Call
  <2>1. Backtrack(0, <<>>)
    BY <1>2 DEF Call
  <2> QED
    BY <1>1, <2>1, BacktrackAssumes
<1>3. CASE NextLiteral \/ Analyze \/ Resolve \/ Strengthen \/ RootDone \/ AllAssigned
           \/ ReduceLearnts \/ Terminating \/ UNCHANGED vars
  <2>1. UNCHANGED <<assumptions, trail, dlevels>>
    BY <1>3 DEF NextLiteral, Analyze, Resolve, Strengthen, RootDone, AllAssigned,
                ReduceLearnts, Terminating, vars, search, call
  <2> QED
    BY <2>1 DEF LevelsAssume, DL
<1>4. CASE Reduce \/ Restart
  <2>1. assumptions' = assumptions
    BY <1>4 DEF Reduce, Restart, call
  <2>2. (\E j \in 0 .. DL : Backtrack(j, <<>>)) \/ UNCHANGED <<trail, dlevels>>
    BY <1>1, <1>4 DEF Reduce, Restart
  <2>3. CASE \E j \in 0 .. DL : Backtrack(j, <<>>)
    BY <1>1, <2>1, <2>3, BacktrackAssumes
  <2>4. CASE UNCHANGED <<trail, dlevels>>
    BY <2>1, <2>4 DEF LevelsAssume, DL
  <2> QED
    BY <2>2, <2>3, <2>4
<1>5. CASE Learn \/ ChronoAnalyze
  <2>1. \/ UNCHANGED <<assumptions, trail, dlevels>>
        \/ /\ assumptions' = assumptions
           /\ \E j \in 0 .. DL : \E enq, new : Enqueued(enq, new, j) /\ Backtrack(j, enq)
    BY <1>5, LearnBacktracks, ChronoBacktracks
  <2>2. CASE UNCHANGED <<assumptions, trail, dlevels>>
    BY <2>2 DEF LevelsAssume, DL
  <2>3. CASE /\ assumptions' = assumptions
             /\ \E j \in 0 .. DL : \E enq, new : Enqueued(enq, new, j) /\ Backtrack(j, enq)
    BY <1>1, <2>3, BacktrackAssumes
  <2> QED
    BY <2>1, <2>2, <2>3
<1> QED
  BY <1>2, <1>3, <1>4, <1>5, VisitWatchAssumes, DecideAssumes, FailAssumptionAssumes DEF Next

\* A level is always that of an assumption on the trail, or of a decision.
LEMMA LevelsAssumeHolds == Spec /\ [][Regular]_vars => []LevelsAssume
<1>1. Init => LevelsAssume
  BY DEF Init, LevelsAssume, DL
<1>2. InductiveInvariant /\ LevelsAssume /\ [Next]_vars => LevelsAssume'
  BY StepAssumes DEF InductiveInvariant
<1> QED
  BY <1>1, <1>2, InvariantHolds, PTL DEF Spec

-----------------------------------------------------------------------------
(***************************************************************************)
(* Answers of sat, and the promise of a solver.                            *)
(***************************************************************************)
\* What a step does to the answer.
Asks == cnfstate' = "unsolved" /\ problem' = problem

AnswersWith(state) ==
    /\ pc # "idle" /\ pc' = "idle" /\ cnfstate' = state
    /\ UNCHANGED <<problem, assumptions>>

Goes == pc # "idle" /\ pc' # "idle" /\ UNCHANGED <<cnfstate, problem, assumptions>>

\* Only the end of a search answers, and only AllAssigned with sat.
LEMMA StepAnswers ==
    ASSUME Next
    PROVE  \/ Asks
           \/ AllAssigned /\ AnswersWith("sat")
           \/ AnswersWith("unsat")
           \/ Goes
           \/ UNCHANGED vars
<1>1. CASE Call
  BY <1>1 DEF Call, Asks
<1>2. CASE AllAssigned
  BY <1>2 DEF AllAssigned, AnswersWith, Answer, Quiescent
<1>3. CASE FailAssumption
  BY <1>3 DEF FailAssumption, AnswersWith, Answer, Quiescent
<1>4. CASE VisitWatch
  <2>1. PICK w \in visiting :
            \/ Satisfied(w) \/ ClauseDeleted(w) \/ VisitBinary(w)
            \/ OtherTrue(w) \/ FindLiteral(w) \/ OthersFalse(w)
    BY <1>4 DEF VisitWatch
  <2>2. pc # "idle" /\ UNCHANGED <<problem, assumptions>>
    BY <1>4 DEF VisitWatch, Propagating
  <2>3. Quiet \/ Conflicting(w)
    BY <2>1 DEF Satisfied, ClauseDeleted, VisitBinary, OtherTrue, FindLiteral, OthersFalse, Block
  <2> QED
    BY <2>2, <2>3 DEF Quiet, Conflicting, AnswersWith, Goes, Answer
<1>5. CASE ChronoAnalyze \/ Analyze
  BY <1>5 DEF ChronoAnalyze, Analyze, StartUip, Answer, AnswersWith, Goes
<1>6. CASE NextLiteral \/ Resolve \/ Strengthen \/ Learn
  BY <1>6 DEF NextLiteral, Resolve, Strengthen, Learn, Goes, Propagating, call
<1>7. CASE RootDone \/ Reduce \/ ReduceLearnts \/ Restart \/ Decide
  BY <1>7 DEF RootDone, Reduce, ReduceLearnts, Restart, Decide, Goes, Quiescent, call
<1>8. CASE Terminating
  BY <1>8 DEF Terminating
<1> QED
  BY <1>1, <1>2, <1>3, <1>4, <1>5, <1>6, <1>7, <1>8 DEF Next

\* The answer is open while the search goes on, and sat comes with a model.
SatFollows ==
    /\ pc # "idle" => cnfstate = "unsolved"
    /\ cnfstate = "sat" => Assigned \in Models

\* Every proper step keeps it that the answer sat comes with a model.
LEMMA StepSatFollows ==
    ASSUME InductiveInvariant, Examined, SatFollows, [Next]_vars
    PROVE  SatFollows'
<1>1. CASE Asks
  BY <1>1 DEF Asks, SatFollows
<1>2. CASE AllAssigned /\ AnswersWith("sat")
  <2>1. Assigned \in Models
    BY <1>2, AllAssignedModel DEF InductiveInvariant, AllAssigned, Quiescent
  <2>2. Assigned' = Assigned /\ Models' = Models /\ pc' = "idle"
    BY <1>2 DEF AllAssigned, AnswersWith, search, Assigned, Models
  <2> QED
    BY <2>1, <2>2 DEF SatFollows
<1>3. CASE AnswersWith("unsat") \/ Goes
  BY <1>3 DEF AnswersWith, Goes, SatFollows
<1>4. CASE UNCHANGED vars
  <2>1. Assigned' = Assigned /\ Models' = Models /\ UNCHANGED <<pc, cnfstate>>
    BY <1>4 DEF vars, search, call, Assigned, Models
  <2> QED
    BY <2>1 DEF SatFollows
<1> QED
  BY <1>1, <1>2, <1>3, <1>4, StepAnswers

\* In the beginning nothing has been propagated.
LEMMA InitExamined == Init => Examined /\ SatFollows
<1> SUFFICES ASSUME Init PROVE Examined /\ SatFollows
  OBVIOUS
<1>1. propagated = 0 /\ pc = "idle" /\ cnfstate = "unsolved"
  BY DEF Init
<1>2. \A p : ~ Looked(p)
  BY <1>1 DEF Looked
<1> QED
  BY <1>1, <1>2 DEF Examined, ExaminedFor, SatFollows

\* A step that changes nothing.
LEMMA StutterExamined == Examined /\ UNCHANGED vars => Examined'
<1> SUFFICES ASSUME Examined, UNCHANGED vars, NEW r \in Live' PROVE ExaminedFor(r, clauses[r].watched)'
  BY DEF Examined
<1>1. UNCHANGED <<clauses, trail, propagated, dlevels, visiting, conflict>>
  BY DEF vars, search
<1>2. PICK S : S = clauses[r].watched
  OBVIOUS
<1>3. r \in Live /\ ExaminedFor(r, S)
  BY <1>1, <1>2 DEF Live, Examined
<1>4. ExaminedFor(r, S)'
  BY <1>1, <1>3, StaysExamined
<1> QED
  BY <1>1, <1>2, <1>4

\* Both hold in every proper behaviour.
LEMMA ExaminedHolds == Spec /\ [][Proper]_vars => [](InductiveInvariant /\ Examined /\ SatFollows)
<1>1. InductiveInvariant /\ Examined /\ SatFollows /\ [Next]_vars /\ [Proper]_vars
          => Examined' /\ SatFollows'
  BY StepExamined, StutterExamined, StepSatFollows
<1>2. [Proper]_vars => [Regular]_vars
  BY DEF Proper
<1> QED
  BY <1>1, <1>2, InvariantHolds, InitExamined, PTL DEF Spec

\* What is reported as a model is one.
THEOREM SatIsRight == Spec /\ [][Proper]_vars => []ModelsSatisfyFormula
<1>1. SatFollows => ModelsSatisfyFormula
  BY DEF SatFollows, ModelsSatisfyFormula
<1> QED
  BY <1>1, ExaminedHolds, PTL

\* Every step does what a solver promises.
LEMMA StepPromises ==
    ASSUME InductiveInvariant, UnsatFollows', SatFollows, SatFollows', LevelsAssume', [Next]_vars
    PROVE  [Promise!Next]_<<Models, assumptions, TrustedAnswer,
                            IF cnfstate = "sat" THEN Assigned ELSE {}>>
<1>1. problem' = problem => Models' = Models
  BY DEF Models
<1>2. CASE Asks
  BY <1>1, <1>2 DEF Asks, TrustedAnswer, Promise!Next, Promise!Ask
<1>3. CASE AllAssigned /\ AnswersWith("sat")
  <2>1. /\ cnfstate = "unsolved" /\ cnfstate' = "sat" /\ UNCHANGED <<Models, assumptions>>
        /\ TrustedAnswer = "unsolved"
    BY <1>1, <1>3 DEF SatFollows, AnswersWith, TrustedAnswer
  <2>2. Assigned' \in Models
    BY <2>1 DEF SatFollows
  <2>3. CASE AllAssumed'
    <3>1. TrustedAnswer' = "sat"
      BY <2>1, <2>3 DEF TrustedAnswer
    <3>2. ASSUME NEW i \in DOMAIN assumptions PROVE assumptions[i] \in Assigned'
      <4>1. i \in 1 .. DL' /\ i <= Len(assumptions')
        <5>1. assumptions \in Seq(Lits) /\ assumptions' = assumptions
          BY <2>1 DEF InductiveInvariant, Core, RestOK
        <5> QED
          BY <2>3, <5>1 DEF AllAssumed, DL
      <4>2. PICK k \in 1 .. Len(trail') : trail'[k].lit = assumptions'[i]
        BY <4>1 DEF LevelsAssume
      <4> QED
        BY <2>1, <4>2 DEF Assigned
    <3> QED
      BY <2>1, <2>2, <3>1, <3>2 DEF Promise!Next, Promise!Sat
  <2>4. CASE ~ AllAssumed'
    <3>1. TrustedAnswer' = "partial"
      BY <2>1, <2>4 DEF TrustedAnswer
    <3> QED
      BY <2>1, <2>2, <3>1 DEF Promise!Next, Promise!Partial
  <2> QED
    BY <2>3, <2>4
<1>4. CASE AnswersWith("unsat")
  <2>1. /\ cnfstate = "unsolved" /\ cnfstate' = "unsat" /\ UNCHANGED <<Models, assumptions>>
        /\ TrustedAnswer = "unsolved" /\ TrustedAnswer' = "unsat"
    BY <1>1, <1>4 DEF SatFollows, AnswersWith, TrustedAnswer
  <2>2. \A m \in Models : \E i \in DOMAIN assumptions : assumptions[i] \notin m
    BY <2>1 DEF UnsatFollows
  <2> QED
    BY <2>1, <2>2 DEF Promise!Next, Promise!Unsat
<1>5. CASE Goes
  BY <1>1, <1>5 DEF Goes, SatFollows, TrustedAnswer
<1>6. CASE UNCHANGED vars
  <2>1. UNCHANGED <<problem, assumptions, cnfstate, trail, dlevels>>
    BY <1>6 DEF vars, search, call
  <2>2. TrustedAnswer' = TrustedAnswer
    BY <2>1 DEF TrustedAnswer, AllAssumed, DL
  <2> QED
    BY <1>1, <2>1, <2>2 DEF Assigned
<1> QED
  BY <1>2, <1>3, <1>4, <1>5, <1>6, StepAnswers

\* isolve is what its callers expect of a solver: sat comes with a model of the
\* formula, which satisfies the assumptions if each of them got a level, and after
\* unsat no model satisfies the assumptions.
THEOREM AnswersAreSound == Spec /\ [][Proper]_vars => AnswersSoundly
<1>1. Init => Promise!Init
  BY DEF Init, Promise!Init, TrustedAnswer
<1>2. [Proper]_vars => [Regular]_vars
  BY DEF Proper
<1> QED
  BY <1>1, <1>2, UnsatIsRight, ExaminedHolds, LevelsAssumeHolds, StepPromises, PTL
  DEF Spec, AnswersSoundly, Promise!Spec

-----------------------------------------------------------------------------
(***************************************************************************)
(* Levels in order, and no more than there are decisions and assumptions.  *)
(***************************************************************************)
\* Without chronological backtracking, no literal comes after a decision of a higher
\* level than its own.
InOrder ==
    ~ opts.chrono => \A i \in DOMAIN trail : \A h \in 1 .. DL : i > dlevels[h] => trail[i].level >= h

\* The levels beyond those of the assumptions have decisions, each a literal of its own.
Tall ==
    \A j \in 1 .. DL : j > Len(assumptions) =>
        dlevels[j] < Cut(j) /\ j <= dlevels[j] + Len(assumptions) + 1

Asked == pc # "idle" => \E k \in DOMAIN problem.calls : assumptions = problem.calls[k]

\* What a backtrack leaves, and where it was.
LEMMA LeftByBacktrack ==
    ASSUME TrailOK, NEW j \in 0 .. DL, NEW enq, NEW new, Enqueued(enq, new, j), Backtrack(j, enq)
    PROVE  /\ Len(trail') \in Nat /\ Cut(j) <= Len(trail')
           /\ \A i \in 1 .. Len(trail') :
                  \/ \E k \in 1 .. Len(trail) : trail'[i] = trail[k] /\ (k = i \/ k > Cut(j))
                  \/ \E e \in new : trail'[i] = e
<1>1. /\ trail \in Seq(EntryType) /\ Len(trail) \in Nat /\ j \in Nat
      /\ Cut(j) \in Nat /\ Cut(j) <= Len(trail)
  BY Levels DEF TrailOK
<1>2. PICK K, g : K = Kept(j) /\ FromTrail(K, g, Len(trail), j)
  BY <1>1, KeptPositions
<1>3. TrailLeft(K, g, enq, new, j)
  BY <1>2, BacktrackedTrail
<1>4. trail' = K \o enq
  BY <1>2 DEF Backtrack
<1>5. Len(K) \in Nat /\ Cut(j) <= Len(K) /\ trail' \in Seq(EntryType)
  BY <1>3, <1>4 DEF TrailLeft
<1>6. Len(trail') \in Nat /\ (Len(trail') = Len(K) \/ Len(trail') = Len(K) + 1)
  BY <1>3, <1>4, <1>5 DEF TrailLeft
<1>7. ASSUME NEW i \in 1 .. Len(trail')
      PROVE  \/ \E k \in 1 .. Len(trail) : trail'[i] = trail[k] /\ (k = i \/ k > Cut(j))
             \/ \E e \in new : trail'[i] = e
  <2>1. CASE i <= Len(K)
    <3>1. i \in 1 .. Len(K)
      BY <1>5, <1>6, <2>1
    <3>2. trail'[i] = trail[g[i]] /\ g[i] \in 1 .. Len(trail) /\ (i <= Cut(j) <=> g[i] <= Cut(j))
      BY <1>3, <1>4, <3>1 DEF TrailLeft
    <3>3. i <= Cut(j) => g[i] = i
      BY <1>1, <1>3, <1>6 DEF TrailLeft
    <3> QED
      BY <1>1, <3>2, <3>3
  <2>2. CASE ~ (i <= Len(K))
    <3>1. i = Len(K) + 1 /\ Len(trail') = Len(K) + 1
      BY <1>5, <1>6, <2>2
    <3>2. PICK e \in new : TRUE
      BY <1>3, <1>4, <1>5, <3>1 DEF TrailLeft
    <3>3. trail'[i] = e
      BY <1>3, <1>4, <3>1 DEF TrailLeft
    <3> QED
      BY <3>3
  <2> QED
    BY <2>1, <2>2
<1> QED
  BY <1>1, <1>5, <1>6, <1>7

\* A backtrack keeps the order, if what is enqueued belongs to the level it goes to.
LEMMA BacktrackLevelled ==
    ASSUME TrailOK, InOrder, Tall, opts' = opts, NEW j \in 0 .. DL, assumptions' = assumptions \/ j = 0,
           NEW enq, NEW new, Enqueued(enq, new, j), Backtrack(j, enq),
           ~ opts.chrono => \A e \in new : e.level >= j
    PROVE  InOrder' /\ Tall'
<1>1. /\ DL' = j /\ \A h \in 1 .. j : dlevels'[h] = dlevels[h]
      /\ j \in Nat /\ DL \in Nat /\ j <= DL /\ Len(trail) \in Nat
      /\ Cut(j) \in Nat /\ \A h \in 1 .. j : dlevels[h] \in Nat /\ dlevels[h] <= Cut(j)
      /\ trail' \in Seq(EntryType)
  <2>1. DL' = j /\ TrailOK' /\ \A h \in 1 .. j : dlevels'[h] = dlevels[h]
    BY BacktrackKeepsTrailOK
  <2>2. DL \in Nat /\ Len(trail) \in Nat /\ Cut(j) \in Nat
        /\ (\A h \in 1 .. j : dlevels[h] <= Cut(j)) /\ \A h \in 1 .. DL : dlevels[h] \in Nat
    BY Levels
  <2>3. j \in Nat /\ j <= DL
    BY <2>2
  <2>4. trail' \in Seq(EntryType)
    BY <2>1 DEF TrailOK
  <2> QED
    BY <2>1, <2>2, <2>3, <2>4
<1>2. /\ Len(trail') \in Nat /\ Cut(j) <= Len(trail')
      /\ \A i \in 1 .. Len(trail') :
             \/ \E k \in 1 .. Len(trail) : trail'[i] = trail[k] /\ (k = i \/ k > Cut(j))
             \/ \E e \in new : trail'[i] = e
  BY LeftByBacktrack
<1>3. ASSUME ~ opts.chrono, NEW i \in DOMAIN trail', NEW h \in 1 .. DL', i > dlevels'[h]
      PROVE  trail'[i].level >= h
  <2>1. h \in 1 .. j /\ h \in 1 .. DL /\ dlevels'[h] = dlevels[h] /\ i > dlevels[h]
    BY <1>1, <1>3
  <2>2. i \in 1 .. Len(trail')
    BY <1>1
  <2>3. CASE \E e \in new : trail'[i] = e
    <3>1. PICK e \in new : trail'[i] = e
      BY <2>3
    <3>2. e.level >= j /\ e \in EntryType
      BY <1>3, <3>1 DEF Enqueued
    <3> QED
      BY <1>1, <2>1, <3>1, <3>2 DEF EntryType
  <2>4. CASE \E k \in 1 .. Len(trail) : trail'[i] = trail[k] /\ (k = i \/ k > Cut(j))
    <3>1. PICK k \in 1 .. Len(trail) : trail'[i] = trail[k] /\ (k = i \/ k > Cut(j))
      BY <2>4
    <3>2. k > dlevels[h]
      BY <1>1, <2>1, <3>1
    <3>3. k \in DOMAIN trail
      BY DEF TrailOK
    <3> QED
      BY <1>3, <2>1, <3>1, <3>2, <3>3 DEF InOrder
  <2> QED
    BY <1>2, <2>2, <2>3, <2>4
<1>4. InOrder'
  BY <1>3 DEF InOrder
<1>5. ASSUME NEW h \in 1 .. DL', h > Len(assumptions')
      PROVE  dlevels'[h] < Cut(h)' /\ h <= dlevels'[h] + Len(assumptions') + 1
  <2>1. /\ h \in 1 .. j /\ h \in 1 .. DL /\ assumptions' = assumptions /\ dlevels'[h] = dlevels[h]
        /\ h \in Nat
    BY <1>1, <1>5
  <2>2. dlevels[h] < Cut(h) /\ h <= dlevels[h] + Len(assumptions) + 1
    BY <1>5, <2>1 DEF Tall
  <2>3. Cut(h) <= Cut(h)'
    <3>1. CASE h < j
      <4>1. h + 1 \in 1 .. j /\ h < DL /\ h < DL'
        BY <1>1, <2>1, <3>1
      <4> QED
        BY <1>1, <4>1 DEF Cut
    <3>2. CASE h = j
      <4>1. Cut(h)' = Len(trail')
        BY <1>1, <2>1, <3>2 DEF Cut
      <4> QED
        BY <1>2, <3>2, <4>1
    <3> QED
      BY <1>1, <2>1, <3>1, <3>2
  <2>4. Cut(h) \in Nat /\ dlevels[h] \in Nat
    BY <1>1, <2>1, Levels
  <2>5. Cut(h)' \in Nat
    <3>1. CASE h < j
      <4>1. h + 1 \in 1 .. j /\ h < DL'
        BY <1>1, <2>1, <3>1
      <4> QED
        BY <1>1, <4>1 DEF Cut
    <3>2. CASE h = j
      BY <1>1, <1>2, <2>1, <3>2 DEF Cut
    <3> QED
      BY <1>1, <2>1, <3>1, <3>2
  <2> QED
    BY <2>1, <2>2, <2>3, <2>4, <2>5
<1> QED
  BY <1>4, <1>5 DEF Tall

\* A literal is appended, of the highest level if order is to be kept.
LEMMA AppendLevelled ==
    ASSUME TrailOK, InOrder, Tall, UNCHANGED <<opts, assumptions, dlevels>>,
           NEW e \in EntryType, trail' = Append(trail, e), ~ opts.chrono => e.level >= DL
    PROVE  InOrder' /\ Tall'
<1>1. /\ DL' = DL /\ DL \in Nat /\ Len(trail) \in Nat /\ trail \in Seq(EntryType)
      /\ \A h \in 1 .. DL : dlevels[h] \in Nat /\ Cut(h) \in Nat
  BY Levels DEF TrailOK, DL
<1>2. /\ Len(trail') = Len(trail) + 1 /\ DOMAIN trail' = 1 .. Len(trail) + 1
      /\ trail'[Len(trail) + 1] = e /\ \A i \in 1 .. Len(trail) : trail'[i] = trail[i]
  BY <1>1
<1>3. ASSUME ~ opts.chrono, NEW i \in DOMAIN trail', NEW h \in 1 .. DL', i > dlevels'[h]
      PROVE  trail'[i].level >= h
  <2>1. CASE i \in 1 .. Len(trail)
    BY <1>1, <1>2, <1>3, <2>1 DEF InOrder
  <2>2. CASE i = Len(trail) + 1
    BY <1>1, <1>2, <1>3, <2>2 DEF EntryType
  <2> QED
    BY <1>1, <1>2, <2>1, <2>2
<1>4. \A h \in 1 .. DL : Cut(h)' \in Nat /\ Cut(h) <= Cut(h)'
  BY <1>1, <1>2 DEF Cut
<1>5. ASSUME NEW h \in 1 .. DL', h > Len(assumptions')
      PROVE  dlevels'[h] < Cut(h)' /\ h <= dlevels'[h] + Len(assumptions') + 1
  <2>1. dlevels[h] < Cut(h) /\ h <= dlevels[h] + Len(assumptions) + 1
    BY <1>1, <1>5 DEF Tall
  <2> QED
    BY <1>1, <1>4, <2>1
<1> QED
  BY <1>3, <1>5 DEF InOrder, Tall

\* A step that leaves the trail alone.
LEMMA StaysLevelled ==
    ASSUME InOrder, Tall, UNCHANGED <<opts, assumptions, trail, dlevels>>
    PROVE  InOrder' /\ Tall'
BY DEF InOrder, Tall, DL, Cut

\* Levels are added for assumptions, or one more with a decision.
LEMMA AddedLevelled ==
    ASSUME TrailOK, InOrder, Tall, UNCHANGED <<opts, assumptions>>, Len(assumptions) \in Nat,
           NEW n \in Nat, dlevels' = IncDL(n),
           \/ trail' = trail /\ DL + n <= Len(assumptions)
           \/ \E e \in EntryType :
                  /\ trail' = Append(trail, e) /\ e.level = DL + n /\ n > 0
                  /\ DL + n <= Len(assumptions) \/ n = 1 \/ DL + n = Len(assumptions) + 1
    PROVE  InOrder' /\ Tall'
<1>1. /\ DL' = DL + n /\ DL \in Nat
      /\ \A h \in 1 .. DL' : dlevels'[h] = IF h <= DL THEN dlevels[h] ELSE Len(trail)
      /\ Len(trail) \in Nat /\ trail \in Seq(EntryType) /\ Cut(DL) = Len(trail)
      /\ \A h \in 1 .. DL : dlevels[h] \in Nat /\ Cut(h) \in Nat
  BY AddedLevels, Levels DEF TrailOK
<1>2. /\ \A i \in 1 .. Len(trail) : i \in DOMAIN trail' /\ trail'[i] = trail[i]
      /\ \A i \in DOMAIN trail' : i \in 1 .. Len(trail) \/ (i = Len(trail) + 1 /\ trail'[i].level = DL')
      /\ DL' > Len(assumptions) => Len(trail') = Len(trail) + 1
  <2>1. CASE trail' = trail
    BY <1>1, <2>1
  <2>2. CASE \E e \in EntryType : trail' = Append(trail, e) /\ e.level = DL + n
    <3>1. PICK e \in EntryType : trail' = Append(trail, e) /\ e.level = DL + n
      BY <2>2
    <3>2. /\ Len(trail') = Len(trail) + 1 /\ DOMAIN trail' = 1 .. Len(trail) + 1
          /\ trail'[Len(trail) + 1] = e /\ \A i \in 1 .. Len(trail) : trail'[i] = trail[i]
      BY <1>1, <3>1
    <3> QED
      BY <1>1, <3>1, <3>2
  <2> QED
    BY <2>1, <2>2
<1>3. ASSUME ~ opts.chrono, NEW i \in DOMAIN trail', NEW h \in 1 .. DL', i > dlevels'[h]
      PROVE  trail'[i].level >= h
  <2>1. CASE i \in 1 .. Len(trail)
    <3>1. h <= DL
      BY <1>1, <1>3, <2>1
    <3>2. h \in 1 .. DL /\ i > dlevels[h] /\ i \in DOMAIN trail
      BY <1>1, <1>3, <2>1, <3>1
    <3> QED
      BY <1>2, <1>3, <2>1, <3>2 DEF InOrder
  <2>2. CASE i = Len(trail) + 1 /\ trail'[i].level = DL'
    BY <1>1, <2>2
  <2> QED
    BY <1>2, <2>1, <2>2
<1>4. ASSUME NEW h \in 1 .. DL', h > Len(assumptions')
      PROVE  dlevels'[h] < Cut(h)' /\ h <= dlevels'[h] + Len(assumptions') + 1
  <2>1. h \in Nat /\ h > Len(assumptions) /\ Len(trail') = Len(trail) + 1 /\ h <= DL'
        /\ (n = 1 \/ DL' = Len(assumptions) + 1)
    BY <1>1, <1>2, <1>4
  <2>2. CASE h = DL'
    <3>1. Cut(h)' = Len(trail) + 1 /\ dlevels'[h] = Len(trail)
      <4>1. n > 0
        BY <1>1, <1>4, <2>1
      <4> QED
        BY <1>1, <2>1, <2>2, <4>1 DEF Cut
    <3>2. CASE h = Len(assumptions) + 1
      BY <1>1, <1>4, <3>1, <3>2
    <3>3. CASE h # Len(assumptions) + 1
      <4>1. h = DL + 1 /\ DL > Len(assumptions) /\ DL \in 1 .. DL
        BY <1>1, <2>1, <2>2, <3>3
      <4>2. dlevels[DL] < Len(trail) /\ DL <= dlevels[DL] + Len(assumptions) + 1
        BY <1>1, <4>1 DEF Tall
      <4>3. dlevels[DL] \in Nat
        BY <1>1, <4>1
      <4> QED
        BY <1>1, <1>4, <3>1, <4>1, <4>2, <4>3
    <3> QED
      BY <3>2, <3>3
  <2>3. CASE h # DL'
    <3>1. h <= DL /\ h \in 1 .. DL /\ h + 1 \in 1 .. DL' /\ h < DL'
      BY <1>1, <2>1, <2>3
    <3>2. Cut(h)' = dlevels'[h + 1]
      BY <3>1 DEF Cut
    <3>3. Cut(h)' = Cut(h)
      <4>1. CASE h < DL
        BY <1>1, <3>1, <3>2, <4>1 DEF Cut
      <4>2. CASE h = DL
        BY <1>1, <3>1, <3>2, <4>2
      <4> QED
        BY <1>1, <3>1, <4>1, <4>2
    <3>4. dlevels[h] < Cut(h) /\ h <= dlevels[h] + Len(assumptions) + 1
      BY <2>1, <3>1 DEF Tall
    <3> QED
      BY <1>1, <3>1, <3>3, <3>4
  <2> QED
    BY <2>2, <2>3
<1> QED
  BY <1>3, <1>4 DEF InOrder, Tall

\* A decision begins a level of its own, behind the levels of assumptions passed over.
LEMMA DecideLevelled == Core /\ InOrder /\ Tall /\ Decide => InOrder' /\ Tall'
<1> SUFFICES ASSUME Core, InOrder, Tall, Decide PROVE InOrder' /\ Tall'
  OBVIOUS
<1> DEFINE levels == IF Pending # {} THEN Min(Pending) - 1 ELSE Max({DL, Len(assumptions)})
           n == levels + 1 - DL
<1>1. /\ TrailOK /\ DL \in Nat /\ assumptions \in Seq(Lits) /\ Len(assumptions) \in Nat
      /\ UNCHANGED <<opts, assumptions>>
  BY Levels DEF Core, RestOK, Decide, call
<1>2. PICK l \in IF Pending # {} THEN {assumptions[Min(Pending)]} ELSE Lits :
          trail' = Append(trail, Entry(l, levels + 1, NOREF))
  BY DEF Decide
<1>3. dlevels' = IncDL(n)
  BY DEF Decide
<1>4. /\ levels \in Nat /\ levels >= DL /\ l \in Lits
      /\ levels + 1 <= Len(assumptions) \/ levels = DL \/ levels = Len(assumptions)
  <2>1. CASE Pending # {}
    BY <1>1, <1>2, <2>1, PendingFacts
  <2>2. CASE Pending = {}
    <3>1. {DL, Len(assumptions)} \in SUBSET (0 .. DL + Len(assumptions))
      BY <1>1
    <3>2. PICK s : s = {DL, Len(assumptions)}
      OBVIOUS
    <3>3. Max(s) \in s
      <4>1. DL + Len(assumptions) \in Nat /\ s # {} /\ s \in SUBSET (0 .. DL + Len(assumptions))
        BY <1>1, <3>1, <3>2
      <4> QED
        BY <4>1, GreatestOf
    <3>4. Max({DL, Len(assumptions)}) \in {DL, Len(assumptions)}
      BY <3>2, <3>3
    <3> QED
      BY <1>1, <1>2, <2>2, <3>4, MaxOfTwo
  <2> QED
    BY <2>1, <2>2
<1> HIDE DEF levels
<1>5. n \in Nat /\ n > 0 /\ DL + n = levels + 1
  BY <1>1, <1>4
<1>6. DL + n <= Len(assumptions) \/ n = 1 \/ DL + n = Len(assumptions) + 1
  BY <1>1, <1>4
<1> HIDE DEF n
<1>7. PICK e : e = Entry(l, levels + 1, NOREF)
  OBVIOUS
<1>8. e \in EntryType /\ e.level = DL + n /\ trail' = Append(trail, e)
  BY <1>2, <1>4, <1>5, <1>7 DEF Entry, EntryType, NOREF
<1> QED
  BY <1>1, <1>3, <1>5, <1>6, <1>8, AddedLevelled

\* So do the levels that a failed assumption adds.
LEMMA FailAssumptionLevelled == Core /\ InOrder /\ Tall /\ FailAssumption => InOrder' /\ Tall'
<1> SUFFICES ASSUME Core, InOrder, Tall, FailAssumption PROVE InOrder' /\ Tall'
  OBVIOUS
<1>1. /\ TrailOK /\ DL \in Nat /\ assumptions \in Seq(Lits) /\ Len(assumptions) \in Nat
      /\ UNCHANGED <<opts, assumptions, trail>> /\ Pending # {}
  BY Levels DEF Core, RestOK, FailAssumption
<1>2. PICK n : n = Min(Pending) - 1 - DL
  OBVIOUS
<1>3. n \in Nat /\ DL + n <= Len(assumptions) /\ dlevels' = IncDL(n)
  BY <1>1, <1>2, PendingFacts DEF FailAssumption
<1> QED
  BY <1>1, <1>3, AddedLevelled

\* What a visit implies comes last, at a level that without chronological
\* backtracking is the highest.
LEMMA VisitWatchLevelled == Core /\ InOrder /\ Tall /\ VisitWatch => InOrder' /\ Tall'
<1> SUFFICES ASSUME Core, InOrder, Tall, VisitWatch PROVE InOrder' /\ Tall'
  OBVIOUS
<1>1. PICK w \in visiting :
           \/ Satisfied(w) \/ ClauseDeleted(w) \/ VisitBinary(w)
           \/ OtherTrue(w) \/ FindLiteral(w) \/ OthersFalse(w)
  BY DEF VisitWatch
<1>2. /\ w.lit \in clauses[w.ref].lits /\ w.imp \in Lits /\ w.lit \in Lits
      /\ IsFalse(w.lit) /\ ~ Unassigned(w.lit) /\ LevelOf(w.lit) \in 0 .. DL
      /\ ~ clauses[w.ref].deleted =>
             /\ Other(w) \in clauses[w.ref].lits /\ Other(w) # w.lit
             /\ clauses[w.ref].watched = {w.lit, Other(w)} /\ Other(w) \in Lits
      /\ w.ref \in DOMAIN clauses /\ clauses[w.ref] \in ClauseType
  BY VisitFacts
<1>3. TrailOK /\ PositionsOK /\ UNCHANGED <<opts, assumptions, dlevels>> /\ w.ref \in Nat /\ DL \in Nat
  BY <1>2, PositionsHold, Levels DEF Core, ClausesOK, VisitWatch
<1>4. ~ opts.chrono => LevelOf(w.lit) >= DL
  <2>1. SUFFICES ASSUME ~ opts.chrono, DL > 0 PROVE LevelOf(w.lit) >= DL
    BY <1>2, <1>3
  <2>2. DL \in 1 .. DL /\ propagated \in 1 .. Len(trail) /\ PositionOf(w.lit) = propagated
        /\ dlevels[DL] < propagated /\ dlevels[DL] \in Nat
    BY <1>3, <2>1, WhereVisited, Levels
  <2>3. propagated \in DOMAIN trail /\ propagated > dlevels[DL]
    BY <1>3, <2>2 DEF TrailOK
  <2> QED
    BY <2>1, <2>2, <2>3 DEF InOrder, LevelOf
<1>5. CASE trail' = trail
  BY <1>3, <1>5, StaysLevelled
<1>6. CASE VisitBinary(w) /\ trail' # trail
  <2>1. PICK e : e = Entry(w.imp, LevelOf(w.lit), w.ref)
    OBVIOUS
  <2>2. trail' = Append(trail, e)
    BY <1>6, <2>1 DEF VisitBinary, Conflicting
  <2>3. e \in EntryType /\ e.level = LevelOf(w.lit)
    BY <1>2, <1>3, <2>1 DEF Entry, EntryType
  <2> QED
    BY <1>3, <1>4, <2>2, <2>3, AppendLevelled
<1>7. CASE OthersFalse(w) /\ trail' # trail
  <2>1. /\ Other(w) \in Lits /\ w.lit \in clauses[w.ref].lits \ {Other(w)}
        /\ clauses[w.ref].watched = {w.lit, Other(w)} /\ \A l \in Unwatched(w) : IsFalse(l)
    BY <1>2, <1>7 DEF OthersFalse, Visited
  <2>2. PICK s : s = clauses[w.ref].lits \ {Other(w)}
    OBVIOUS
  <2>3. s \in SUBSET Lits /\ (\A l \in s : ~ Unassigned(l)) /\ w.lit \in s
    <3>1. \A l \in s : IsFalse(l)
      BY <1>2, <2>1, <2>2 DEF Unwatched
    <3> QED
      BY <1>2, <2>1, <2>2, <3>1 DEF Unassigned, IsFalse, ClauseType
  <2>4. Highest(s) \in 0 .. DL /\ LevelOf(w.lit) <= Highest(s)
    BY <1>3, <2>3, HighestFacts
  <2>5. PICK e : e = Entry(Other(w), Highest(s), w.ref)
    OBVIOUS
  <2>6. trail' = Append(trail, e)
    BY <1>7, <2>2, <2>5 DEF OthersFalse, Conflicting, Implied
  <2>7. e \in EntryType /\ e.level = Highest(s)
    BY <1>3, <2>1, <2>4, <2>5 DEF Entry, EntryType
  <2>8. ~ opts.chrono => e.level >= DL
    BY <1>2, <1>3, <1>4, <2>4, <2>7
  <2> QED
    BY <1>3, <2>6, <2>7, <2>8, AppendLevelled
<1> QED
  BY <1>1, <1>5, <1>6, <1>7 DEF Satisfied, ClauseDeleted, OtherTrue, FindLiteral, Block

\* Without chronological backtracking a learnt literal belongs to the level it goes to.
LEMMA LearnLevelled == Core /\ InOrder /\ Tall /\ Learn => InOrder' /\ Tall'
<1> SUFFICES ASSUME Core, InOrder, Tall, Learn PROVE InOrder' /\ Tall'
  OBVIOUS
<1>1. PICK l \in Lits, rest \in SUBSET Lits, j \in 0 .. DL : Learns(l, rest, j, Len(clauses) + 1)
  BY LearnFacts
<1>2. TrailOK /\ DL \in Nat /\ UNCHANGED <<opts, assumptions>> /\ Len(clauses) \in Nat
  BY Levels DEF Core, ClausesOK, Learn, call
<1>3. PICK e : e = IF rest = {} THEN Entry(l, 0, NOREF) ELSE Entry(l, j, Len(clauses) + 1)
  OBVIOUS
<1>4. Backtrack(j, <<e>>) /\ LevelOf(l) = DL /\ j < DL /\ (rest = {} /\ ~ opts.chrono => j = 0)
  BY <1>1, <1>3 DEF Learns
<1>5. e \in EntryType /\ e.lit = l /\ e.level <= j /\ (e.source = NOREF => e.level = 0)
      /\ (~ opts.chrono => e.level >= j)
  BY <1>2, <1>3, <1>4 DEF Entry, EntryType, NOREF
<1>6. Enqueued(<<e>>, {e}, j)
  BY <1>2, <1>4, <1>5 DEF Enqueued
<1> QED
  BY <1>2, <1>4, <1>5, <1>6, BacktrackLevelled

\* chronoAnalyze backtracks, and may enqueue a literal.
LEMMA ChronoAnalyzeLevelled == Core /\ InOrder /\ Tall /\ ChronoAnalyze => InOrder' /\ Tall'
<1> SUFFICES ASSUME Core, InOrder, Tall, ChronoAnalyze PROVE InOrder' /\ Tall'
  OBVIOUS
<1>1. /\ TrailOK /\ DL \in Nat /\ UNCHANGED <<opts, assumptions>> /\ opts.chrono
      /\ conflict \in DOMAIN clauses /\ conflict \in Nat
      /\ clauses[conflict].lits \in SUBSET Lits
  BY Levels, ConflictFacts DEF Core, ClausesOK, ChronoAnalyze, Analyzing
<1>2. CASE Highest(clauses[conflict].lits) = 0
  BY <1>1, <1>2, StaysLevelled DEF ChronoAnalyze, search
<1>3. CASE Highest(clauses[conflict].lits) # 0
  <2>1. PICK c : c = clauses[conflict].lits
    OBVIOUS
  <2>2. PICK level \in 1 .. DL :
            /\ \A l \in c : ~ Unassigned(l) /\ l \in Lits
            /\ \/ \E l \in c :
                      /\ LevelOf(l) = level /\ \A k \in c \ {l} : LevelOf(k) <= level - 1
                      /\ Backtrack(level - 1, <<Implied(l, conflict)>>)
               \/ Backtrack(level, <<>>)
    BY <1>3, <2>1, ChronoFacts
  <2>3. level - 1 \in 0 .. DL /\ level \in 0 .. DL /\ level \in Nat /\ level > 0
    BY <1>1
  <2>4. ASSUME Backtrack(level, <<>>) PROVE InOrder' /\ Tall'
    <3>1. Enqueued(<<>>, {}, level)
      BY DEF Enqueued
    <3> QED
      BY <1>1, <2>3, <2>4, <3>1, BacktrackLevelled
  <2>5. ASSUME NEW l \in c, LevelOf(l) = level, \A k \in c \ {l} : LevelOf(k) <= level - 1,
               Backtrack(level - 1, <<Implied(l, conflict)>>)
        PROVE  InOrder' /\ Tall'
    <3>1. PICK others : others = c \ {l}
      OBVIOUS
    <3>2. /\ others \in SUBSET Lits /\ \A k \in others : ~ Unassigned(k)
      BY <1>1, <2>1, <2>2, <3>1
    <3>3. PICK hi : hi = Highest(others)
      OBVIOUS
    <3>4. hi \in Nat /\ (hi = 0 \/ \E k \in others : LevelOf(k) = hi)
      BY <1>1, <3>2, <3>3, HighestFacts
    <3>5. hi <= level - 1
      BY <2>3, <2>5, <3>1, <3>4
    <3>6. PICK e : e = Implied(l, conflict)
      OBVIOUS
    <3>7. e \in EntryType /\ e.lit = l /\ e.level = hi /\ e.source = conflict /\ conflict # NOREF
      BY <1>1, <2>1, <2>2, <3>1, <3>3, <3>4, <3>6 DEF Implied, Entry, EntryType, NOREF, ClausesOK, Core
    <3>8. Enqueued(<<e>>, {e}, level - 1) /\ Backtrack(level - 1, <<e>>)
      BY <2>3, <2>5, <3>5, <3>6, <3>7 DEF Enqueued
    <3> QED
      BY <1>1, <2>3, <3>8, BacktrackLevelled
  <2> QED
    BY <2>2, <2>4, <2>5
<1> QED
  BY <1>2, <1>3

\* Every step keeps the order and the decisions.
LEMMA StepLevelled ==
    ASSUME Core, InOrder, Tall, [Next]_vars
    PROVE  InOrder' /\ Tall'
<1>1. TrailOK /\ 0 \in 0 .. DL /\ \A j : Enqueued(<<>>, {}, j)
  BY Levels DEF Core, Enqueued
<1>2. CASE Call
  <2>1. Backtrack(0, <<>>) /\ opts' = opts
    BY <1>2 DEF Call
  <2> QED
    BY <1>1, <2>1, BacktrackLevelled
<1>3. CASE NextLiteral \/ Analyze \/ Resolve \/ Strengthen \/ RootDone \/ AllAssigned
           \/ ReduceLearnts \/ Terminating \/ UNCHANGED vars
  <2>1. UNCHANGED <<opts, assumptions, trail, dlevels>>
    BY <1>3 DEF NextLiteral, Analyze, Resolve, Strengthen, RootDone, AllAssigned,
                ReduceLearnts, Terminating, vars, search, call
  <2> QED
    BY <2>1, StaysLevelled
<1>4. CASE Reduce \/ Restart
  <2>1. UNCHANGED <<opts, assumptions>>
    BY <1>4 DEF Reduce, Restart, call
  <2>2. (\E j \in 0 .. DL : Backtrack(j, <<>>)) \/ UNCHANGED <<trail, dlevels>>
    BY <1>1, <1>4 DEF Reduce, Restart
  <2> QED
    BY <1>1, <2>1, <2>2, BacktrackLevelled, StaysLevelled
<1> QED
  BY <1>2, <1>3, <1>4, VisitWatchLevelled, LearnLevelled, ChronoAnalyzeLevelled,
     DecideLevelled, FailAssumptionLevelled DEF Next

\* What no step changes, or only a call does.
LEMMA StepConstants ==
    ASSUME [Next]_vars
    PROVE  /\ UNCHANGED <<problem, opts>>
           /\ reduced => reduced'
           /\ ~ Call => assumptions' = assumptions /\ (pc' # "idle" => pc # "idle")
<1>1. CASE Call
  BY <1>1 DEF Call, limits
<1>2. CASE NextLiteral \/ RootDone \/ AllAssigned \/ Restart \/ Decide
  BY <1>2 DEF NextLiteral, RootDone, AllAssigned, Restart, Decide, limits, call, Answer, Quiescent
<1>3. CASE VisitWatch
  BY <1>3 DEF VisitWatch, Propagating, limits
<1>4. CASE ChronoAnalyze
  BY <1>4 DEF ChronoAnalyze
<1>5. CASE Analyze \/ Resolve \/ Strengthen \/ FailAssumption
  BY <1>5 DEF Analyze, Resolve, Strengthen, FailAssumption, limits, call, Quiescent
<1>8. CASE ReduceLearnts
  BY <1>8 DEF ReduceLearnts, limits, call
<1>9. CASE Reduce
  BY <1>9 DEF Reduce, call, Quiescent
<1>6. CASE Learn
  BY <1>6, Zenon DEF Learn, limits, call
<1>7. CASE Terminating \/ UNCHANGED vars
  BY <1>7 DEF Terminating, vars, limits, call
<1> QED
  BY <1>1, <1>2, <1>3, <1>4, <1>5, <1>6, <1>7, <1>8, <1>9 DEF Next

\* The assumptions of a search are those of one of the calls.
LEMMA StepAsked ==
    ASSUME RestOK, Asked, [Next]_vars
    PROVE  Asked' /\ (UnitsFound' => UnitsFound)
<1>1. UnitsFound' => UnitsFound
  BY StepConstants DEF UnitsFound
<1>2. CASE Call
  <2>1. calls' = calls + 1 /\ calls < Len(problem.calls) /\ assumptions' = problem.calls[calls']
        /\ problem' = problem
    BY <1>2 DEF Call
  <2>2. problem \in Problems /\ calls \in Nat
    BY DEF RestOK
  <2>3. problem.calls \in Seq(Seq(Lits))
    BY <2>2, ProblemsAssumption
  <2>4. calls' \in DOMAIN problem.calls
    BY <2>1, <2>2, <2>3
  <2> QED
    BY <1>1, <2>1, <2>4 DEF Asked
<1>3. CASE ~ Call
  <2>1. problem' = problem /\ assumptions' = assumptions /\ (pc' # "idle" => pc # "idle")
    BY <1>3, StepConstants
  <2> QED
    BY <1>1, <2>1 DEF Asked
<1> QED
  BY <1>2, <1>3

\* There are no more levels than assumptions and variables, and so a distance that
\* is as large keeps backjumping from stopping short.
LEMMA JumpsLowHolds ==
    ASSUME Core, Tall, Asked, UnitsFound, pc # "idle"
    PROVE  JumpsLow
<1> SUFFICES ASSUME opts.chrono PROVE DL <= opts.distance
  BY DEF JumpsLow
<1>1. /\ TrailOK /\ DL \in Nat /\ Len(assumptions) \in Nat /\ opts.distance \in Nat
      /\ Len(trail) \in Nat /\ NumVars \in Nat
  BY Levels, OptionsAssumption, NumVarsAssumption DEF Core, RestOK
<1>2. opts.distance >= NumVars + Len(assumptions)
  BY DEF Asked, UnitsFound
<1>3. Len(trail) <= NumVars
  BY <1>1, TrailSize
<1>4. CASE DL <= Len(assumptions)
  BY <1>1, <1>2, <1>4
<1>5. CASE DL > Len(assumptions)
  <2>1. DL \in 1 .. DL
    BY <1>1, <1>5
  <2>2. dlevels[DL] < Cut(DL) /\ DL <= dlevels[DL] + Len(assumptions) + 1
    BY <1>5, <2>1 DEF Tall
  <2>3. Cut(DL) = Len(trail) /\ dlevels[DL] \in Nat
    BY <1>1, <2>1, Levels
  <2> QED
    BY <1>1, <1>2, <1>3, <2>2, <2>3
<1> QED
  BY <1>1, <1>4, <1>5

-----------------------------------------------------------------------------
(***************************************************************************)
(* Clauses examined for each watch.                                        *)
(***************************************************************************)
\* l is alone at the highest level in clause r, and the other watches are next.
LoneAt(l, r) ==
    /\ l \in clauses[r].lits /\ LevelOf(l) = DL
    /\ \A k \in clauses[r].lits \ {l} : LevelOf(k) < DL
    /\ \A k \in clauses[r].watched \ {l}, m \in clauses[r].lits \ {l} : LevelOf(m) <= LevelOf(k)

\* A clause that was strengthened to be unit below DL. What is learnt from it asserts
\* its literal, and until then it need not be examined.
Lonely(r) ==
    /\ Analyzing /\ r = conflict /\ DL > 0
    /\ \E l \in Lits : LoneAt(l, r)
    /\ pc = "uip" => uip.resolved = {}

\* A clause is examined for each literal that it watches, as soon as that is propagated.
Each ==
    UnitsFound =>
        \A r \in Live : \A l \in clauses[r].watched : ExaminedFor(r, {l}) \/ Lonely(r)

\* Nothing is resolved with such a clause.
LEMMA LonelyTracked ==
    ASSUME Core, pc = "uip", NEW r, Lonely(r), NEW l \in Lits, LoneAt(l, r)
    PROVE  Tracked = {l} /\ uip.seen = NonRoot(clauses[r].lits) /\ ~ (Cardinality(Tracked) > 1)
<1>1. /\ uip.resolved = {} /\ uip.seen = NonRoot(clauses[r].lits) /\ DL \in Nat /\ DL > 0
  BY Levels DEF Lonely, Core, AnalysisOK
<1>2. Resolvent = NonRoot(clauses[r].lits)
  BY <1>1 DEF Resolvent
<1>3. ASSUME NEW k \in Tracked PROVE k = l
  BY <1>1, <1>2, <1>3 DEF Tracked, NonRoot, LoneAt
<1>4. l \in Tracked
  BY <1>1, <1>2 DEF Tracked, NonRoot, LoneAt
<1>5. Tracked = {l}
  BY <1>3, <1>4
<1>6. Cardinality({l}) = 1
  BY FS_Singleton
<1> QED
  BY <1>1, <1>5, <1>6

\* While there is a conflict, no literal of the highest level is looked at.
LEMMA TopNotLooked ==
    ASSUME TrailOK', conflict' # NOREF, NEW l \in Lits, ~ Unassigned(l)', LevelOf(l)' = DL',
           NEW p \in Nat, Looked(p)', FalseUpTo(l, p)'
    PROVE  FALSE
<1>1. PICK h \in 1 .. DL' : p <= dlevels'[h]
  BY DEF Looked
<1>2. DL' \in Nat /\ dlevels'[h] \in Nat
  <2>1. dlevels' \in Seq(Nat) /\ h \in 1 .. Len(dlevels') /\ DL' = Len(dlevels')
    BY DEF TrailOK, DL
  <2> QED
    BY <2>1
<1>3. dlevels'[h] < p
  BY <1>2, BehindLevelsAfter DEF FalseUpTo
<1> QED
  BY <1>1, <1>2, <1>3

\* A clause that is strengthened was examined for the watch that it keeps: the literal
\* it loses was the only true one, and will be undone.
LEMMA StrengthenEach ==
    ASSUME Core, Strengthen, NEW r \in Live', NEW l \in clauses'[r].watched,
           r \in Live /\ l \in clauses[r].watched => ExaminedFor(r, {l})
    PROVE  ExaminedFor(r, {l})' \/ Lonely(r)'
<1>1. PICK q : q = Parent.source
  OBVIOUS
<1>2. PICK p : p = Parent.lit
  OBVIOUS
<1>3. /\ UNCHANGED <<trail, propagated, dlevels, visiting>> /\ conflict' = q /\ pc' = "analyze"
      /\ pc = "uip" /\ Cardinality(Tracked) > 1 /\ TrailOK /\ TrailOK'
  <2>1. UNCHANGED <<trail, propagated, dlevels, visiting>> /\ conflict' = q /\ pc' = "analyze"
        /\ pc = "uip" /\ Cardinality(Tracked) > 1
    BY <1>1 DEF Strengthen
  <2>2. TrailOK /\ TrailOK'
    BY StrengthenKeeps DEF Core
  <2> QED
    BY <2>1, <2>2
<1>4. PICK first, second, lits : StrengthenedTo(p, q, first, second, lits)
  BY <1>1, <1>2, StrengthenFacts
<1>5. /\ q # NOREF /\ p \in Lits /\ ~ Unassigned(p) /\ LevelOf(p) = DL /\ DL > 0 /\ DL \in Nat
      /\ q \in Live /\ \A k \in clauses[q].lits \ {p} : k \in Lits /\ IsFalse(k) /\ ~ Unassigned(k)
      /\ PositionsOK /\ DL' = DL
  BY <1>1, <1>2, <1>3, ParentFacts, ReasonLitsFacts, PositionsHold, Levels DEF DL
<1>6. CASE r # q
  <2>1. r \in Live /\ clauses'[r].watched = clauses[r].watched
    <3>1. r \in DOMAIN clauses'
      BY DEF Live
    <3> QED
      BY <1>4, <1>6, <3>1 DEF StrengthenedTo, Live
  <2>2. PICK S : S = {l}
    OBVIOUS
  <2>3. ExaminedFor(r, S)'
    BY <1>3, <1>6, <2>1, <2>2, StrengthenExamined
  <2> QED
    BY <2>2, <2>3
<1>7. CASE r = q
  <2>1. /\ l \in {first, second} /\ first \in lits /\ second \in lits /\ first # second
        /\ clauses'[r].lits = lits /\ clauses'[r].watched = {first, second}
        /\ lits \subseteq clauses[q].lits \ {p}
        /\ LevelOf(second) = Highest(lits \ {first}) /\ first \in clauses[q].watched
    BY <1>4, <1>7 DEF StrengthenedTo
  <2>2. \A k : /\ LevelOf(k)' = LevelOf(k) /\ PositionOf(k)' = PositionOf(k)
               /\ (Unassigned(k)' <=> Unassigned(k)) /\ (IsFalse(k)' <=> IsFalse(k))
    BY <1>3 DEF LevelOf, PositionOf, Unassigned, IsFalse, Assigned
  <2>3. CASE LevelOf(l) = DL
    <3>1. l \in Lits /\ ~ Unassigned(l)' /\ LevelOf(l)' = DL'
      BY <1>5, <2>1, <2>2, <2>3
    <3>2. ASSUME NEW x \in Nat, Looked(x)', FalseUpTo(l, x)' PROVE FALSE
      BY <1>3, <1>5, <3>1, <3>2, TopNotLooked
    <3> QED
      BY <3>2 DEF ExaminedFor
  <2>4. CASE LevelOf(l) # DL /\ l = first
    <3>1. ExaminedFor(q, {first})
      BY <1>5, <1>7, <2>1, <2>4
    <3>2. ASSUME NEW x \in Nat, Looked(x)', FalseUpTo(first, x)' PROVE FALSE
      <4>1. PICK h \in 1 .. DL : x <= dlevels[h]
        BY <1>3, <1>5, <3>2 DEF Looked
      <4>2. Looked(x)
        BY <1>3, <3>2, <4>1 DEF Looked
      <4>3. FalseUpTo(first, x)
        BY <2>2, <3>2 DEF FalseUpTo
      <4>4. ~ ToVisit(first, q)
        BY <1>3, IdleNotVisiting DEF Propagating, ToVisit
      <4>5. Witnessed(q, x)
        BY <3>1, <4>2, <4>3, <4>4 DEF ExaminedFor
      <4>6. PICK y \in clauses[q].lits : Outlives(y, x)
        BY <4>5 DEF Witnessed
      <4>7. y = p
        BY <1>5, <4>6 DEF Outlives, IsTrue, IsFalse, PositionsOK
      <4>8. dlevels[h] \in Nat /\ LevelOf(p) >= h
        BY <1>3, <1>5, Levels
      <4>9. PositionOf(p) <= dlevels[h]
        BY <1>5, <4>1, <4>6, <4>7, <4>8 DEF Outlives
      <4>10. dlevels[h] < dlevels[h]
        BY <1>3, <1>5, <4>8, <4>9, BehindLevels
      <4> QED
        BY <4>8, <4>10
    <3> QED
      BY <2>4, <3>2 DEF ExaminedFor
  <2>5. CASE LevelOf(l) # DL /\ l = second
    <3>1. LevelOf(first) = DL
      BY <1>1, <1>2, <1>4, <2>5, StrengthenedLevels
    <3>2. PICK s : s = lits \ {first}
      OBVIOUS
    <3>3. s \in SUBSET Lits /\ \A k \in s : ~ Unassigned(k)
      BY <1>5, <2>1, <3>2
    <3>4. Highest(s) \in 0 .. DL /\ \A k \in s : LevelOf(k) <= Highest(s)
      BY <1>3, <3>3, HighestFacts
    <3>5. /\ Highest(s) = LevelOf(second) /\ LevelOf(second) < DL
          /\ \A k \in s : LevelOf(k) <= LevelOf(second) /\ LevelOf(k) \in Nat
      <4>1. Highest(s) = LevelOf(second)
        BY <2>1, <3>2
      <4>2. \A k \in s : LevelOf(k) \in Nat
        BY <1>3, <3>3, Levels
      <4> QED
        BY <1>5, <2>5, <3>4, <4>1, <4>2
    <3>6. \A k \in s : LevelOf(k) < DL
      BY <1>5, <3>4, <3>5
    <3>7. /\ first \in clauses'[r].lits /\ clauses'[r].lits \ {first} = s
          /\ clauses'[r].watched \ {first} = {second} /\ first \in Lits
      BY <1>5, <2>1, <3>2
    <3>8. LoneAt(first, r)'
      BY <1>5, <2>2, <3>1, <3>5, <3>6, <3>7 DEF LoneAt
    <3> QED
      BY <1>3, <1>5, <1>7, <3>7, <3>8 DEF Lonely, Analyzing
  <2> QED
    BY <2>1, <2>3, <2>4, <2>5
<1> QED
  BY <1>6, <1>7

\* The literal that is learnt from a clause of which it was the only one of its level is
\* true at the level of the others.
LEMMA LearnLonely ==
    ASSUME Core, Learn, JumpsLow, NEW r \in Live', Lonely(r), NEW l \in clauses'[r].watched
    PROVE  ExaminedFor(r, {l})'
<1>1. PICK x \in Lits, rest \in SUBSET Lits, j \in 0 .. DL : Learns(x, rest, j, Len(clauses) + 1)
  BY LearnFacts
<1>2. PICK ref : ref = Len(clauses) + 1
  OBVIOUS
<1>3. /\ TrailOK /\ ClausesOK /\ DL \in Nat /\ clauses \in Seq(ClauseType)
      /\ Len(clauses) \in Nat /\ pc = "uip"
      /\ r \in DOMAIN clauses /\ clauses[r].lits \in SUBSET Lits
      /\ clauses[r].watched \subseteq clauses[r].lits
  BY Levels, ConflictFacts DEF Core, ClausesOK, Learn, Lonely
<1>4. PICK a \in Lits : LoneAt(a, r)
  BY DEF Lonely
<1>5. /\ a = x /\ rest \subseteq clauses[r].lits \ {x} /\ x \in clauses[r].lits
      /\ \A k \in clauses[r].watched \ {x}, m \in clauses[r].lits \ {x} : LevelOf(m) <= LevelOf(k)
  <2>1. Tracked = {a} /\ uip.seen = NonRoot(clauses[r].lits)
    BY <1>3, <1>4, LonelyTracked
  <2>2. Tracked = {x} /\ rest \subseteq uip.seen /\ x \notin rest
    BY <1>1 DEF Learns
  <2>3. a = x /\ rest \subseteq clauses[r].lits \ {x}
    BY <2>1, <2>2 DEF NonRoot
  <2> QED
    BY <1>4, <2>3 DEF LoneAt
<1>6. PICK e \in EntryType : /\ Backtrack(j, <<e>>) /\ e.lit = x /\ Enqueued(<<e>>, {e}, j)
                             /\ e.level = (IF rest = {} THEN 0 ELSE j)
  <2>1. PICK y : y = IF rest = {} THEN Entry(x, 0, NOREF) ELSE Entry(x, j, ref)
    OBVIOUS
  <2>2. Backtrack(j, <<y>>) /\ LevelOf(x) = DL /\ j < DL
    BY <1>1, <1>2, <2>1 DEF Learns
  <2>3. y \in EntryType /\ y.lit = x /\ y.level <= j /\ (y.source = NOREF => y.level = 0)
        /\ y.level = (IF rest = {} THEN 0 ELSE j)
    BY <1>2, <1>3, <2>1 DEF Entry, EntryType, NOREF
  <2>4. Enqueued(<<y>>, {y}, j)
    BY <1>3, <2>2, <2>3 DEF Enqueued
  <2> QED
    BY <2>2, <2>3, <2>4
<1>7. TrailOK' /\ Moves(j, {e}) /\ DL' = j /\ PositionsOK /\ PositionsOK'
  <2>1. TrailOK' /\ Moves(j, {e}) /\ DL' = j
    BY <1>3, <1>6, BacktrackKeepsTrailOK, BacktrackMoves
  <2> QED
    BY <1>3, <2>1, PositionsHold, PositionsHoldAfter
<1>8. IsTrue(x)' /\ LevelOf(x)' = e.level /\ ~ IsFalse(x)'
  <2>1. IsTrue(x)' /\ LevelOf(x)' = e.level
    BY <1>6, <1>7 DEF Moves, IsTrue
  <2> QED
    BY <1>7, <2>1 DEF IsFalse, IsTrue, PositionsOK
<1>9. clauses'[r].lits = clauses[r].lits /\ clauses'[r].watched = clauses[r].watched
  <2>1. CASE rest = {}
    BY <1>1, <2>1 DEF Learns
  <2>2. CASE rest # {}
    <3> DEFINE Marked ==
                   [q \in DOMAIN clauses |->
                       [clauses[q] EXCEPT !.deleted =
                           @ \/ (clauses[q].learnt /\ ({x} \cup rest) \subseteq clauses[q].lits)]]
    <3>1. PICK second \in rest :
              clauses' = Append(Marked, [lits |-> {x} \cup rest, watched |-> {x, second},
                                         learnt |-> TRUE, deleted |-> FALSE])
      BY <1>1, <2>2 DEF Learns
    <3>2. PICK c : c = [lits |-> {x} \cup rest, watched |-> {x, second},
                        learnt |-> TRUE, deleted |-> FALSE]
      OBVIOUS
    <3>3. c \in ClauseType /\ c.lits = {x} \cup rest
      BY <3>2 DEF ClauseType
    <3>4. Added(c, ref)
      BY <1>2, <1>3, <3>1, <3>2, <3>3, AppendedClause
    <3> QED
      BY <1>3, <3>4 DEF Added
  <2> QED
    BY <2>1, <2>2
<1>10. CASE l = x
  BY <1>8, <1>10 DEF ExaminedFor, FalseUpTo
<1>11. CASE l # x
  <2>1. l \in Lits /\ l \in clauses[r].watched \ {x}
    BY <1>3, <1>9, <1>11
  <2>2. ASSUME NEW p \in Nat, FalseUpTo(l, p)'
        PROVE  Outlives(x, p)'
    <3>1. IsFalse(l)' /\ PositionOf(l)' <= p /\ ~ Unassigned(l)' /\ -l \in Lits /\ -(-l) = l
      BY <2>1, <2>2, Negation DEF FalseUpTo, IsFalse, Unassigned
    <3>2. LevelOf(l)' \in Nat /\ LevelOf(x)' \in Nat /\ ~ Unassigned(-l)'
      BY <1>6, <1>7, <1>8, <2>1, <3>1 DEF PositionsOK, EntryType, LevelOf, Unassigned
    <3>3. LevelOf(x)' <= LevelOf(l)'
      <4>1. CASE rest = {}
        BY <1>6, <1>8, <3>2, <4>1
      <4>2. CASE -l = x
        <5>1. PositionOf(-l)' = PositionOf(l)'
          BY <1>7, <2>1, <3>1 DEF PositionsOK
        <5> QED
          BY <3>2, <4>2, <5>1 DEF LevelOf
      <4>3. CASE rest # {} /\ -l # x
        <5>1. IsTrue(-l) /\ LevelOf(-l) <= j
          BY <1>6, <1>7, <3>1, <4>3, MovesKeeps DEF IsFalse, IsTrue
        <5>2. ~ Unassigned(l) /\ LevelOf(l) = LevelOf(-l)
          BY <1>7, <2>1, <3>1, <5>1 DEF PositionsOK, LevelOf, Unassigned, IsTrue
        <5>3. LevelOf(l)' = LevelOf(l)
          BY <1>7, <2>1, <5>1, <5>2, MovesKeeps
        <5>4. j <= LevelOf(l)
          <6>1. \A k \in rest : ~ Unassigned(k)
            BY <1>1 DEF Learns, IsFalse, Unassigned
          <6>2. Highest(rest) \in 0 .. DL /\ (Highest(rest) = 0 \/ \E k \in rest : LevelOf(k) = Highest(rest))
            BY <1>3, <6>1, HighestFacts
          <6>3. opts.chrono => DL <= opts.distance /\ opts.distance \in Nat
            BY OptionsAssumption DEF JumpsLow, Core, RestOK
          <6>4. j = Highest(rest)
            <7>1. JumpLevel(rest) = Highest(rest)
              BY <1>3, <6>2, <6>3 DEF JumpLevel
            <7> QED
              BY <1>1, <7>1 DEF Learns
          <6>5. LevelOf(l) \in Nat
            BY <1>3, <2>1, <5>2, Levels
          <6> QED
            BY <1>5, <2>1, <6>2, <6>4, <6>5
        <5> QED
          BY <1>6, <1>8, <4>3, <5>3, <5>4
      <4> QED
        BY <4>1, <4>2, <4>3
    <3> QED
      BY <1>7, <1>8, <2>1, <3>1, <3>2, <3>3, OutlivesLevel
  <2> QED
    BY <1>5, <1>9, <2>2 DEF ExaminedFor, Witnessed
<1> QED
  BY <1>10, <1>11

\* sortClause puts a false literal second only behind the true one, and it is of the
\* highest level of those left: so the true one outlives it, as it outlived the other
\* watch, which is no higher.
LEMMA ReduceLearntsEach ==
    ASSUME Core, Examined, InOrder, ~ opts.chrono, ReduceLearnts,
           \E q \in Learnt : ~ Shrunk[q].deleted,
           NEW r \in Live', NEW l \in clauses'[r].watched,
           r \in Live => \A k \in clauses[r].watched : ExaminedFor(r, {k})
    PROVE  ExaminedFor(r, {l})'
<1>1. /\ PropagationDone /\ UNCHANGED <<trail, propagated, dlevels, visiting, conflict>>
      /\ TrailOK /\ PositionsOK /\ ClausesOK
  BY PositionsHold DEF ReduceLearnts, Core
<1>2. PICK gone : ReducedTo(gone)
  BY ReduceLearntsStep
<1>3. /\ r \in DOMAIN clauses /\ r \in Live
      /\ clauses'[r].lits \subseteq clauses[r].lits
      /\ \A k \in clauses[r].lits \ clauses'[r].lits : IsFalse(k) /\ LevelOf(k) = 0
      /\ \/ clauses'[r].watched = clauses[r].watched
         \/ clauses'[r].watched \in SortedPairs(clauses'[r].lits)
  <2>1. r \in DOMAIN clauses /\ r \in Live
    BY <1>2 DEF ReducedTo, Live
  <2> QED
    BY <1>2, <2>1 DEF ReducedTo
<1>4. /\ clauses[r].lits \in SUBSET Lits /\ clauses'[r].lits \in SUBSET Lits
      /\ clauses[r].watched \subseteq clauses[r].lits /\ IsPair(clauses[r].watched)
  BY <1>1, <1>3, ClauseLits DEF ClausesOK
<1>5. \A x \in clauses[r].lits : IsTrue(x) => x \in clauses'[r].lits
  BY <1>1, <1>3, <1>4 DEF PositionsOK, IsTrue, IsFalse
<1>6. CASE clauses'[r].watched = clauses[r].watched
  <2>1. PICK S : S = {l}
    OBVIOUS
  <2>2. ExaminedFor(r, S)
    BY <1>3, <1>6, <2>1
  <2>3. ExaminedFor(r, S)'
    BY <1>1, <1>5, <2>2, StaysExamined
  <2> QED
    BY <2>1, <2>3
<1>7. CASE clauses'[r].watched \in SortedPairs(clauses'[r].lits)
  <2>0. PICK lits \in SUBSET Lits : lits = clauses'[r].lits
    BY <1>4
  <2>1. PICK a, b \in lits : /\ clauses'[r].watched = {a, b} /\ a # b
                             /\ IsFalse(a) => \A k \in lits : IsFalse(k)
                             /\ IsFalse(b) => /\ \A k \in lits \ {a} : IsFalse(k)
                                              /\ LevelOf(b) = Highest(lits \ {a})
    <3>1. PICK pair \in SortedPairs(lits) : pair = clauses'[r].watched
      BY <1>7, <2>0
    <3> QED
      BY <1>1, <3>1, SortedPairFacts
  <2>2. ~ IsFalse(a)
    <3>1. SUFFICES ASSUME IsFalse(a) PROVE FALSE
      OBVIOUS
    <3>2. \A k \in clauses[r].lits : IsFalse(k)
      BY <1>3, <2>0, <2>1, <3>1
    <3> QED
      BY <1>1, <1>3, <3>2, NothingFalse DEF Falsified
  <2>3. CASE l = a
    <3>1. ~ IsFalse(l)'
      BY <1>1, <2>2, <2>3 DEF IsFalse, Assigned
    <3> QED
      BY <3>1 DEF ExaminedFor, FalseUpTo
  <2>4. CASE l # a
    <3> SUFFICES ASSUME NEW p \in Nat, FalseUpTo(b, p) PROVE Outlives(a, p)
      <4>1. ASSUME NEW p \in Nat, FalseUpTo(b, p)' PROVE Outlives(a, p)'
        <5>1. FalseUpTo(b, p)
          BY <1>1, <4>1 DEF FalseUpTo, IsFalse, Assigned, PositionOf
        <5>2. Outlives(a, p)
          BY <5>1
        <5> QED
          BY <1>1, <5>2 DEF Outlives, IsTrue, Assigned, PositionOf, LevelOf, DL
      <4>2. l = b /\ a \in clauses'[r].lits
        BY <2>0, <2>1, <2>4
      <4> QED
        BY <4>1, <4>2 DEF ExaminedFor, Witnessed
    <3>1. /\ IsFalse(b) /\ PositionOf(b) <= p /\ a \in Lits /\ b \in Lits /\ ~ Unassigned(b)
          /\ (\A k \in lits \ {a} : IsFalse(k)) /\ LevelOf(b) = Highest(lits \ {a})
      BY <2>1 DEF FalseUpTo, IsFalse, Unassigned
    <3>2. PICK k \in clauses[r].watched : k # a
      BY <1>4 DEF IsPair
    <3>3. /\ k \in Lits /\ IsFalse(k) /\ ~ Unassigned(k) /\ LevelOf(k) \in Nat /\ LevelOf(b) \in Nat
          /\ PositionOf(k) \in 1 .. Len(trail) /\ LevelOf(k) = trail[PositionOf(k)].level
      <4>1. k \in Lits /\ IsFalse(k)
        BY <1>3, <1>4, <2>0, <3>1, <3>2
      <4>2. ~ Unassigned(k)
        BY <4>1 DEF IsFalse, Unassigned
      <4> QED
        BY <1>1, <3>1, <4>1, <4>2 DEF PositionsOK, LevelOf
    <3>4. LevelOf(k) <= LevelOf(b)
      <4>1. CASE k \in lits
        <5>1. PICK s : s = lits \ {a}
          OBVIOUS
        <5>2. s \in SUBSET Lits /\ k \in s /\ LevelOf(b) = Highest(s) /\ \A x \in s : ~ Unassigned(x)
          BY <3>1, <3>2, <4>1, <5>1 DEF IsFalse, Unassigned
        <5> QED
          BY <1>1, <5>2, HighestFacts
      <4>2. CASE k \notin lits
        BY <1>3, <1>4, <2>0, <3>2, <3>3, <4>2
      <4> QED
        BY <4>1, <4>2
    <3>5. Outlives(a, PositionOf(k))
      <4>1. PICK x \in Nat : x = PositionOf(k)
        BY <1>1, <3>3
      <4>2. Looked(x)
        BY <1>1, <3>3, <4>1 DEF Looked, PropagationDone, Core, RestOK
      <4>3. FalseUpTo(k, x)
        BY <3>3, <4>1 DEF FalseUpTo
      <4>4. ~ ToVisit(k, r)
        BY <1>1 DEF ToVisit, PropagationDone
      <4>5. Witnessed(r, x)
        BY <1>3, <3>2, <4>2, <4>3, <4>4 DEF ExaminedFor
      <4>6. PICK y \in clauses[r].lits : Outlives(y, x)
        BY <4>5 DEF Witnessed
      <4>7. y = a
        <5>1. IsTrue(y) /\ y \in Lits
          BY <1>4, <4>6 DEF Outlives
        <5>2. ~ IsFalse(y)
          BY <1>1, <5>1 DEF PositionsOK, IsTrue, IsFalse
        <5> QED
          BY <1>3, <2>0, <3>1, <4>6, <5>2
      <4> QED
        BY <4>1, <4>6, <4>7
    <3>6. ASSUME NEW h \in 1 .. DL, p <= dlevels[h] PROVE PositionOf(k) <= dlevels[h]
      <4>1. dlevels[h] \in Nat /\ DL \in Nat
        BY <1>1, Levels
      <4>2. ~ (LevelOf(b) >= h)
        <5>1. ASSUME LevelOf(b) >= h PROVE FALSE
          <6>1. dlevels[h] < p
            BY <1>1, <3>1, <5>1, BehindLevels
          <6> QED
            BY <3>6, <4>1, <6>1
        <5> QED
          BY <5>1
      <4>3. ~ (LevelOf(k) >= h)
        BY <3>3, <3>4, <4>1, <4>2
      <4>4. PositionOf(k) > dlevels[h] => LevelOf(k) >= h
        BY <3>3 DEF InOrder
      <4> QED
        BY <1>1, <3>3, <4>1, <4>3, <4>4
    <3> QED
      BY <3>5, <3>6 DEF Outlives
  <2> QED
    BY <2>3, <2>4
<1> QED
  BY <1>3, <1>6, <1>7

\* Each literal that is watched is still examined for after a step.
LEMMA StepEach ==
    ASSUME InductiveInvariant, Examined, InOrder, Tall, Asked, Each, Proper, [Next]_vars
    PROVE  Each'
<1> SUFFICES ASSUME UnitsFound', NEW r \in Live', NEW l \in clauses'[r].watched
             PROVE  ExaminedFor(r, {l})' \/ Lonely(r)'
  BY DEF Each
<1>1. /\ Core /\ Core' /\ Regular /\ (Call => conflict = NOREF)
      /\ ClausesOK /\ ClausesOK' /\ UnitsFound /\ RestOK
  BY StepKeepsCore, StepAsked DEF InductiveInvariant, Proper, Core
<1>2. PICK S : S = {l}
  OBVIOUS
<1>3. S \in SUBSET clauses'[r].watched /\ S # {}
  BY <1>2
<1>4. ASSUME r \in Live
      PROVE  /\ \A k \in clauses[r].watched : ExaminedFor(r, {k}) \/ Lonely(r)
             /\ clauses[r].watched \in SUBSET Lits
  <2>1. PICK T : T = clauses[r].watched
    OBVIOUS
  <2>2. T \in SUBSET Lits
    BY <1>1, <1>4, <2>1, WatchedInLits
  <2> QED
    BY <1>1, <1>4, <2>1, <2>2 DEF Each
<1>5. ASSUME ExaminedFor(r, S)' PROVE ExaminedFor(r, {l})'
  BY <1>2, <1>5
<1>6. CASE \/ Call \/ Analyze \/ Resolve \/ RootDone \/ AllAssigned \/ Reduce \/ Restart
           \/ Decide \/ FailAssumption \/ Terminating \/ UNCHANGED vars
  <2>1. clauses' = clauses
    BY <1>6 DEF Call, Analyze, Resolve, RootDone, AllAssigned, Reduce, Restart, Decide,
                FailAssumption, Terminating, vars, search
  <2>2. r \in Live /\ l \in clauses[r].watched /\ S \in SUBSET Lits
    BY <1>2, <1>4, <2>1 DEF Live
  <2>3. \/ Call \/ Analyze \/ Resolve \/ RootDone \/ AllAssigned \/ Reduce \/ Restart
        \/ Decide \/ FailAssumption \/ UNCHANGED vars
    BY <1>6 DEF Terminating
  <2>4. CASE ExaminedFor(r, {l})
    <3>1. ExaminedFor(r, S)
      BY <1>2, <2>4
    <3>2. ExaminedFor(r, S)'
      BY <1>1, <2>2, <2>3, <3>1, SameClausesExamined
    <3> QED
      BY <1>5, <3>2
  <2>5. CASE Lonely(r)
    <3>1. Analyzing
      BY <2>5 DEF Lonely
    <3>2. Analyze \/ Resolve \/ UNCHANGED vars
      BY <2>3, <3>1 DEF Analyzing, Call, RootDone, AllAssigned, Reduce, Restart, Decide,
                        FailAssumption, Quiescent, PropagationDone, Propagating
    <3>3. ~ Resolve
      <4>1. ASSUME Resolve PROVE FALSE
        <5>1. PICK k \in Lits : LoneAt(k, r)
          BY <2>5 DEF Lonely
        <5>2. pc = "uip" /\ Cardinality(Tracked) > 1
          BY <4>1 DEF Resolve
        <5> QED
          BY <1>1, <2>5, <5>1, <5>2, LonelyTracked
      <4> QED
        BY <4>1
    <3>4. ASSUME UNCHANGED <<clauses, trail, dlevels, conflict>>,
                 Analyzing', pc' = "uip" => uip'.resolved = {}
          PROVE  Lonely(r)'
      <4>1. PICK k \in Lits : LoneAt(k, r)
        BY <2>5 DEF Lonely
      <4>2. (\A x : LevelOf(x)' = LevelOf(x)) /\ DL' = DL /\ clauses' = clauses
        BY <3>4 DEF LevelOf, PositionOf, DL
      <4>3. LoneAt(k, r)'
        BY <4>1, <4>2 DEF LoneAt
      <4> QED
        BY <2>5, <3>4, <4>2, <4>3 DEF Lonely
    <3>5. CASE Analyze
      <4>1. StartUip /\ UNCHANGED <<clauses, trail, dlevels, conflict>>
        BY <1>1, <2>5, <3>5 DEF Analyze, search, Lonely
      <4>2. Analyzing' /\ uip'.resolved = {}
        BY <4>1 DEF StartUip, Analyzing
      <4> QED
        BY <3>4, <4>1, <4>2
    <3>6. CASE UNCHANGED vars
      <4>1. UNCHANGED <<clauses, trail, dlevels, conflict, uip, pc>>
        BY <3>6 DEF vars, search, call
      <4>2. Analyzing' /\ (pc' = "uip" => uip'.resolved = {})
        BY <2>5, <4>1 DEF Lonely, Analyzing
      <4> QED
        BY <3>4, <4>1, <4>2
    <3> QED
      BY <3>2, <3>3, <3>5, <3>6
  <2> QED
    BY <1>4, <2>2, <2>4, <2>5
<1>7. CASE NextLiteral
  <2>1. clauses' = clauses /\ ~ Lonely(r)
    BY <1>7 DEF NextLiteral, Propagating, Lonely, Analyzing
  <2>2. r \in Live /\ S \in SUBSET clauses[r].watched /\ ExaminedFor(r, {l})
    BY <1>2, <1>4, <2>1 DEF Live
  <2>3. ExaminedFor(r, S)
    BY <1>2, <2>2
  <2>4. ExaminedFor(r, S)'
    BY <1>1, <1>3, <1>7, <2>2, <2>3, NextLiteralExamined
  <2> QED
    BY <1>5, <2>4
<1>8. CASE VisitWatch
  <2>1. S \subseteq clauses[r].watched => ExaminedFor(r, S)
    <3>1. Live' = Live
      BY <1>1, <1>8, VisitWatchStep DEF VisitsTo
    <3>2. ~ Lonely(r)
      BY <1>8 DEF VisitWatch, Propagating, Lonely, Analyzing
    <3> QED
      BY <1>2, <1>4, <3>1, <3>2
  <2>2. ExaminedFor(r, S)'
    BY <1>1, <1>3, <1>8, <2>1, VisitWatchExamined
  <2> QED
    BY <1>5, <2>2
<1>9. CASE ChronoAnalyze
  <2>1. r \in Live
    <3>1. CASE Highest(clauses[conflict].lits) = 0
      <4>1. clauses' = clauses
        BY <1>9, <3>1 DEF ChronoAnalyze, search
      <4> QED
        BY <4>1 DEF Live
    <3>2. CASE Highest(clauses[conflict].lits) # 0
      BY <1>1, <1>9, <3>2, ChronoFacts
    <3> QED
      BY <3>1, <3>2
  <2>2. ASSUME r # conflict \/ Highest(clauses[conflict].lits) = 0 PROVE ~ Lonely(r)
    <3>1. CASE r # conflict
      BY <3>1 DEF Lonely
    <3>2. CASE r = conflict /\ Highest(clauses[conflict].lits) = 0
      <4>1. SUFFICES ASSUME Lonely(r) PROVE FALSE
        OBVIOUS
      <4>2. PICK k \in Lits : LoneAt(k, r)
        BY <4>1 DEF Lonely
      <4>3. DL > 0 /\ DL \in Nat /\ TrailOK /\ pc = "analyze"
        BY <1>1, <1>9, <4>1, Levels DEF Lonely, Core, ChronoAnalyze
      <4>4. PICK s : s = clauses[r].lits
        OBVIOUS
      <4>5. s \in SUBSET Lits /\ \A x \in s : ~ Unassigned(x)
        BY <1>1, <2>1, <3>2, <4>3, <4>4, ClauseLits DEF Core, AnalysisOK, Live, IsFalse, Unassigned
      <4>6. \A x \in s : LevelOf(x) <= Highest(s)
        BY <4>3, <4>5, HighestFacts
      <4>7. DL <= 0
        BY <3>2, <4>2, <4>4, <4>6 DEF LoneAt
      <4> QED
        BY <4>3, <4>7
    <3> QED
      BY <2>2, <3>1, <3>2
  <2>3. r # conflict \/ Highest(clauses[conflict].lits) = 0 =>
            (S \subseteq clauses[r].watched => ExaminedFor(r, S))
    BY <1>2, <1>4, <2>1, <2>2
  <2>4. ExaminedFor(r, S)'
    BY <1>1, <1>3, <1>9, <2>3, ChronoAnalyzeExamined
  <2> QED
    BY <1>5, <2>4
<1>10. CASE Strengthen
  <2>1. ~ Lonely(r)
    <3>1. SUFFICES ASSUME Lonely(r) PROVE FALSE
      OBVIOUS
    <3>2. PICK k \in Lits : LoneAt(k, r)
      BY <3>1 DEF Lonely
    <3>3. pc = "uip" /\ Cardinality(Tracked) > 1
      BY <1>10 DEF Strengthen
    <3> QED
      BY <1>1, <3>1, <3>2, <3>3, LonelyTracked
  <2>2. r \in Live /\ l \in clauses[r].watched => ExaminedFor(r, {l})
    BY <1>4, <2>1
  <2> QED
    BY <1>1, <1>10, <2>2, StrengthenEach
<1>11. CASE Learn
  <2>1. JumpsLow
    <3>1. pc # "idle"
      BY <1>11 DEF Learn
    <3> QED
      BY <1>1, <3>1, JumpsLowHolds
  <2>2. CASE Lonely(r)
    BY <1>1, <1>11, <2>1, <2>2, LearnLonely
  <2>3. CASE ~ Lonely(r)
    <3>1. r \in Live => (S \subseteq clauses[r].watched => ExaminedFor(r, S))
      BY <1>2, <1>4, <2>3
    <3>2. ExaminedFor(r, S)'
      BY <1>1, <1>3, <1>11, <2>1, <3>1, LearnExamined
    <3> QED
      BY <1>5, <3>2
  <2> QED
    BY <2>2, <2>3
<1>12. CASE ReduceLearnts
  <2>1. \E q \in Learnt : ~ Shrunk[q].deleted
    BY <1>1, <1>12 DEF Regular
  <2>2. pc = "reduce" /\ reduced
    BY <1>12 DEF ReduceLearnts, InductiveInvariant
  <2>3. ~ opts.chrono
    BY <2>2, StepConstants DEF UnitsFound
  <2>4. r \in Live => \A k \in clauses[r].watched : ExaminedFor(r, {k})
    BY <1>4, <2>2 DEF Lonely, Analyzing
  <2> QED
    BY <1>1, <1>12, <2>1, <2>3, <2>4, ReduceLearntsEach
<1> QED
  BY <1>6, <1>7, <1>8, <1>9, <1>10, <1>11, <1>12 DEF Next

\* In the beginning there are no levels, and nothing has been propagated.
LEMMA InitEach == Init => InOrder /\ Tall /\ Asked /\ Each
<1> SUFFICES ASSUME Init PROVE InOrder /\ Tall /\ Asked /\ Each
  OBVIOUS
<1>1. propagated = 0 /\ pc = "idle" /\ dlevels = <<>>
  BY DEF Init
<1>2. DL = 0 /\ \A p : ~ Looked(p)
  BY <1>1 DEF Looked, DL
<1>3. 1 .. DL = {}
  BY <1>2
<1> QED
  BY <1>1, <1>2, <1>3 DEF InOrder, Tall, Asked, Each, ExaminedFor

\* A step that changes nothing keeps them.
LEMMA StutterEach ==
    ASSUME InOrder, Tall, Asked, Each, UNCHANGED vars
    PROVE  InOrder' /\ Tall' /\ Asked' /\ Each'
<1>1. UNCHANGED <<problem, opts, clauses, trail, propagated, dlevels, visiting, conflict, uip,
                  assumptions, reduced, pc>>
  BY DEF vars, search, limits, call
<1>2. InOrder' /\ Tall' /\ Asked' /\ (UnitsFound' => UnitsFound)
  BY <1>1 DEF InOrder, Tall, Asked, Cut, DL, UnitsFound
<1>3. ASSUME UnitsFound, NEW r \in Live', NEW l \in clauses'[r].watched
      PROVE  ExaminedFor(r, {l})' \/ Lonely(r)'
  <2>1. r \in Live /\ l \in clauses[r].watched
    BY <1>1, <1>3 DEF Live
  <2>2. CASE ExaminedFor(r, {l})
    <3>1. PICK S : S = {l}
      OBVIOUS
    <3>2. ExaminedFor(r, S)
      BY <2>2, <3>1
    <3>3. ExaminedFor(r, S)'
      BY <1>1, <2>1, <3>2, StaysExamined
    <3> QED
      BY <3>1, <3>3
  <2>3. CASE Lonely(r)
    <3>1. PICK k \in Lits : LoneAt(k, r)
      BY <2>3 DEF Lonely
    <3>2. (\A x : LevelOf(x)' = LevelOf(x)) /\ DL' = DL
      BY <1>1 DEF LevelOf, PositionOf, DL
    <3>3. LoneAt(k, r)'
      BY <1>1, <3>1, <3>2 DEF LoneAt
    <3> QED
      BY <1>1, <2>3, <3>2, <3>3 DEF Lonely, Analyzing
  <2> QED
    BY <1>3, <2>1, <2>2, <2>3 DEF Each
<1> QED
  BY <1>2, <1>3 DEF Each

\* What is examined in every proper behaviour, literal by literal.
LEMMA EachHolds ==
    Spec /\ [][Proper]_vars =>
        [](InductiveInvariant /\ Examined /\ InOrder /\ Tall /\ Asked /\ Each)
<1>1. InductiveInvariant /\ Examined /\ InOrder /\ Tall /\ Asked /\ Each /\ Proper /\ [Next]_vars
          => InOrder' /\ Tall' /\ Asked' /\ Each'
  BY StepLevelled, StepAsked, StepEach DEF InductiveInvariant, Core
<1>2. InOrder /\ Tall /\ Asked /\ Each /\ UNCHANGED vars => InOrder' /\ Tall' /\ Asked' /\ Each'
  BY StutterEach
<1> QED
  BY <1>1, <1>2, ExaminedHolds, InitEach, PTL DEF Spec

\* When propagation rests no clause is unit: the other watch is false, and what makes
\* the clause true then is not unassigned.
LEMMA NothingUnit ==
    ASSUME Core, Examined, Each, Quiescent, UnitsFound, NEW r \in Live
    PROVE  ~ UnitUnder(r)
<1>1. SUFFICES ASSUME UnitUnder(r) PROVE FALSE
  OBVIOUS
<1>2. PICK l \in clauses[r].lits : Unassigned(l) /\ \A k \in clauses[r].lits \ {l} : IsFalse(k)
  BY <1>1 DEF UnitUnder
<1>3. PositionsOK /\ ClausesOK /\ PropagationDone /\ pc = "search"
  BY PositionsHold DEF Core, Quiescent
<1>4. PICK k \in clauses[r].watched : k # l
  BY <1>3 DEF ClausesOK, IsPair
<1>5. k \in Lits /\ k \in clauses[r].lits /\ IsFalse(k)
  BY <1>2, <1>3, <1>4, WatchedInLits
<1>6. ExaminedFor(r, {k})
  BY <1>3, <1>4 DEF Each, Lonely, Analyzing
<1>7. PICK S : S = {k}
  OBVIOUS
<1>8. PICK x \in clauses[r].lits : IsTrue(x)
  BY <1>3, <1>5, <1>6, <1>7, ExaminedAtRest
<1>9. x \in Lits /\ ~ IsFalse(x)
  BY <1>3, <1>8 DEF PositionsOK, IsTrue, IsFalse
<1>10. x = l
  BY <1>2, <1>8, <1>9
<1> QED
  BY <1>2, <1>8, <1>10 DEF Unassigned, IsTrue

\* Two watched literals stand for all of a clause: when propagation has come to rest
\* in the search no clause is false and, where backtracking keeps the order, none unit.
THEOREM NothingIsMissed == Spec /\ [][Proper]_vars => []NothingMissed
<1>1. InductiveInvariant /\ Examined /\ Each => NothingMissed
  BY NothingFalse, NothingUnit DEF InductiveInvariant, NothingMissed, Quiescent
<1> QED
  BY <1>1, EachHolds, PTL

-----------------------------------------------------------------------------
(***************************************************************************)
(* Formulas that have a model.                                             *)
(***************************************************************************)
\* A call that ends with a conflict was a refutation, whatever it assumed.
Refuted == pc = "idle" /\ conflict # NOREF => Models = {}

\* Propagation ends a call only on a conflict of level 0.
LEMMA VisitWatchRefutes ==
    ASSUME InductiveInvariant, Answered, VisitWatch, pc' = "idle"
    PROVE  Models = {}
<1>1. PICK w \in visiting :
          \/ Satisfied(w) \/ ClauseDeleted(w) \/ VisitBinary(w)
          \/ OtherTrue(w) \/ FindLiteral(w) \/ OthersFalse(w)
  BY DEF VisitWatch
<1>2. Propagating /\ visiting # {}
  BY <1>1 DEF VisitWatch
<1>3. /\ Core /\ TrailOK /\ w.ref \in DOMAIN clauses /\ w.ref # NOREF
      /\ clauses[w.ref].lits \subseteq Lits /\ IsFalse(w.lit)
      /\ w.binary => clauses[w.ref].lits = {w.lit, w.imp}
      /\ ~ clauses[w.ref].deleted => clauses[w.ref].watched = {w.lit, Other(w)}
  BY VisitFacts DEF InductiveInvariant, Core, ClauseType, WatchType
<1>4. ~ Quiet
  BY <1>2 DEF Quiet, Propagating
<1>5. /\ Conflicting(w)
      /\ (VisitBinary(w) /\ IsFalse(w.imp)) \/ (OthersFalse(w) /\ IsFalse(Other(w)))
  BY <1>1, <1>4 DEF Satisfied, ClauseDeleted, VisitBinary, OtherTrue, FindLiteral, OthersFalse, Block
<1>6. \A l \in clauses[w.ref].lits : IsFalse(l)
  <2>1. CASE VisitBinary(w) /\ IsFalse(w.imp)
    BY <1>3, <2>1 DEF VisitBinary
  <2>2. CASE OthersFalse(w) /\ IsFalse(Other(w))
    BY <1>3, <2>2 DEF OthersFalse, Visited, Unwatched
  <2> QED
    BY <1>5, <2>1, <2>2
<1>7. DL = 0
  <2>1. CASE pc = "search"
    BY <1>5, <2>1 DEF Conflicting
  <2>2. CASE pc = "root"
    BY <2>2 DEF Answered
  <2>3. CASE pc = "reduce"
    <3>1. RootsWatched
      BY <1>3, <2>3 DEF InductiveInvariant, ToReduce, Core, RestOK
    <3> QED
      BY <1>2, <2>3, <3>1 DEF RootsWatched, PropagationDone
  <2> QED
    BY <1>2, <2>1, <2>2, <2>3 DEF Propagating
<1> QED
  BY <1>3, <1>6, <1>7, AllAtRoot, FalseAtRoot

\* So does the analysis.
LEMMA AnalysisRefutes ==
    ASSUME Core, Analyze \/ ChronoAnalyze, pc' = "idle"
    PROVE  Models = {}
<1>1. /\ TrailOK /\ DL \in Nat /\ conflict \in DOMAIN clauses /\ pc = "analyze"
      /\ clauses[conflict].lits \in SUBSET Lits
      /\ \A l \in clauses[conflict].lits : IsFalse(l) /\ ~ Unassigned(l)
  <2>1. pc = "analyze" /\ Analyzing
    BY DEF ChronoAnalyze, Analyze, Analyzing
  <2>2. TrailOK /\ clauses \in Seq(ClauseType)
    BY DEF Core, ClausesOK
  <2> QED
    BY <2>1, <2>2, ConflictFacts, Levels
<1>2. CASE Analyze
  <2>1. DL = 0
    BY <1>2 DEF Analyze, StartUip
  <2> QED
    BY <1>1, <2>1, AllAtRoot, FalseAtRoot
<1>3. CASE ChronoAnalyze
  <2>1. Highest(clauses[conflict].lits) = 0
    BY <1>3 DEF ChronoAnalyze, StartUip
  <2>2. \A l \in clauses[conflict].lits : LevelOf(l) \in 0 .. DL /\ LevelOf(l) <= 0
    BY <1>1, <2>1, HighestFacts, Levels
  <2>3. \A l \in clauses[conflict].lits : LevelOf(l) = 0
    BY <1>1, <2>2
  <2> QED
    BY <1>1, <2>3, FalseAtRoot
<1> QED
  BY <1>2, <1>3

\* Nothing else ends a call with a conflict.
LEMMA StepRefuted ==
    ASSUME InductiveInvariant, Answered, Refuted, [Next]_vars
    PROVE  Refuted'
<1>1. Models' = Models
  BY StepConstants DEF Models
<1>2. CASE UNCHANGED vars
  BY <1>1, <1>2 DEF Refuted, vars, call
<1>3. CASE VisitWatch \/ Analyze \/ ChronoAnalyze
  BY <1>1, <1>3, VisitWatchRefutes, AnalysisRefutes DEF Refuted, InductiveInvariant
<1>4. CASE AllAssigned \/ FailAssumption
  <2>1. conflict = NOREF /\ conflict' = conflict
    BY <1>4 DEF AllAssigned, FailAssumption, Quiescent, PropagationDone, InductiveInvariant, Core, RestOK
  <2> QED
    BY <2>1 DEF Refuted
<1>5. CASE \/ Call \/ NextLiteral \/ Resolve \/ Strengthen \/ Learn \/ RootDone \/ Reduce
           \/ ReduceLearnts \/ Restart \/ Decide
  <2>1. pc' # "idle"
    <3>1. CASE Call \/ NextLiteral \/ RootDone \/ Reduce \/ ReduceLearnts
      BY <3>1 DEF Call, NextLiteral, RootDone, Reduce, ReduceLearnts, Propagating
    <3>2. CASE Restart \/ Decide
      BY <3>2 DEF Restart, Decide, Quiescent
    <3>3. CASE Resolve \/ Strengthen
      BY <3>3 DEF Resolve, Strengthen
    <3>4. CASE Learn
      BY <3>4 DEF Learn
    <3> QED
      BY <1>5, <3>1, <3>2, <3>3, <3>4
  <2> QED
    BY <2>1 DEF Refuted
<1> QED
  BY <1>2, <1>3, <1>4, <1>5 DEF Next, Terminating

\* Where the formula has a model no call ends with a conflict of level 0, so that a
\* solver that is Regular is Proper too.
THEOREM SatisfiableIsProper ==
    Spec /\ [](Models # {}) /\ [][Regular]_vars => [][Proper]_vars
<1>1. Init => Refuted
  BY DEF Init, Refuted
<1>2. Refuted /\ Models # {} /\ [Regular]_vars => [Proper]_vars
  BY DEF Refuted, Proper, Call
<1> QED
  BY <1>1, <1>2, InvariantHolds, InitAnswered, StepAnswered, StepRefuted, PTL DEF Spec

\* So without a reduction nothing is asked of the callers of a formula that has a model.
COROLLARY SatisfiableIsSound ==
    Spec /\ [](Models # {}) /\ [](~ problem.reduce) => AnswersSoundly /\ []NothingMissed
<1>1. Spec /\ [](Models # {}) /\ [](~ problem.reduce) => [][Proper]_vars
  BY SearchIsRegular, SatisfiableIsProper
<1> QED
  BY <1>1, AnswersAreSound, NothingIsMissed
=============================================================================
