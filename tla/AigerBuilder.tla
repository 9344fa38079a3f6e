---------------------------- MODULE AigerBuilder ----------------------------
(***************************************************************************)
(* How Geyser turns an AIGER circuit into a transition system              *)
(* (geyser/src/aiger_builder.cpp and .hpp): constants are propagated       *)
(* through the gates, the cone of influence of the error is determined,    *)
(* and what is left is translated to clauses.  One action per iteration of *)
(* a loop.                                                                 *)
(*                                                                         *)
(* An AIGER literal is twice its variable, plus one if negated; variable 0 *)
(* is the constant false.  make_context has the circuit re-encoded, so     *)
(* inputs come first, then latches, then gates, each after its operands.   *)
(***************************************************************************)
EXTENDS Integers, FiniteSets, Sequences

CONSTANTS
    NumInputs, NumLatches, NumAnds, \* the size of the circuits
    Circuits                        \* the circuits that are built

Latches == 1 .. NumLatches
Gates   == 1 .. NumAnds

LatchLit(i) == 2 * (NumInputs + i)
GateLit(g)  == 2 * (NumInputs + NumLatches + g)
AigerLits   == 0 .. 2 * (NumInputs + NumLatches + NumAnds) + 1

\* aiger_not
Not(l) == IF l % 2 = 0 THEN l + 1 ELSE l - 1

\* A reset is 0, 1 or the latch itself, which means that it is not reset.
AllCircuits ==
    [ rhs0 : [Gates -> AigerLits], rhs1 : [Gates -> AigerLits],
      next : [Latches -> AigerLits], reset : [Latches -> AigerLits], error : AigerLits ]

ReEncoded ==
    {c \in AllCircuits :
        /\ \A g \in Gates : c.rhs0[g] < GateLit(g) /\ c.rhs1[g] < GateLit(g)
        /\ \A i \in Latches : c.reset[i] \in {0, 1, LatchLit(i)}}

ASSUME SizesAssumption == NumInputs \in Nat /\ NumLatches \in Nat /\ NumAnds \in Nat
ASSUME CircuitsAssumption == \A c \in Circuits : c \in ReEncoded

VARIABLES
    circuit,    \* ctx.aig
    trueLits,   \* ctx.true_literals
    coi,        \* ctx.error_coi, as the numbers of latches
    required,   \* the set of that name in determine_coi and clausify_subgraph
    changed,    \* determine_coi's flag
    at,         \* the loops' i: a gate or a latch, from 1
    formulas,   \* the clauses of init, trans and error
    loop        \* which loop is running

builderVars == <<circuit, trueLits, coi, required, changed, at, formulas, loop>>

IsTrue(l)    == l \in trueLits
IsFalse(l)   == Not(l) \in trueLits
IsDecided(l) == IsTrue(l) \/ IsFalse(l)

Needed(l) == l \in required \/ Not(l) \in required

Operands(g) == {circuit.rhs0[g], circuit.rhs1[g]}

BuilderInit ==
    /\ circuit \in Circuits
    /\ trueLits = {1}
    /\ coi = {} /\ required = {} /\ changed = FALSE
    /\ at = 1
    /\ formulas = [init |-> {}, trans |-> {}, error |-> {}]
    /\ loop = "trues"

-----------------------------------------------------------------------------
\* propagate_trues
PropagateGate ==
    /\ loop = "trues" /\ at <= NumAnds
    /\ trueLits' = trueLits \cup
           (IF \A l \in Operands(at) : IsTrue(l) THEN {GateLit(at)}
            ELSE IF \E l \in Operands(at) : IsFalse(l) THEN {Not(GateLit(at))}
            ELSE {})
    /\ at' = at + 1
    /\ UNCHANGED <<circuit, coi, required, changed, formulas, loop>>

\* determine_coi begins, or returns at once.
StartCoi ==
    /\ loop = "trues" /\ at > NumAnds
    /\ loop' = IF IsDecided(circuit.error) THEN "init" ELSE "gates"
    /\ required' = {circuit.error}
    /\ at' = NumAnds
    /\ UNCHANGED <<circuit, trueLits, coi, changed, formulas>>

Require(lits) ==
    /\ required' = required \cup lits
    /\ changed' = (changed \/ ~ lits \subseteq required)

RequireGate ==
    /\ loop = "gates" /\ at >= 1
    /\ Require(IF Needed(GateLit(at)) /\ ~ IsDecided(GateLit(at)) THEN Operands(at) ELSE {})
    /\ at' = at - 1
    /\ UNCHANGED <<circuit, trueLits, coi, formulas, loop>>

GatesRequired ==
    /\ loop = "gates" /\ at = 0
    /\ loop' = "latches" /\ at' = 1
    /\ UNCHANGED <<circuit, trueLits, coi, required, changed, formulas>>

RequireLatch ==
    /\ loop = "latches" /\ at <= NumLatches
    /\ Require(IF Needed(LatchLit(at)) THEN {circuit.next[at]} ELSE {})
    /\ at' = at + 1
    /\ UNCHANGED <<circuit, trueLits, coi, formulas, loop>>

\* As if the flag were not reset.
BugRequireAgain ==
    /\ loop = "latches" /\ at > NumLatches /\ changed
    /\ loop' = "gates" /\ at' = NumAnds
    /\ UNCHANGED <<circuit, trueLits, coi, required, changed, formulas>>

RequireAgain ==
    /\ loop = "latches" /\ at > NumLatches /\ changed
    /\ loop' = "gates" /\ at' = NumAnds /\ changed' = FALSE
    /\ UNCHANGED <<circuit, trueLits, coi, required, formulas>>

\* As if a pass over gates and latches were enough.
BugCoiFound ==
    /\ loop = "latches" /\ at > NumLatches
    /\ coi' = {i \in Latches : Needed(LatchLit(i))}
    /\ loop' = "init"
    /\ UNCHANGED <<circuit, trueLits, required, changed, at, formulas>>

CoiFound ==
    /\ loop = "latches" /\ at > NumLatches /\ ~ changed
    /\ coi' = {i \in Latches : Needed(LatchLit(i))}
    /\ loop' = "init"
    /\ UNCHANGED <<circuit, trueLits, required, changed, at, formulas>>

-----------------------------------------------------------------------------
\* The ranges that make_context takes from the variable store, in its order.
StateVar(i) == NumInputs + i
NextVar(i)  == NumInputs + NumLatches + i
AndVar(g)   == NumInputs + 2 * NumLatches + g
AndVars     == {AndVar(g) : g \in Gates}

\* from_aiger_lit
FromAiger(l) ==
    LET v   == l \div 2
        var == IF v <= NumInputs + NumLatches THEN v ELSE AndVar(v - NumInputs - NumLatches)
    IN IF l % 2 = 0 THEN var ELSE -var

Equivalence(x, y) == {{-x, y}, {-y, x}}

\* As if a gate with a true operand were not simplified.
BugClausifiedAnd(g) ==
    LET lhs  == FromAiger(GateLit(g))
        rhs0 == FromAiger(circuit.rhs0[g])
        rhs1 == FromAiger(circuit.rhs1[g])
    IN {{-lhs, rhs0}, {-lhs, rhs1}, {-rhs0, -rhs1, lhs}}

\* clausify_and
ClausifiedAnd(g) ==
    LET lhs  == FromAiger(GateLit(g))
        rhs0 == FromAiger(circuit.rhs0[g])
        rhs1 == FromAiger(circuit.rhs1[g])
    IN CASE IsTrue(circuit.rhs0[g]) -> Equivalence(lhs, rhs1)
         [] ~ IsTrue(circuit.rhs0[g]) /\ IsTrue(circuit.rhs1[g]) -> Equivalence(lhs, rhs0)
         [] OTHER -> {{-lhs, rhs0}, {-lhs, rhs1}, {-rhs0, -rhs1, lhs}}

BuildInit ==
    /\ loop = "init"
    /\ formulas' = [formulas EXCEPT !.init =
           {{IF circuit.reset[i] = 0 THEN -StateVar(i) ELSE StateVar(i)} :
               i \in {j \in Latches : circuit.reset[j] \in {0, 1}}}]
    /\ required' = {circuit.next[i] : i \in {j \in coi : ~ IsDecided(circuit.next[j])}}
    /\ loop' = "trans" /\ at' = NumAnds
    /\ UNCHANGED <<circuit, trueLits, coi, changed>>

\* clausify_subgraph, for trans and for error.
ClausifyGate ==
    /\ loop \in {"trans", "error"} /\ at >= 1
    /\ IF Needed(GateLit(at)) /\ ~ IsDecided(GateLit(at))
       THEN /\ formulas' = [formulas EXCEPT ![loop] = @ \cup ClausifiedAnd(at)]
            /\ required' = required \cup Operands(at)
       ELSE UNCHANGED <<formulas, required>>
    /\ at' = at - 1
    /\ UNCHANGED <<circuit, trueLits, coi, changed, loop>>

\* As if latches outside the cone kept their next-state functions.
BugLatchClauses(i) ==
    CASE IsTrue(circuit.next[i]) -> {{NextVar(i)}}
      [] IsFalse(circuit.next[i]) -> {{-NextVar(i)}}
      [] OTHER -> Equivalence(NextVar(i), FromAiger(circuit.next[i]))

\* The next state of a latch; it is false outside the cone of influence.
LatchClauses(i) ==
    CASE IsTrue(circuit.next[i]) -> {{NextVar(i)}}
      [] ~ IsTrue(circuit.next[i]) /\ (IsFalse(circuit.next[i]) \/ i \notin coi) ->
             {{-NextVar(i)}}
      [] OTHER -> Equivalence(NextVar(i), FromAiger(circuit.next[i]))

\* build_trans ends, and build_error begins unless the error is a constant.
BuildTrans ==
    /\ loop = "trans" /\ at = 0
    /\ formulas' =
           [formulas EXCEPT !.trans = @ \cup UNION {LatchClauses(i) : i \in Latches},
                            !.error = IF IsFalse(circuit.error) THEN {{}} ELSE {}]
    /\ required' = {circuit.error}
    /\ loop' = IF IsDecided(circuit.error) THEN "done" ELSE "error"
    /\ at' = NumAnds
    /\ UNCHANGED <<circuit, trueLits, coi, changed>>

BuildError ==
    /\ loop = "error" /\ at = 0
    /\ formulas' = [formulas EXCEPT !.error = @ \cup {{FromAiger(circuit.error)}}]
    /\ loop' = "done"
    /\ UNCHANGED <<circuit, trueLits, coi, required, changed, at>>

BuilderTerminating == loop = "done" /\ UNCHANGED builderVars

BuilderNext ==
    \/ PropagateGate \/ StartCoi
    \/ RequireGate \/ GatesRequired \/ RequireLatch \/ RequireAgain \/ CoiFound
    \/ BuildInit \/ ClausifyGate \/ BuildTrans \/ BuildError
    \/ BuilderTerminating

BuilderSpec == BuilderInit /\ [][BuilderNext]_builderVars

\* A single thread that nothing blocks.
FairBuilderSpec == BuilderSpec /\ WF_builderVars(BuilderNext)

-----------------------------------------------------------------------------
BuilderTypeOK ==
    /\ circuit \in Circuits
    /\ trueLits \subseteq AigerLits
    /\ required \subseteq AigerLits
    /\ coi \subseteq Latches
    /\ changed \in BOOLEAN
    /\ at \in 0 .. NumAnds + NumLatches + 1
    /\ loop \in {"gates", "trans", "error"} => at <= NumAnds
    /\ \A f \in {"init", "trans", "error"} :
           UNION formulas[f] \subseteq {v * b : v \in 0 .. AndVar(NumAnds), b \in {-1, 1}}
    /\ loop \in {"trues", "gates", "latches", "init", "trans", "error", "done"}

-----------------------------------------------------------------------------
(***************************************************************************)
(* What the circuit means.  States and inputs are those of the transition  *)
(* systems the engines run on: a state is the set of its literals.         *)
(***************************************************************************)
InputSets == SUBSET (1 .. NumInputs)

System == INSTANCE TransitionSystem
              WITH NumVars <- NumLatches, Inputs <- InputSets, Systems <- {}

\* The values of all variables of the circuit in a state under an input.
Values(s, x) ==
    LET value[v \in 0 .. NumInputs + NumLatches + NumAnds] ==
            LET g == v - NumInputs - NumLatches
                Holds(l) == IF l % 2 = 0 THEN value[l \div 2] ELSE ~ value[l \div 2]
            IN CASE v = 0 -> FALSE
                 [] v \in 1 .. NumInputs -> v \in x
                 [] v - NumInputs \in Latches -> v - NumInputs \in s
                 [] OTHER -> Holds(circuit.rhs0[g]) /\ Holds(circuit.rhs1[g])
    IN value

LitHolds(l, values) == IF l % 2 = 0 THEN values[l \div 2] ELSE ~ values[l \div 2]

CircuitSystem ==
    [ init |-> UNION {CASE circuit.reset[i] = 0 -> {-i}
                        [] circuit.reset[i] = 1 -> {i}
                        [] OTHER -> {} : i \in Latches},
      next |-> [e \in System!States \X InputSets |->
                   LET values == Values(e[1], e[2]) IN
                   {IF LitHolds(circuit.next[i], values) THEN i ELSE -i : i \in Latches}],
      bad  |-> {e \in System!States \X InputSets :
                   LitHolds(circuit.error, Values(e[1], e[2]))} ]

-----------------------------------------------------------------------------
\* The literals of the built formulas that a state, input and next state fix.
Fixed(s, x, t) ==
    {IF i \in x THEN i ELSE -i : i \in 1 .. NumInputs}
      \cup {IF i \in s THEN StateVar(i) ELSE -StateVar(i) : i \in Latches}
      \cup {IF i \in t THEN NextVar(i) ELSE -NextVar(i) : i \in Latches}

\* The auxiliary variables can be chosen so that the clauses hold.
Satisfiable(clauses, lits) ==
    \E on \in SUBSET AndVars :
        LET all == lits \cup on \cup {-v : v \in AndVars \ on} IN
        \A c \in clauses : c \cap all # {}

\* Propagated constants are constants of the circuit.
TruesAreConstant ==
    \A s \in System!States, x \in InputSets : LET values == Values(s, x) IN
        \A l \in trueLits : LitHolds(l, values)

(***************************************************************************)
(* from_aiger_lit's assertion: a constant never gets into a clause.  It is *)
(* a matter of order, of the gates and of the two tests in clausify_and.   *)
(***************************************************************************)
NoConstantInClauses ==
    \A f \in {"init", "trans", "error"} : 0 \notin UNION formulas[f]

(***************************************************************************)
(* What the engines take for granted of a system: trans is a function, and *)
(* trans and error hold together, which share their auxiliary variables,   *)
(* whenever each holds.  A latch in the cone of influence gets the value   *)
(* the circuit gives it, and the error is the circuit's.                   *)
(***************************************************************************)
FormulasAreExact ==
    loop = "done" =>
        \A s \in System!States, x \in InputSets :
            LET next == System!Step(CircuitSystem, s, x)
                kept == {i \in Latches : i \in coi \/ IsTrue(circuit.next[i])}
                t    == {IF i \in kept \cap next THEN i ELSE -i : i \in Latches}
                bad  == System!Bad(CircuitSystem, s, x)
            IN /\ \A u \in System!States :
                      Satisfiable(formulas.trans, Fixed(s, x, u)) <=> u = t
               /\ Satisfiable(formulas.error, Fixed(s, x, t)) <=> bad
               /\ Satisfiable(formulas.trans \cup formulas.error, Fixed(s, x, t)) <=> bad

\* What the built formulas say, as a system the engines' models run on.
BuiltSystem ==
    [ init |-> UNION {{i \in Latches : {StateVar(i)} \in formulas.init},
                      {-i : i \in {j \in Latches : {-StateVar(j)} \in formulas.init}}},
      next |-> [e \in System!States \X InputSets |->
                   CHOOSE t \in System!States :
                       Satisfiable(formulas.trans, Fixed(e[1], e[2], t))],
      bad  |-> {e \in System!States \X InputSets :
                   Satisfiable(formulas.error, Fixed(e[1], e[2], e[1]))} ]

(***************************************************************************)
(* The verdict about the built system is the verdict about the circuit,    *)
(* although latches outside the cone of influence are frozen.              *)
(***************************************************************************)
SafetyPreserved ==
    loop = "done" =>
        /\ BuiltSystem \in System!TransitionSystems
        /\ System!Safe(BuiltSystem) <=> System!Safe(CircuitSystem)

\* The loop of determine_coi ends, and the system is built.
SystemIsBuilt == <>(loop = "done")
=============================================================================
