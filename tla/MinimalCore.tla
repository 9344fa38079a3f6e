---------------------------- MODULE MinimalCore ----------------------------
(***************************************************************************)
(* get_minimal_core of Geyser's CAR engines (geyser/src/engine/car.cpp,    *)
(* icar.cpp): a core of an unsatisfiable query is shrunk one literal at a  *)
(* time, each time to whatever core the solver has for what is left.       *)
(*                                                                         *)
(* The query is given by the sets of literals under which it is            *)
(* unsatisfiable.  Literals are tried in the order of the seed, any order. *)
(***************************************************************************)
CONSTANT Lits

VARIABLES
    unsat,  \* the sets of assumptions for which requery says unsatisfiable
    seed,   \* the core the solver returned before the call
    core,   \* what is left of it
    todo    \* the literals of the seed that were not tried

coreVars == <<unsat, seed, core, todo>>

\* With more assumptions an unsatisfiable query stays unsatisfiable.
Queries ==
    {q \in SUBSET SUBSET Lits : \A c \in q, d \in SUBSET Lits : c \subseteq d => d \in q}

\* get_core after a query under the assumptions c: any core within them.
SolverCores(c) == {d \in SUBSET c : d \in unsat}

CoreInit ==
    /\ unsat \in Queries
    /\ seed \in unsat
    /\ core = seed
    /\ todo = seed

\* The query is satisfiable without the literal: put it back.
KeepLiteral(l) == core' = core

\* It is not: go on from the solver's core of what is left.
ShrinkCore(l) == core' \in SolverCores(core \ {l})

\* One iteration; a literal that an earlier core lost is not tried.
TryLiteral ==
    \E l \in todo :
        /\ todo' = todo \ {l}
        /\ IF l \notin core THEN core' = core
           ELSE IF core \ {l} \notin unsat THEN KeepLiteral(l)
           ELSE ShrinkCore(l)
        /\ UNCHANGED <<unsat, seed>>

CoreTerminating == todo = {} /\ UNCHANGED coreVars

CoreNext == TryLiteral \/ CoreTerminating

CoreSpec == CoreInit /\ [][CoreNext]_coreVars

-----------------------------------------------------------------------------
CoreTypeOK ==
    /\ unsat \in Queries
    /\ seed \subseteq Lits
    /\ core \subseteq seed
    /\ todo \subseteq seed

\* What is blocked on the strength of the core is justified by a query.
StaysUnsatisfiable == core \in unsat

(***************************************************************************)
(* The core returned is unsatisfiable with no literal to spare, though each *)
(* was tried against a larger core than the one returned, and never again.  *)
(***************************************************************************)
NothingToSpare == todo = {} => core \in unsat /\ \A l \in core : core \ {l} \notin unsat

-----------------------------------------------------------------------------
\* Every literal that was tried and is still there is needed.
TriedAreNeeded == \A l \in core \ todo : core \ {l} \notin unsat

CoreInvariant == CoreTypeOK /\ StaysUnsatisfiable /\ TriedAreNeeded
=============================================================================
