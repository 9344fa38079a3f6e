# Geyser and ParaFROST in TLA+

This directory specifies and verifies Geyser, the symbolic model checker under
`src/geyser/` (its four engines and the construction of the systems they run on),
and the incremental search of ParaFROST, the SAT solver under `src/src/`. The modules are translated from the C++ source; every
definition that models code is listed with its lines in `PROJECT.json` (`map`).

## 1. The system

Geyser reads an AIGER circuit, turns it into a transition system over Boolean
state and input variables, runs one engine on it and prints the result as an
AIGER witness. The repository also holds the SAT solver ParaFROST (CPU and GPU),
which the PDR engine starts as a separate process, and two Python harnesses.

| Component | State it keeps | Operations | Interacts with |
|---|---|---|---|
| Formulas and transition systems (`logic.hpp`, `transition_system.hpp`) | literals, cubes, CNF formulas; init, trans, error | subsumption, negation, activation, priming | everything |
| SAT solver wrapper (`solver.hpp`) | one CaDiCaL instance, its clauses and last answer | assert, assume, constrain, solve, model, core | the engines; a model or a core is only valid until the next query |
| Engine interface (`base.hpp`) | none | `run` returns ok, unknown or counterexample | `main`, the witness writer |
| PDR (`pdr.cpp`, `pdr.hpp`) | frames of blocked cubes, one activator per frame, three solvers, a pool of counterexamples to induction, a refresh counter | find an error state, solve obligations, generalize, block, propagate, refresh the solvers, build a counterexample | its three solvers, by calls; ParaFROST through a file |
| BMC (`bmc.cpp`, `bmc.hpp`) | versioned variables, cached transition formulas, activators, one solver | unroll, add an error, query, refresh the solver | its solver |
| CAR, forward and backward (`car.cpp`) | trace, cotrace of coframes, pool of bad cubes, three solvers | as PDR, over exact distances; scan of the cotrace, minimal cores, inductiveness check | its solvers; backward mode reverses the system |
| ICAR (`icar.cpp`) | trace, flat cotrace with an activator per cube, two solvers | as CAR, the cotrace in one query with CaDiCaL's constrain | its solvers |
| AIGER builder (`aiger_builder.cpp`) | a context during construction | constants, cone of influence, Tseitin clauses, init, trans, error | AIGER library; `main` |
| Witness writer and harnesses (`witness_writer.cpp`, `runner.py`, `test_automation.py`) | none | print a result; classify the printout | stdout, `aigsim` |
| Preprocessing (`apply_gpu_preprocessing`) | a file in `/tmp` | write DIMACS, run ParaFROST, discard the outcome | PDR's `initialize` |
| ParaFROST, CPU (`src/src/cpu`) | trail, levels, watches, clauses, assumptions | incremental calls, propagation, analysis, backtracking, restarts, inprocessing | its callers, by `isolve` |
| ParaFROST, GPU (`src/src/gpu`) | the same, and device memory | the same search, inprocessing in kernels | its own process |
| Command line and `main` | options | parse, build, run, print | all of the above |

Every engine is one thread. What makes them hard is not concurrency but long
chains of queries whose answers are not determined: a satisfiable query may
return any model and an unsatisfiable one any core, the conclusions of one query
are used many queries later, and the same facts live in several copies that are
thrown away and rebuilt every hundred iterations. The hazards in `PROJECT.json`
are of these kinds: state kept over queries that must still be justified when it
is used, copies that must agree, a rebuild that must lose nothing, handles that
must stay valid, boundaries of levels and steps, and loops that must end.

What makes the components correct:

* **Engine**: ok only for a safe system, counterexample only for an unsafe one.
* **PDR**: the trace is an inductive sequence that starts in the initial states
  and is safe below the frontier; frames and solvers agree; an obligation is
  outside the level below it; a generalized cube may be blocked where it has got
  to; levels only shrink; a counterexample replays; the run ends.
* **BMC**: a query at step k is of exactly k transitions and the error of step k,
  whatever was thrown away before; the counterexample is a shortest one and
  replays; unknown means none up to the bound; the run ends.
* **CAR/ICAR**: the same promise, over levels that are not cumulative; nothing bad
  that was found is forgotten; a coframe is not changed while it is read; a query
  for the cotrace is answered with the right cube; a core has no literal to spare.
* **AIGER builder**: the formulas mean what the circuit means on the cone of
  influence, and no constant gets into them; the construction ends.
* **ParaFROST**: a call answers sat with a model of the formula and the assumptions,
  or unsat if there is none; what is learnt, strengthened and removed leaves
  the formula what it was; reasons and watches stay valid when literals of lower
  levels are kept; the core of a failed assumption follows; the call ends.
* **Witness and harness**: the classification of the printout is the verdict.

## 2. Modules

| Module | What it is |
|---|---|
| `TransitionSystem` | literals, cubes, states, systems; safety of a system; runs |
| `TransitionSystemProofs` | lemmas about them that all engines' proofs use |
| `Engine` | the abstract specification of `engine::run` |
| `PDR`, `PDRProofs` | the PDR engine, its properties, its inductive invariant; proofs |
| `MCPDR`, `MCPDRDeep`, `DeepSystems` | PDR on every system with two latches; on a family with three latches and an input |
| `BMC`, `MCBMC` | the BMC engine; its instance |
| `CARTrace`, `CARTraceProofs` | what CAR and ICAR share: trace, propagation, inductiveness check; proofs, those of `MinimalCore` included |
| `CAR`, `CARProofs`, `MCCAR` | CAR in both directions and with its options; proofs; its instance |
| `ICAR`, `ICARProofs`, `MCICAR` | ICAR; proofs; its instance |
| `MinimalCore` | `get_minimal_core` of CAR and ICAR |
| `AigerBuilder`, `MCAigerBuilder` | from a circuit to the formulas of a system; its instance |
| `AigerBMCProofs` | proofs about the builder, about BMC, and about an engine that is run on what is built |
| `SatPromise` | the abstract specification of an incremental SAT solver |
| `CDCL`, `MCCDCL` | the incremental search of ParaFROST; its instances |
| `CDCLProofs`, `CDCLAnswerProofs` | proofs that what the search derives is true; that its answers are |

`Engine` is the abstract specification that PDR, BMC, CAR and ICAR implement
(`Answer == INSTANCE Engine WITH verdict <- ...`, checked as `AnswersSoundly`);
`SatPromise` is the one that CDCL implements. `AigerBuilder` is composed with
`TransitionSystem`: it states that the system read off the formulas it built is
safe if and only if the circuit is, which is what the engines are then asked.
`AigerBMCProofs` puts the two together: what an engine answers for the built system is
true of the circuit.

### TransitionSystem

A literal is the nonzero integer in `literal::_value`, a cube is a set of
literals, a state a cube that decides every latch; `cube::subsumes` is inclusion.
`init` is a cube because `make_context` rejects invariant constraints and
`build_init` emits unit clauses only. `trans` comes from latches, so it is a
function of state and input, and `error` is a set of pairs of state and input
because in AIGER the error may depend on the input. CNF layout, variable
numbers and auxiliary variables are left out; where backward CAR depends on the latter,
`CARTrace` has the values of their gates.

`Safe(sys)` is the existence of an inductive set of states without bad inputs.
It is equivalent to the absence of a run to the error and needs no recursion.

### PDR

The variables are the members of class `pdr` and the locals of the functions
that are in progress:

| Variable | Code |
|---|---|
| `depth`, `frames` | `depth()`, `_trace_blocked_cubes` (each frame a set) |
| `clauses` | for each of the three solvers, the clauses activated at a level |
| `ctis` | `_ctis`; `Append` is `make`, the empty sequence is `flush` |
| `queue` | `min_queue` in `solve_obligation` |
| `gen` | `res_lits`, `res_level` and what is left of `all_lits` in `generalize_inductive` |
| `pushing` | the level and what is left of the copied frame in `propagate` |
| `refreshCounter` | `_solver_refresh_counter` |
| `pc`, `result` | where the thread is, what `run` returned |

`R(sv, i)` is the set of states solver `sv` sees at level i: those that obey the
clauses activated at levels from i up. Queries are statements about `R`, so the
solvers' copies decide what the engine concludes, as in the code, and never the
frames. Each action is one query with everything done on its answer:

| Action | Code |
|---|---|
| `FindErrorState`, `PushFrame` | `get_error_cti` and the two branches of `check` |
| `ReachedInit`, `DropBlocked`, `AddPredecessor`, `StartBlocking` | the four outcomes for an obligation in `solve_obligation` |
| `ShrinkCube`, `RaiseCube`, `BlockCube` | an iteration of each loop of `generalize_inductive`; `add_blocked_at` and the repush |
| `ObligationsSolved` | `solve_obligation` returns nothing |
| `PropagateCube`, `NextFrame`, `FindInvariant`, `EndPropagate` | the loops and the exits of `propagate` |
| `EndIteration` | `flush`, the counter, `refresh_solvers` |

Choices: any model (`\E` over states and inputs), any core (`GeneralizeFromCore`
allows every subset of the literals and every level for which the query with
only these is still unsatisfiable), any order of the literals of a cube. A core
may also be taken with a literal more than is needed, as a solver may return it.
The duplicates a frame can hold, since `add_blocked_at` removes what the new cube
subsumes first, never arise; frames are sets.

### BMC

`unrolled` is the set of steps whose transition formula the solver holds,
`activators` the step whose error formula each activator guards, `versions` the
size of `_versioned_trans`. The models of the solver are computed from
`unrolled`: a step whose formula is missing is followed by an arbitrary state.
The actions are the refresh or not at the head of the loop, the formulas added
by `check_for`, the two answers, and the end of the loop. Assertions are not
guards: a build without them goes on, and what they say is stated as properties.

### CARTrace, CAR and ICAR

| Variable | Code |
|---|---|
| `options` | `car_options` and `_forward`: direction, `--no-propagate-cores`, `--repush`, the two core minimizations, `--no-cotrace` |
| `depth`, `frames`, `clauses` | as in PDR; a cube blocked at a level is blocked there only |
| `pool` | `_cotrace`, the pool's entries with input and successor |
| `pushing` | the level, what is left of the copied frame and `pushed_all` in `propagate` |
| `codepth`, `cotrace`, `scan` (CAR) | `_cotrace_found_cubes`, and the two loops of `check_existing_cotrace` |
| `found` (ICAR) | `_cotrace_found_cubes` in the order of their activators |
| `queue` | `min_queue` in `solve_obligation`, with the coframe's level in CAR |

| Action | Code |
|---|---|
| `ScanCube`, `ScanNextCoframe` (CAR) | an iteration of either loop of `check_existing_cotrace` |
| `FindErrorState`, `NoErrorState` | the error query and `push_frame`; in ICAR the query under a clause of activators |
| `ReachedInit`, `DropBlocked`, `AddPredecessor`, `BlockCube` | the outcomes for an obligation; `EndObligation` in ICAR joins the two that end one |
| `PropagateCube`, `FramePushed`, `NextFrame`, `EndPropagate` | the loops of `propagate` and its early success |
| `FindInvariant`, `NextIteration` | `is_inductive` and the end of an iteration |

In backward mode the systems of the model are the ones before the reversal:
`TransHolds`, `InitHolds` and `ErrorHolds` are the three formulas after
`reverse_system`, trans then being a relation. The initial formula, which was the error,
shares with it whatever `reverse_system` does not rename: the inputs, and the auxiliary
variables of the gates that both formulas use (`car.cpp:632`; `aiger_builder.hpp:50-51`
gives a gate one variable in every formula). At level 0 the solver asserts both, one over
the states of the level and the other over those the step leads to, and so sees only steps
between states that give these gates the same values. `TransHoldsAt` says so;
`SharedGates`, a constant, is the value of the shared gates in each state under each
input, for each system. Forward the two formulas speak of the same state and the gates
tie nothing. `is_inductive` reads the frames and
not the solvers and is modelled by the question its clauses ask, including that
`_init_negated` says nothing in backward mode (`negate_cnf` ends a formula of
several clauses with an empty one). A predecessor or blocked core is any that the
queries allow, and a minimal one where the option says so; `MinimalCore` shows
that what the option runs does return a minimal one. Coframes are sets: their
order depends on the swaps of removals and is left open.

### AigerBuilder

The variables are the two passes' results (`trueLits`, `required`, `coi`,
`changed`), the position `at` in the loop in progress and the `formulas` built so
far; each action is one iteration of a loop of `propagate_trues`, `determine_coi`
or `clausify_subgraph`, or one of `build_init`, `build_trans` and `build_error`.
Literals keep the AIGER encoding and variables the numbers that `make_context`
gives them. What the circuit means (`Values`, `CircuitSystem`) is defined without
regard to the construction. Circuits obey what `aiger_reencode` and the checks of
`make_context` guarantee: gates in topological order, latches with reset 0, 1 or
themselves, one error output.

### CDCL

| Variable | Code |
|---|---|
| `clauses` | `cm`, `orgs`, `learnts`: literals, the two watched, learnt, deleted |
| `watches`, `visiting` | `wt`, and what BCP has yet to visit of a list |
| `trail`, `propagated`, `dlevels` | `sp->trail` with level and source, `sp->propagated`, `dlevels` |
| `conflict`, `uip` | `conflict`, and what `finduip` has seen and resolved |
| `assumptions`, `iconflict`, `cnfstate`, `calls` | the state of `isolve` |
| `rested`, `reduced` | whether a conflict has happened since the last restart; whether the reduction has come |

| Action | Code |
|---|---|
| `Call` | `iunassume` and `iassume` at the start of `isolve` |
| `NextLiteral`, `VisitWatch` | `BCP`: the next literal of the trail; one watch of its list |
| `ChronoAnalyze`, `Analyze` | `chronoAnalyze` and the start of `analyze` |
| `Resolve`, `Strengthen`, `Learn` | a step of `finduip`; `strengthenOTF` with the removal of subsumed clauses; minimization, backjump and the learnt clause |
| `Reduce`, `ReduceLearnts` | `chronoHasRoot` and the BCP it starts; `shrink`, `reduceLearnts` and `recycle` |
| `RootDone`, `AllAssigned`, `Restart`, `Decide`, `FailAssumption` | the branches of `isolve`'s loop; `idecide`, `ianalyze` |

Left open are the orders that activities, phases and positions in clauses and
lists decide: any unassigned literal may be decided, any watch visited next, any
literal watched instead, a restart may keep any number of levels, and a reduction
may remove any large learnt clause that is not a reason, whatever its LBD and usage.
The code reduces after hundreds of conflicts and then ever more rarely; the model
reduces once, as soon as there is a learnt clause. The limits
`minimize_depth`, `minimize_lbd`, `minimize_min` and `learntsub_max` are not
reached by formulas of this size, so minimization and subsumption always run.

## 3. What is checked

`tlc -config <cfg> <module>` for each run.

| Run | Instance | Distinct states | Properties |
|---|---|---|---|
| `pdr_every_system` (`MCPDR`) | all 12288 systems with 2 latches, no input, 3 initial cubes; refresh every 2 iterations | 184 626 | `TypeOK`, `TraceSafe`, `SolversAgreeWithFrames`, `LevelsOnlyShrink`, `AnswersSoundly`, `Termination` |
| `pdr_deep` (`MCPDRDeep`) | 288 systems with 3 latches and an input bit: counters, shift registers, rings, a latch that remembers; 4 initial cubes, 8 bad states | 28 509 | `InitInTrace`, `StepsStayInTrace`, `ObligationsOutsideLowerLevel`, `GeneralizationSound`, `WitnessReplays` |
| `bmc` (`MCBMC`) | 8192 systems with 2 latches and an input bit, bounds 1 and 5, refresh every 2 steps | 138 712 | `QueryIsExact`, `ShortestCounterexample`, `UnknownUpToBound`, `WitnessReplays`, `AnswersSoundly` |
| `car` (`MCCAR`) | 128 systems with 2 latches and an input bit, half of them with a gate that trans and error share; forward with the default options and any one or two changed (16), backward with 8 combinations | 324 430 | `StepsStayInTrace`, `SolversAgreeWithFrames`, `NothingForgotten`, `ColevelsAreDistances`, `WitnessReplays`, `ScannedCoframeStable`, `AnswersSoundly`, `Termination` |
| `icar` (`MCICAR`) | 2 latches and an input bit, with and without the cotrace | 93 869 | `ObligationsOpen`, `AnswersSoundly`, `Termination` |
| `aiger_builder` (`MCAigerBuilder`) | 23040 circuits with an input, 2 latches, 2 gates | 537 612 | `NoConstantInClauses`, `FormulasAreExact`, `SafetyPreserved`, `SystemIsBuilt` |
| `cdcl` (`MCCDCL`) | 11 formulas over 4 variables, 4 of them with a reduction, called once or twice with up to 3 assumptions; chronological backtracking off, always, and from distance 100 | 391 047 | `TypeOK`, `DatabaseEquivalent`, `ReasonsImply`, `WatchesConsistent`, `NothingMissed`, `CoreImplied`, `AnswersSoundly`, `Termination` |
| `pdr_witness_initial_state` (`MCPDR`) | as `pdr_every_system` | stops | `WitnessStartsInInit` fails |
| `bmc_activator_assertion` (`MCBMC`) | as `bmc` | stops | `ActivatorPerStep` fails |
| `car_backward_ok` (`MCCAR`) | as `car` | stops | `OkMeansSafe` fails |
| `cdcl_unsat_twice` (`MCCDCL`) | an unsatisfiable formula, called three times | stops | `ModelsSatisfyFormula` fails |
| `cdcl_sat_against_assumption` (`MCCDCL`) | a formula with one clause and two units, called with two assumptions | stops | `ModelsRespectAssumptions` fails |

**Why the bounds are enough.**

*PDR.* With two latches and no input every next-state function, every bad set and
three kinds of initial cube (all latches reset, one reset to 1, one
uninitialized) are tried, so traces of up to four frames, empty cores, cores that
intersect the initial states, cubes pushed past the frontier and frames emptied by
subsumption all occur. An input adds predecessors that are generalized under it;
the deep family has that, and runs of up to eight steps, so that obligations are
pushed again and the solvers are refreshed several times with a trace in place.
The code's refresh rate of 100 would never be reached on such systems: rate 2
makes it happen in every run and keeps an iteration without a refresh in between.

*BMC.* Four states need at most four inputs to the error, and the larger bound
lets the solver be emptied at steps 0, 2 and 4.

*CAR, ICAR.* The next state depends on the input in one state and the error may
depend on it, so that a bad cube has predecessors under some inputs only and the
input of each step of a counterexample matters. The four states let coframes of
distance 0 to 3 occur, cubes subsume others in a coframe and a frame, and the
levels be found inductive at once, by pushing all of a frame, and by
`is_inductive`. The shared gate is the one by which the error depends on the latches: a
step from a state that is not bad into one that is changes it, so that backward CAR misses the
step at level 0 and ends with ok for systems that are unsafe, with and without an input
in their error. Each option meets each other one with the rest at their defaults.

*AIGER builder.* The second gate may take the first one or its negation, latches
take gates, inputs, constants and each other, so constants reach the cone through
a gate and a latch, and the cone takes up to three passes.

*CDCL.* The formulas were chosen, and checked to do so, to make the search learn
over several levels, minimize over a binary and over a longer reason, strengthen a
clause to two literals, remove a subsumed reason, keep literals out of order when
it backtracks chronologically, fail, contradict or satisfy assumptions before
and after decisions, fail one at level 0 on the level of another, assign the last
variable before all assumptions were looked at, and shrink clauses, keep reasons and watch large learnt
clauses anew in a reduction. `distance` 0 and 100 are the two sides of the threshold; only
with the first are learnt literals asserted above the level their clause is false
at. `NothingMissed` asks of all options that no clause is false when propagation rests; that
none is unit it asks where `UnitsFound` says that backtracking keeps literals in
place, and it is false elsewhere. With distance 0 a literal that is asserted too high
may be undone while the rest of its clause stays false. With any distance, `chronoAnalyze`
enqueues a literal late at a low level when strengthening has left a clause with one
literal of its highest level; a reduction may then make `sortClause` watch, of two
literals of that level, the one that lies early, and a restart that keeps the level
propagates only the late one again. Six variables are enough: clauses 3 -1 5, 3 2 6,
-5 -6, 4 -2 -1, -4 -2, where 3 2 -1 is learnt and unit after a restart to
level 1 without being noticed. No answer depends on it, since a decision then makes the
clause a conflict or satisfies it; the theorems on answers need only the first half.
Two calls are enough to
use what a call leaves; what a third one does after two answers of unsat is a
finding, and the run `cdcl` stays below it.

No deadlock check is switched off: `Terminating` stutters once the program has
returned, and every other state must have a step.

**Fairness.** `FairSpec` adds weak fairness of the whole next-state relation and
nothing more: one thread that nothing blocks goes on to run, and CaDiCaL is
assumed to answer. Which model or core it answers, and which literal is decided,
is not assumed to be fair, so `Termination` holds for every sequence of choices.
`SystemIsBuilt`, the termination of the builder, assumes the same of its loops.

**Refinement.** `AnswersSoundly` is the abstract specification of an instance:
for PDR, BMC and ICAR `Engine` with `result.verdict`; for CAR with
`TrustedVerdict`, which is `result.verdict` except for ok in backward mode on a
system with a step into an error state that level 0 hides (`ErrorStepsSeen` fails;
see the findings); for CDCL `SatPromise`, with the models of the formula that was
added and the assumptions of the call. `SatPromise` asks of a sat answer a model of the
formula that satisfies the assumptions. The code ends with sat as soon as all variables are
assigned, which may be before every assumption was looked at (`solverinc.cpp:103`), and
its model may then contradict one, which is a finding. `TrustedAnswer` is `cnfstate`
except for such a sat, when fewer levels than assumptions were begun; it then counts as
`partial`, of which `SatPromise` asks a model of the formula only.

**Properties and mutations.** Every property of a passing run fails when one
definition is replaced by a plausible mistake (`Bug...`, defined before the
original): the error solver is not told of a cube, a subsumed cube is dropped
after the new one is added, an index is off by the error's activator, a flag is
not reset, a gate with a constant is not simplified, a strengthened clause keeps
its old watch, a restart needs no conflict, and so on.

Invariants that the proofs need and no run lists (`InductiveInvariant` of each
proved module, `BuilderInvariant`, `CoreInvariant`, `ChainsReachError`, `TypeOK` of
BMC, CAR and ICAR, `TraceSafe` of CAR) hold on the same instances: TLC checked each before it was proved.

### Findings

* **PDR reports an initial state that is not initial.** `build_counterexample`
  completes a generalized cube with false (`pdr.cpp:405-417`), also for latches
  whose reset value is 1. `WitnessReplays` shows that this is all that is wrong:
  the inputs do lead to the error, and the state is initial if all resets are 0.
  CAR (forward) and ICAR complete their witness in the same way, and their
  `WitnessReplays` says the same.
* **An assertion of BMC fails at step 100.** `make_error` asserts one activator
  per step (`bmc.cpp:188`); `refresh_solver` has just cleared them. The verdict
  is not affected: `QueryIsExact` is proved.
* **Backward CAR may answer ok for an unsafe system.** `transition_system.hpp:24-25`
  says that the initial formula ranges over state variables; `reverse_system`
  (`car.cpp:621`) puts the error formula there, which depends on inputs and on the gates'
  auxiliary variables and shares both with trans. At level 0 a step into an error state
  then counts only under an input for which the error holds, and only if it leaves the
  shared gates as they are. The input matters in the first trace that the run finds. The
  gates are enough: where 00 steps to 01 and 01 to 11, which is bad whatever the input,
  and trans uses the conjunction of the latches, which is the error, the step from 01 is
  not seen and the answer is ok. Where no such step exists (`ErrorStepsSeen`: as when the
  error depends on no input and shares no gate with trans), ok is sound, and every other
  verdict is sound in any case (`AnswersSoundly`, proved).
* **ParaFROST may answer sat for a formula it has found unsatisfiable.**
  `iunassume` sets `cnfstate` back (`assume.cpp:107`) and the literal that led to
  the conflict counts as propagated: the third call finds nothing left to do and
  answers with an assignment that falsifies a clause.
* **ParaFROST may answer sat against an assumption.** `isolve` ends with sat when no
  variable is unassigned (`solverinc.cpp:103`). Only `idecide` looks at the assumptions,
  one level at a time, and is not called any more; one that propagation has made false is
  then not noticed. With the clause -1 2 and the assumptions 1, -2 the answer is sat, with
  2 true, where unsat is right. The README says that the solver solves "with assumptions if
  needed" (`src/README.md:63`). A sat that comes after every assumption got its level
  does satisfy them (`AnswersSoundly`, proved).

Three more observations, which no run states. `ianalyze` asserts that what it takes for a
decision is of a level above 0 (`assume.cpp:176`). The assertion fails when the assumption
failed at level 0 by a literal that lies beyond the first decision (`HasLateRoot`), as
chronological backtracking leaves a learnt unit. The run `cdcl` has such a case: the clauses
-3 4 and -3 -4, called with 1, 2 and 3. Without the assertion the core is {3, -3}, which
says nothing; `CoreImplied` therefore asks only where `~ HasLateRoot` that a core negates
assumptions. `reduce` returns before `recycle` when
`shrink` leaves no learnt clause (`reduce.cpp:59`); original clauses just shrunk to
two literals are then still watched as large ones, and the assertion of BCP that a
clause of such a watch has more than two literals (`bcp.cpp:55`) would fail. The
model reaches this as soon as the only learnt clauses are satisfied at level 0; as
the code after the failed assertion is undefined, the formulas with a reduction
are those where it does not happen. And `negate_cnf` (`car.cpp:553`), given a formula
of several clauses, ends with an empty one, so that `_init_negated` of backward
CAR says nothing; `is_inductive` is weaker for it and not wrong.

## 4. What is proved

`tlapm <module>` for `PDRProofs`, `AigerBMCProofs`, `CARTraceProofs`, `CARProofs`,
`ICARProofs`, `CDCLProofs`, `CDCLAnswerProofs` and `TransitionSystemProofs`. The
assumptions are those of the modules: `NumVars` is a natural number, `Systems` is any set of
transition systems (so that the theorems hold for any number of latches, any set
of inputs, finite or not, and any family of circuits), `SharedGates` gives the gates that a
system's trans and error share any values, and none if there is none, the refresh rates are
positive, `Configurations` is any set of options, for ICAR those that it has, and
the solvers are those the engine has. For `AigerBuilder`, the numbers of inputs, latches
and gates are any naturals and `Circuits` any set of re-encoded circuits. For `CDCL`, `NumVars` is a natural number,
`Options` any set of options, and `Problems` any set of formulas as `itoClause`
leaves them: clauses of at least two literals, none twice or with its negation,
consistent units, and calls with any assumptions, contradictory ones included.

**PDR.** `InvariantHolds` proves `InductiveInvariant`, which joins what no part
of it could be proved without:

* the trace is an inductive sequence (`StepsStayInTrace`) and safe below the
  frontier (`TraceSafe`);
* every clause besides those of the initial cube is at a level above 0 and
  contradicts the initial cube (`ClausesAvoidInit`), which makes R_0 the initial
  states and keeps them in every level;
* the solvers hold the same clauses (`SolversInSync`) and these are equivalent to
  the frames (`SolversAgreeWithFrames`): needed for a refresh, after which only
  the frames are left, and to read off an empty frame that two levels are equal;
* obligations are outside the level below theirs, entries of the pool hold no
  state of any set that proves safety (`EntriesUnsafe`), the cube in `gen` may be
  blocked at its level (`GeneralizationSound`), and facts about phases.

The argument has four lemmas with substance. `GeneralizedCore`: whatever
`generalize_from_core` returns contradicts the initial cube and is inductive
relative to the level below the one returned. `BlockedTrace`: blocking such a
cube keeps every fact about the trace, although the levels above have changed
since it was found. `RefreshedLevels`: a refresh changes no level.
`EmptyFrameProvesSafe`: an empty frame makes a level a set that proves safety.
There is one lemma per action, and from `InvariantHolds` follow the theorems on
the trace, the solvers, the obligations and the frames, `LevelsShrink`, and
`AnswersAreSound`: PDR implements `Engine`, with `result.verdict` as its verdict.
`ChainsHold` and `CounterexamplesReplay` prove what the witness rests on
(`CounterexampleHolds` is the invariant): the successors of an entry of the pool
are a chain of cubes, each of which the recorded input leads into the next from
every one of its states, down to one that the error input closes. A predecessor is
lifted, so this is where a lifted cube has to lead into its obligation as a whole.

**BMC.** `QueriesAreExact` proves `QueryIsExact` for every bound and refresh rate,
from `SolverLoaded`: between queries the solver lacks the last step unless it has
just been loaded again, and the cache is never more than one formula behind.
From it follow `CounterexamplesAreShortest`, `UnknownMeansNoneUpToBound`,
`CounterexamplesReplay` and the refinement `AnswersAreSound`: the query for a step is
exactly the existence of a run of that length to the error.

**AigerBuilder.** `BuilderInvariantHolds` proves `BuilderInvariant`, which says of every
loop what it has found so far:

* `Propagated`: literals in `trueLits` hold in every state under every input, and of the
  gates passed every one is decided whose operands decide it. It needs the order of the
  gates: an operand that is decided later would be missed;
* `ConeSought`, `ConeFound`: while a pass of `determine_coi` has changed nothing, what it has
  been at is closed; so the last pass ends with a set of literals that holds the error, the
  operands of every undecided gate and the next state of every latch in it, and the cone
  of influence is the latches of that set (`Cone`);
* `Translated`: `clausify_subgraph`, which goes over the gates backwards, has translated the
  needed gates it has been at; it ends with the clauses of a set of gates that holds every
  undecided gate that its roots depend on (`Supported`), and with no other clause.

`ClausesHaveNoConstants`: a constant operand would have decided its gate, or `clausify_and`
leaves it out. `BuiltFormulasAreExact` has two directions. Whatever satisfies the
clauses gives every gate of a supported set the value it has in the circuit
(`GateClausesExact`, by induction over the gates; `ValuesRecursion` shows that the recursive
`Values` has a solution and computes the gates). And the circuit's own values satisfy them,
those of trans and error at once (`ValuesSatisfy`), which is why the two may share their
auxiliary variables. `BuiltSafetyPreserved`: states that agree on the cone of influence agree
on every literal of the closed set (`ConeDetermines`), so a step of the circuit and one of the
built system, which makes the other latches false or constant, lead from such states to such
states and are bad together; by `SafetyTransfers` a set that proves one system safe, closed
under that agreement, proves the other safe. `VerdictsFitCircuit` joins this with
`Engine`: an engine that keeps its promise and is run on the built system says of the circuit what
is true. It uses only the promise, so it holds for every engine that
implements `Engine`; `CircuitVerdictsOfBMC` is the instance for BMC.

**Runs and chains.** Runs and chains are recursive functions of a number of steps.
The library's induction theorems take an operator as a parameter, which no prover
here instantiates; `TransitionSystemProofs` therefore derives induction over a set
of naturals from the well-foundedness of `<` (`NatLessThanWellFounded`, `WFMin`),
proves that each recursive definition has a solution, and from that what it
computes. `SafeMeansNoBadRun` ties the two notions of safety together: a system has
an inductive set without bad states if and only if no run of any length is bad.

**CAR.** `InductiveInvariant` of CAR is `TypeOK`, what is said of the trace
(`TraceInvariant`), of the obligations (`QueueOK`: one at level 0 starts a
counterexample, none is of an earlier coframe than the one being read) and of the
phases (`PhasesOK`). `TraceInvariant` joins

* the solvers hold the same clauses, and every clause is covered by a cube of the
  frame of its level, every cube of a frame being a clause (`FramesCovered`); from
  this follows `SolversAgreeWithFrames`;
* the trace is inductive (`StepsStayInTrace`) and safe below the last level
  (`TraceSafe`), in both directions; backward, from level 0, as far as the query sees the
  steps (`TransHoldsAt`);
* while all cubes of a frame have been pushed so far, the next level excludes all
  of them (`PushedCovered`);
* a set that proves safety holds no state of a bad cube, or in backward mode,
  where the pool holds reachable states, all of them (`EntriesSound`).

Blocking a core that a query found unreachable from the level below keeps the
trace inductive, whatever the core (`CARTraceProofs`). The two ways to ok are the
lemmas with substance: if a frame was pushed as a whole, the next level lies in
it, and if `is_inductive` found a level within the union of those before it, that
union is closed; either way the union of the levels so far proves safety, forward
as it stands, backward by its complement, for which level 0 must not have hidden a step
into an error state (`ErrorStepsSeen`). `CoframeStable` proves that a coframe is never changed while it is read,
and `CotraceRemembers` that subsumption forgets no bad state.

**ICAR.** The same invariant without the scan. `ObligationsStayOpen` adds that
every obligation has a state at its level until it is blocked: the constraint's
index names the right cube, blocked cores touch only their own level, and
propagation does not overlap. `NothingDropped` follows: the early return of
`solve_obligation` for a blocked obligation is dead code in ICAR.

**Witnesses of CAR and ICAR.** `CounterexampleHolds` is one more invariant of each:
every obligation and every cube of the pool starts a chain that ends where the
search began (`ChainsHold`). The pool only grows and its entries are never
rewritten, so that an index into it keeps its meaning; `CounterexamplesReplay` needs
this, and so does `ColevelsCorrect`: an entry of coframe k is exactly k steps from
the end of its chain. No run lists `WitnessReplays` of ICAR; the theorem states it
for every instance.

**MinimalCore** (in `CARTraceProofs`), which no run checks. A literal that was tried and is left is needed
(`TriedAreNeeded`), since queries are monotone; from it follows that the core has no literal to spare
(`CoreIsMinimal`, which states `NothingToSpare`),
for any set of literals, any monotone query, and any cores the solver returns.
`MinimizedIsBlocked` says that for the query for a predecessor this is a core that
`BlockedCores` of CAR and ICAR allows.

**CDCL.** `InductiveInvariant` of CDCL is `Core` and, until the reduction has shrunk
the clauses, `RootsWatched`. `Core` joins

* `TrailOK`: one literal per variable, `dlevels` increasing and propagated, every
  decision where its level begins, and before that no literal of the level. A
  literal may be of a lower level than those before it, which is what
  chronological backtracking leaves;
* `ClausesOK`, `WatchesOK`: two watched literals per clause, one watch each, and what
  the watch says of its clause; `VisitingOK`: what BCP still visits is such a watch;
* `ReasonsOK`: the other literals of a reason are false, were assigned before and at
  no higher level. Strengthening a reason during the analysis breaks this for the
  literal it implied, which is `Spent`: behind all that the analysis looks at and of
  the level that is about to be undone. Without that exception the invariant is not
  inductive, and without its two conditions `Learn` could keep a literal whose
  reason is no longer one;
* `AnalysisOK`, `UipSound`: the conflict is false, and the resolvent that `finduip` has
  reached follows from the formula;
* `Sound`, `Complete`: every clause ever added follows from the formula, and what is
  left of the original ones, with the literals of level 0, implies it.

Three arguments carry it. *Backtracking* (`KeptPositions`, `BacktrackMoves`): what a
backtrack to level j keeps is a part of the trail in the same order, so that levels,
sources and the order of reasons are those from before; every part of the invariant
is then carried from one trail to the next by a lemma of its own (`MovesKeeps`,
`RootsMove`, `ReasonsMove`, `SoundMoves`, `CompleteMoves`). *Resolution*
(`ResolventSound`, `MinimizedSound`): a literal that the minimization drops is implied by the others, by
strong induction on positions. *Watches* (`StrengthenedWatchesOK`, `AddedWatchesOK`,
`AttachedWatchesOK`): the three places that rewrite the lists leave one watch for
each watched literal.

From it follow `TypeCorrect`, `WatchesAreConsistent`, `ReasonsHold` and
`DatabaseStaysEquivalent`, under one hypothesis on the steps, `Regular`: a reduction
leaves at least one learnt clause after shrinking, and a solver whose reduction is on is not
called again once it has found a conflict without a decision. The code may do
otherwise. `reduce` returns at `reduce.cpp:59` when no learnt clause is left, after
`shrink` has removed literals and before `recycle` rebuilds the watches; and
after a conflict at the root the rest of a list has not been visited, so that a watched literal
may be false at level 0 in a clause that `shrink` then takes it from. In both cases watches
may name literals that a clause no longer has. `SearchIsRegular` proves that without a
reduction the hypothesis always holds.

*Answers of unsat* (`UnsatIsRight`, `CoreIsImplied`). `Answered` is one more invariant: the
level of an assumption has that assumption or nothing as its decision, since `idecide` skips
levels only for assumptions that are true; a conflict at level 0 that ends a call
refutes the formula; and a core follows from the formula and the negated decisions it names. A
literal that is assigned follows from the formula and the decisions up to its level,
by strong induction on its position, because its reason holds (`ReasonsOK`) and lies
before it. `FailedFollows` says the same of the walk of `ianalyze` from the end of the trail
down: what it has seen and not yet explained, with the decisions it has named,
implies the failed literal. The walk stops at the first decision, so that a literal
of level 0 which lies beyond it is taken for a decision when it has no reason: the
core then names it too, and the assertion of `assume.cpp:176` fails, which is why `CoreImplied`
asks only for `~ HasLateRoot` that a core negates assumptions.

*Answers of sat* (`SatIsRight`, and with the former paragraph the refinement
`AnswersAreSound`). `Examined` is what propagation over two watches maintains: if both
watched literals of a clause are false among the positions looked at, the clause has a
true literal that stays true for as long as they stay false, that is, no backtrack that
leaves one of them in place and propagated removes it (`Outlives`). With literals out of
order, "was assigned before" is not enough: the true literal may lie before the false one
and yet be of a higher level. Each visit establishes it (`VisitWatchExamined`); a backtrack
keeps it because what stays beyond the cut is looked at again (`Cut` in `Backtrack`; with
`BugBacktrack`, which does not look again, it fails); `Strengthen`, `ChronoAnalyze` and `Learn`
because the clause they rewrite watches two literals of its highest levels, which the
following backtrack leaves unlooked at; and `ReduceLearnts` because `sortClause` puts a false literal
first only if all are. At rest everything has been looked at, so a false
clause would have a true literal; and when all variables are assigned too, the trail is a
model, as `Complete` carries it from the clauses that are left to the formula. The model
satisfies the assumptions that have a level, by `LevelsAssume`: each is on the trail at
a level no higher than its own, where a backtrack that keeps the level keeps it. That is
what `AnswersAreSound` adds for a sat with all assumptions looked at. These theorems
have one more hypothesis, together with `Regular` called `Proper`: the solver is not called
again after a conflict at level 0. `isolve` sets the state to unsolved and goes on with a
clause that is false where propagation has been, which is how the run `cdcl_unsat_twice`
reaches a model that is none. `SatisfiableIsProper` proves that only a formula without
models can break the condition: a call that ends with a conflict has refuted the formula,
whatever was assumed, so where there is a model every behaviour that is `Regular` is `Proper`.
With `SearchIsRegular`, `SatisfiableIsSound` then says of a solver without reduction that on
such formulas it keeps its promise and misses nothing, under no condition at all.

*Nothing missed* (`NothingIsMissed`, under `Proper`). That no clause is unit at rest, where
`UnitsFound`, needs more than `Examined`: one watch that is false must be enough. `Each` says
so of every watch by itself. It would not be inductive alone. `Strengthen` may leave a clause
with one literal of `DL`, whose other watch is false at a lower level and not examined
for; such a clause is `Lonely`, the conflict under analysis, and the next step learns
from it the literal that makes it true at the level of the others, if the search goes back
that far. `Tall` says that it does: no level but those of assumptions is without a decision, so there are
no more levels than variables and assumptions together, and a `distance` as large never shortens
a backjump (`JumpsLowHolds`). `InOrder`, that without chronological backtracking no literal comes after a
decision of a higher level than its own, is what a reduction needs when `sortClause`
exchanges one false watch for another of a level that is no lower. All of them were checked
on the instance of `cdcl`, and on six variables, before they were proved.

**Only model-checked.** Termination of all components: liveness is out of the provers'
reach. Every invariant, action property and refinement that a passing run lists is
stated by a theorem.

## 5. What is not modelled, and why

* **Parts of ParaFROST's CPU solver.** Rephasing, probing, simplification,
  subsumption, mapping, multiple decisions and proof output. Each
  rewrites the database `CDCL` describes, at points where the search is at rest;
  `DatabaseEquivalent`, `ReasonsImply` and `WatchesConsistent` are what they would
  have to keep.
* **ParaFROST's GPU solver.** The kernels need a model of the device's memory and
  of its arenas; the search on the host is the CPU's.
* **Preprocessing** (`apply_gpu_preprocessing`). It writes a DIMACS file to a fixed
  path, runs ParaFROST and discards the outcome; the engine is the same without.
* **Witness writer, harness, command line, `main`, logging.** Text and option
  handling around one call of `engine::run`, with no state over events. On
  reading, `test_automation.py` takes the `0` and `b0` lines of a safe result for
  a counterexample.
* **Layout.** Clauses packed into one vector, versioned variables, the variable
  store, CaDiCaL's limits and inprocessing: formulas are modelled by what they say,
  and the solver by the answers it may give.
* **Third-party code and the copy.** CaDiCaL, AIGER and Catch2 are vendored, twice,
  and make up most of the repository's lines; they appear as the nondeterminism
  of queries and the assumptions on circuits. `geyser-main/` is a copy of
  `geyser/` that differs only in `engine/pdr.cpp` and `pdr.hpp`.

What a next step would take on first: the simplification rounds as further actions
of `CDCL`.
