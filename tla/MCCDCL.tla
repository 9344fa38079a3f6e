------------------------------- MODULE MCCDCL -------------------------------
(***************************************************************************)
(* CDCL called once, on formulas that make it learn, minimize, strengthen  *)
(* and backtrack over several levels, and called twice with assumptions    *)
(* that hold, fail, contradict one another, or are implied; with and       *)
(* without a reduction of the learnt clauses.                              *)
(***************************************************************************)
EXTENDS CDCL

Solved(cls, units, sessions, reduce) ==
    [clauses : {cls}, units : {units}, calls : sessions, reduce : {reduce}]

Once == { << <<>> >> }

Twice ==
    {<<a, b>> : a \in {<<>>, <<1>>, <<-3, 1>>, <<1, -2>>, <<1, -1>>}, b \in {<<>>, <<-3>>, <<3, 1, 2>>}}

\* Called with assumptions that the formula refutes by propagation.
RefutedAssumptions ==
    Solved(<< <<-1, 2>> >>, <<3, 4>>, {<< <<1, -2>> >>}, FALSE)

MCProblems ==
    UNION {
      \* reasons that share literals of a level, which minimize removes
      Solved(<< <<-1, 2>>, <<-3, -1, 4>>, <<-4, -2, -3>>, <<1, 3, 4>> >>, <<>>, Once, FALSE),
      \* a learnt clause that a binary clause shortens
      Solved(<< <<-3, -2>>, <<2, -3, 4>>, <<2, -3, -4>>, <<3, 1>>, <<3, -1, 2>> >>, <<>>, Once, TRUE),
      \* unsatisfiable, by clauses of three literals
      Solved(<< <<1, 2, 3>>, <<1, 2, -3>>, <<1, -2, 4>>, <<1, -2, -4>>, <<-1, 3>>, <<-1, -3>> >>,
             <<>>, Once, FALSE),
      \* satisfiable, with a unit clause
      Solved(<< <<1, 2, 3, 4>>, <<-2, -3, 4>>, <<-2, 3>>, <<2, -4, 3>> >>, <<-1>>, Once, FALSE),
      \* unsatisfiable at once, satisfiable in few ways, and in many
      Solved(<< <<1, 2>>, <<1, -2>>, <<-1, 2>>, <<-1, -2>> >>, <<-4>>, Twice, TRUE),
      Solved(<< <<1, 2, 3>>, <<-1, 2>>, <<-2, 3>> >>, <<-4>>, Twice, FALSE),
      Solved(<< <<-1, 2, 3>>, <<-1, 2, -3>> >>, <<4>>, Twice, FALSE),
      \* a clause of four literals loses one of level 0 in the reduction
      Solved(<< <<-4, -3>>, <<-3, 1, -2, 4>>, <<3, -1, 4>>, <<-3, 1, 2>> >>, <<-1>>, Once, TRUE),
      \* large learnt clauses, some of them reasons, when the reduction comes
      Solved(<< <<-3, -4, 1>>, <<-1, 2, 4>>, <<4, -3, -1, -2>>, <<-2, 1>> >>, <<>>, Once, TRUE),
      \* an assumption that fails at level 0, beyond the levels of two others
      Solved(<< <<-3, 4>>, <<-3, -4>> >>, <<>>, {<< <<1, 2, 3>> >>}, FALSE),
      \* all variables are assigned before the second assumption is looked at
      RefutedAssumptions }

\* Called again and again after it was found unsatisfiable.
ThriceUnsatisfiable ==
    Solved(<< <<1, 2>>, <<1, -2>>, <<-1, 2>>, <<-1, -2>> >>, <<-4>>, {<< <<>>, <<>>, <<>> >>}, FALSE)

MCOptions == {[chrono |-> FALSE, distance |-> 0]} \cup [chrono : {TRUE}, distance : {0, 100}]
=============================================================================
