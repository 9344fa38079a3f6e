---------------------------- MODULE DeepSystems ----------------------------
(***************************************************************************)
(* A family of systems with three latches and one input bit, every one     *)
(* with a single bad state: counters, shift registers, rings and a latch   *)
(* that remembers.  An engine needs traces of several frames for them, and *)
(* counterexamples of up to eight inputs.                                  *)
(***************************************************************************)
EXTENDS TransitionSystem


\* The state in which latch v has value b[v], and the number it encodes.
StateOf(b) == {IF b[v] THEN v ELSE -v : v \in Vars}
Value(s)   == (IF 1 \in s THEN 1 ELSE 0) + (IF 2 \in s THEN 2 ELSE 0) + (IF 3 \in s THEN 4 ELSE 0)
Binary(n)  == StateOf(<<n % 2 = 1, (n \div 2) % 2 = 1, n \div 4 = 1>>)

\* Counts to m and starts again while the input is 1.
Count(m, s, x) == IF x = 0 THEN s ELSE Binary(IF Value(s) >= m THEN 0 ELSE Value(s) + 1)

\* Shifts the input into latch 1, or only does so while latch 2 is 0.
Shift(s, x)      == StateOf(<<x = 1, 1 \in s, 2 \in s>>)
ShiftApart(s, x) == StateOf(<<x = 1 /\ 2 \notin s, 1 \in s, 2 \in s>>)

\* Moves the latches round a ring, or round one with an inverter in it.
Ring(s, x)  == IF x = 0 THEN s ELSE StateOf(<<3 \in s, 1 \in s, 2 \in s>>)
Twist(s, x) == IF x = 0 THEN s ELSE StateOf(<<3 \notin s, 1 \in s, 2 \in s>>)

\* Latch 3 remembers that the other two ever agreed under input 1.
Watch(s, x) == StateOf(<<2 \in s, x = 1, 3 \in s \/ (x = 1 /\ (1 \in s <=> 2 \in s))>>)

NextFunctions ==
    {[e \in States \X Inputs |-> Count(m, e[1], e[2])] : m \in 3 .. 6} \cup
    { [e \in States \X Inputs |-> Shift(e[1], e[2])],
      [e \in States \X Inputs |-> ShiftApart(e[1], e[2])],
      [e \in States \X Inputs |-> Ring(e[1], e[2])],
      [e \in States \X Inputs |-> Twist(e[1], e[2])],
      [e \in States \X Inputs |-> Watch(e[1], e[2])] }

DeepSystemsOf(inits) ==
    [ init : inits,
      next : NextFunctions,
      bad  : {{<<Binary(n), 1>>} : n \in 0 .. 7} ]
=============================================================================
