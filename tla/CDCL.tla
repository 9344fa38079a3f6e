-------------------------------- MODULE CDCL --------------------------------
(***************************************************************************)
(* The incremental search of ParaFROST on the CPU (src/cpu): isolve with   *)
(* propagation over watched literals (bcp.cpp), conflict analysis with     *)
(* on-the-fly strengthening (analyze.cpp, uip.cpp, minimize.cpp), chrono-  *)
(* logical backtracking (backjump.cpp, backtrack.cpp), restarts, and       *)
(* assumptions (assume.cpp).  One action per watch visited, per reason     *)
(* resolved with, and per other step of the loop.                          *)
(*                                                                         *)
(* A clause is a set of literals with the two that are watched, which the  *)
(* code keeps in front.  The orders that activities, phases, positions in  *)
(* a clause and in a watch list decide are left open.  The database is     *)
(* reduced once; simplification, probing and mapping are not modelled.     *)
(***************************************************************************)
EXTENDS Integers, SequencesExt

CONSTANTS
    NumVars,    \* inf.maxVar
    Problems,   \* [clauses, units, calls, reduce]: the clauses read, the unit
                \* clauses, the calls, each the sequence of its assumptions, and
                \* whether opts.reduce_en is on
    Options     \* [chrono, distance]: opts.chrono_en and chrono_min

Vars == 1 .. NumVars
Lits == Vars \cup {-v : v \in Vars}

ASSUME NumVarsAssumption == NumVars \in Nat

\* No literal twice, and none with its negation.
Consistent(lits) == IsInjective(lits) /\ \A l \in Range(lits) : -l \notin Range(lits)

\* itoClause leaves out what a clause or the units say twice, and tautologies.
ASSUME ProblemsAssumption ==
    \A p \in Problems :
        /\ p.clauses \in Seq(Seq(Lits)) /\ p.units \in Seq(Lits) /\ p.calls \in Seq(Seq(Lits))
        /\ \A k \in DOMAIN p.clauses : Len(p.clauses[k]) > 1 /\ Consistent(p.clauses[k])
        /\ Consistent(p.units)
        /\ p.reduce \in BOOLEAN

ASSUME OptionsAssumption == Options \subseteq [chrono : BOOLEAN, distance : Nat]

VARIABLES
    problem,    \* what was added, and how isolve will be called
    opts,       \* opts
    clauses,    \* cm, orgs and learnts: reference to clause
    watches,    \* wt: [lit, ref, imp, binary], in the list that -lit triggers
    trail,      \* trail, value, level and source: [lit, level, source]
    propagated, \* sp->propagated
    dlevels,    \* dlevels, from level 1: the size of the trail below
    visiting,   \* the watches BCP has still to visit for the last literal
    conflict,   \* conflict, 0 for NOREF
    uip,        \* the locals of finduip: what was seen and resolved on
    rested,     \* whether a restart is the last of conflicts and restarts
    reduced,    \* whether the learnt clauses have been reduced
    calls,      \* the calls made
    assumptions,
    iconflict,
    pc,         \* where the single thread is
    cnfstate

search == <<clauses, watches, trail, propagated, dlevels>>
call   == <<calls, assumptions, iconflict, cnfstate>>
limits == <<rested, reduced>>
vars   == <<problem, opts, search, visiting, conflict, uip, limits, call, pc>>

NOREF == 0

-----------------------------------------------------------------------------
DL == Len(dlevels)

Assigned == {trail[i].lit : i \in DOMAIN trail}

IsTrue(l)  == l \in Assigned
IsFalse(l) == -l \in Assigned
Unassigned(l) == l \notin Assigned /\ -l \notin Assigned

PositionOf(l) == CHOOSE i \in DOMAIN trail : trail[i].lit \in {l, -l}

\* l2dl
LevelOf(l) == trail[PositionOf(l)].level

Highest(lits) == Max({0} \cup {LevelOf(l) : l \in lits})

NonRoot(lits) == {l \in lits : LevelOf(l) > 0}

Entry(l, level, ref) == [lit |-> l, level |-> level, source |-> ref]

\* As if the lowest level were looked for.
BugImplied(l, ref) ==
    Entry(l, Min({DL} \cup {LevelOf(k) : k \in clauses[ref].lits \ {l}}), ref)

\* forcedLevel, enqueueImp
Implied(l, ref) == Entry(l, Highest(clauses[ref].lits \ {l}), ref)

Watch(l, ref, imp, size) == [lit |-> l, ref |-> ref, imp |-> imp, binary |-> size = 2]

WatchesOf(ref) == {w \in watches : w.ref = ref}

\* Where the trail is cut for level j, and what is left: literals of lower levels
\* that come after the decision of level j + 1 stay.
Cut(j) == IF j < DL THEN dlevels[j + 1] ELSE Len(trail)

Kept(j) ==
    LET kept[i \in 0 .. Len(trail)] ==
            IF i = 0 THEN <<>>
            ELSE IF i > Cut(j) /\ trail[i].level > j THEN kept[i - 1]
                 ELSE Append(kept[i - 1], trail[i])
    IN kept[Len(trail)]

\* As if the literals that stay were not propagated again.
BugBacktrack(j, enqueued) ==
    /\ trail' = Kept(j) \o enqueued
    /\ propagated' = IF propagated > Cut(j) THEN Len(Kept(j)) ELSE propagated
    /\ dlevels' = SubSeq(dlevels, 1, j)

\* backtrack to level j, and enqueue; what stays is propagated again.
Backtrack(j, enqueued) ==
    /\ trail' = Kept(j) \o enqueued
    /\ propagated' = IF propagated > Cut(j) THEN Cut(j) ELSE propagated
    /\ dlevels' = SubSeq(dlevels, 1, j)

-----------------------------------------------------------------------------
Init ==
    /\ problem \in Problems
    /\ opts \in Options
    /\ clauses = [r \in DOMAIN problem.clauses |->
           LET c == problem.clauses[r] IN
           [lits |-> Range(c), watched |-> {c[1], c[2]}, learnt |-> FALSE, deleted |-> FALSE]]
    /\ watches = UNION {LET c == problem.clauses[r] IN
           {Watch(c[1], r, c[2], Len(c)), Watch(c[2], r, c[1], Len(c))} :
               r \in DOMAIN problem.clauses}
    /\ trail = [i \in DOMAIN problem.units |-> Entry(problem.units[i], 0, NOREF)]
    /\ propagated = 0
    /\ dlevels = <<>>
    /\ visiting = {} /\ conflict = NOREF
    /\ uip = [seen |-> {}, resolved |-> {}]
    /\ rested = TRUE /\ reduced = FALSE
    /\ calls = 0 /\ assumptions = <<>> /\ iconflict = {}
    /\ pc = "idle"
    /\ cnfstate = "unsolved"

\* isolve begins: iunassume and iassume.  BCP at the root comes first.
Call ==
    /\ pc = "idle" /\ calls < Len(problem.calls)
    /\ calls' = calls + 1
    /\ assumptions' = problem.calls[calls']
    /\ iconflict' = {}
    /\ cnfstate' = "unsolved"
    /\ Backtrack(0, <<>>)
    /\ conflict' = NOREF
    /\ pc' = "root"
    /\ UNCHANGED <<problem, opts, clauses, watches, visiting, uip, limits>>

Answer(state) == cnfstate' = state /\ pc' = "idle"

-----------------------------------------------------------------------------
Propagating == pc \in {"root", "search", "reduce"}

NextLiteral ==
    /\ Propagating /\ visiting = {} /\ propagated < Len(trail)
    /\ propagated' = propagated + 1
    /\ visiting' = {w \in watches : w.lit = -trail[propagated + 1].lit}
    /\ UNCHANGED <<problem, opts, clauses, watches, trail, dlevels, conflict, uip,
                   limits, call, pc>>

Quiet == UNCHANGED <<conflict, pc, cnfstate>>

Conflicting(w) ==
    /\ conflict' = w.ref
    /\ IF pc = "search" THEN pc' = "analyze" /\ UNCHANGED cnfstate ELSE Answer("unsat")
    /\ UNCHANGED <<clauses, watches, trail>>

Satisfied(w) ==
    /\ IsTrue(w.imp)
    /\ Quiet /\ UNCHANGED <<clauses, watches, trail>>

ClauseDeleted(w) ==
    /\ ~ IsTrue(w.imp) /\ clauses[w.ref].deleted
    /\ watches' = watches \ {w}
    /\ Quiet /\ UNCHANGED <<clauses, trail>>

VisitBinary(w) ==
    /\ ~ IsTrue(w.imp) /\ ~ clauses[w.ref].deleted /\ w.binary
    /\ IF IsFalse(w.imp) THEN Conflicting(w)
       ELSE /\ trail' = Append(trail, Entry(w.imp, LevelOf(w.lit), w.ref))
            /\ Quiet /\ UNCHANGED <<clauses, watches>>

Visited(w) == ~ IsTrue(w.imp) /\ ~ clauses[w.ref].deleted /\ ~ w.binary

\* The other watch, found as c[0] ^ c[1] ^ f_assign.
Other(w) == CHOOSE l \in clauses[w.ref].watched : l # w.lit

Unwatched(w) == clauses[w.ref].lits \ clauses[w.ref].watched

Block(w, l) ==
    /\ watches' = (watches \ {w}) \cup {[w EXCEPT !.imp = l]}
    /\ Quiet /\ UNCHANGED <<clauses, trail>>

OtherTrue(w) == Visited(w) /\ IsTrue(Other(w)) /\ Block(w, Other(w))

\* The search for a literal that is not false, from the saved position on.
FindLiteral(w) ==
    /\ Visited(w) /\ ~ IsTrue(Other(w))
    /\ \E l \in Unwatched(w) :
           \/ IsTrue(l) /\ Block(w, l)
           \/ /\ Unassigned(l)
              /\ clauses' = [clauses EXCEPT ![w.ref].watched = {Other(w), l}]
              /\ watches' = (watches \ {w})
                     \cup {Watch(l, w.ref, Other(w), Cardinality(clauses[w.ref].lits))}
              /\ Quiet /\ UNCHANGED trail

OthersFalse(w) ==
    /\ Visited(w) /\ ~ IsTrue(Other(w))
    /\ \A l \in Unwatched(w) : IsFalse(l)
    /\ IF IsFalse(Other(w)) THEN Conflicting(w)
       ELSE /\ trail' = Append(trail, Implied(Other(w), w.ref))
            /\ Quiet /\ UNCHANGED <<clauses, watches>>

\* One watch of the last literal; a conflict leaves the others unvisited.
VisitWatch ==
    /\ Propagating
    /\ \E w \in visiting :
           /\ \/ Satisfied(w) \/ ClauseDeleted(w) \/ VisitBinary(w)
              \/ OtherTrue(w) \/ FindLiteral(w) \/ OthersFalse(w)
           /\ visiting' = IF conflict' = NOREF THEN visiting \ {w} ELSE {}
    /\ UNCHANGED <<problem, opts, propagated, dlevels, uip, limits,
                   calls, assumptions, iconflict>>

-----------------------------------------------------------------------------
\* Two literals of the highest levels: the watches, if they are.
TopPairs(c) ==
    LET Top(pair) == \A l \in c.lits \ pair, k \in pair : LevelOf(l) <= LevelOf(k)
    IN IF Top(c.watched) THEN {c.watched}
       ELSE {pair \in SUBSET c.lits : Cardinality(pair) = 2 /\ Top(pair)}

StartUip == uip' = [seen |-> NonRoot(clauses[conflict].lits), resolved |-> {}] /\ pc' = "uip"

(***************************************************************************)
(* chronoAnalyze.  The level of the conflict may be below DL.  A literal   *)
(* alone at that level is implied by the others, and nothing is learnt.    *)
(***************************************************************************)
ChronoAnalyze ==
    /\ pc = "analyze" /\ opts.chrono
    /\ LET c     == clauses[conflict]
           level == Highest(c.lits)
           top   == {l \in c.lits : LevelOf(l) = level}
       IN \/ /\ level = 0
             /\ Answer("unsat")
             /\ UNCHANGED <<search, conflict, uip>>
          \/ /\ level > 0
             /\ \E pair \in TopPairs(c) :
                  \E imps \in [pair \ c.watched -> pair \cup c.watched] :
                     /\ \A l \in DOMAIN imps : imps[l] # l
                     /\ clauses' = [clauses EXCEPT ![conflict].watched = pair]
                     /\ watches' =
                            {w \in watches : w.ref = conflict => w.lit \in pair}
                              \cup {Watch(l, conflict, imps[l], Cardinality(c.lits)) :
                                        l \in DOMAIN imps}
             /\ IF Cardinality(top) = 1
                THEN /\ \E l \in top : Backtrack(level - 1, <<Implied(l, conflict)>>)
                     /\ conflict' = NOREF
                     /\ pc' = "search"
                     /\ UNCHANGED uip
                ELSE /\ Backtrack(level, <<>>)
                     /\ StartUip
                     /\ UNCHANGED conflict
             /\ UNCHANGED cnfstate
    /\ rested' = FALSE
    /\ UNCHANGED <<problem, opts, visiting, reduced, calls, assumptions, iconflict>>

Analyze ==
    /\ pc = "analyze" /\ ~ opts.chrono
    /\ IF DL = 0 THEN Answer("unsat") /\ UNCHANGED uip
                 ELSE StartUip /\ UNCHANGED cnfstate
    /\ rested' = FALSE
    /\ UNCHANGED <<problem, opts, search, visiting, conflict, reduced,
                   calls, assumptions, iconflict>>

-----------------------------------------------------------------------------
\* learntC, and below it the literals of DL: sp->resolventsize counts both.
Resolvent == uip.seen \ uip.resolved
Tracked   == {l \in Resolvent : LevelOf(l) = DL}
Lower     == {l \in Resolvent : LevelOf(l) < DL}

\* The last of them on the trail, which is false in the resolvent.
Parent == trail[Max({PositionOf(l) : l \in Tracked})]

\* analyzeReason
Reason == clauses[Parent.source]

ReasonLits == NonRoot(Reason.lits \ {Parent.lit})
Resolved   == [seen |-> uip.seen \cup ReasonLits, resolved |-> uip.resolved \cup {-Parent.lit}]
ResolventSize == Cardinality(Resolved.seen \ Resolved.resolved)

\* The resolvent is the reason without the literal it implied.
SubsumesReason == Cardinality(ReasonLits) + 1 > 2 /\ ResolventSize < Cardinality(ReasonLits) + 1

Resolve ==
    /\ pc = "uip" /\ Cardinality(Tracked) > 1
    /\ ~ SubsumesReason
    /\ uip' = Resolved
    /\ UNCHANGED <<problem, opts, search, visiting, conflict, limits, call, pc>>

\* As if the watch of the literal that goes were left alone.
BugStrengthenedWatches(ref, first, second, size) ==
    {IF w.ref = ref /\ w.lit = first THEN Watch(first, ref, second, size) ELSE w : w \in watches}

\* strengthenOTF moves one watch and mends the other.
StrengthenedWatches(ref, first, second, size) ==
    {w \in watches : w.ref # ref}
        \cup {Watch(first, ref, second, size), Watch(second, ref, first, size)}

\* strengthenOTF; the conflict goes if the strengthened reason subsumes it.
Strengthen ==
    /\ pc = "uip" /\ Cardinality(Tracked) > 1
    /\ SubsumesReason
    /\ LET ref   == Parent.source
           self  == Parent.lit
           first == CHOOSE l \in Reason.watched : l # self
           lits  == {first} \cup NonRoot(Reason.lits \ {self})
           subsumed == /\ uip.resolved = {}
                       /\ ResolventSize < Cardinality(NonRoot(clauses[conflict].lits))
                       /\ ~ Reason.learnt \/ clauses[conflict].learnt
       IN /\ \E second \in lits \ {first} :
                /\ LevelOf(second) = Highest(lits \ {first})
                /\ clauses' = [clauses EXCEPT
                       ![ref].lits = lits, ![ref].watched = {first, second},
                       ![conflict].deleted = @ \/ subsumed]
                /\ watches' = StrengthenedWatches(ref, first, second, Cardinality(lits))
          /\ conflict' = ref
    /\ pc' = "analyze"
    /\ UNCHANGED <<problem, opts, trail, propagated, dlevels, visiting, uip, limits, call>>

-----------------------------------------------------------------------------
(***************************************************************************)
(* minimize: a literal goes if its reason follows from the others.  Levels *)
(* with fewer than two of the literals are not tried.                      *)
(***************************************************************************)
Removable ==
    LET Mixed(l) == Cardinality({k \in Lower : LevelOf(k) = LevelOf(l)}) > 1
        gone[i \in DOMAIN trail] ==
            \/ trail[i].level = 0
            \/ -trail[i].lit \in Lower
            \/ /\ trail[i].source # NOREF /\ Mixed(trail[i].lit)
               /\ \A k \in clauses[trail[i].source].lits \ {trail[i].lit} :
                      PositionOf(k) \in 1 .. i - 1 /\ gone[PositionOf(k)]
    IN {l \in Lower : LET e == trail[PositionOf(l)] IN
           /\ e.source # NOREF /\ Mixed(l)
           /\ \A k \in clauses[e.source].lits \ {e.lit} : gone[PositionOf(k)]}

\* As if the clauses with the literal itself were taken.
BugRemovableByBinary(l, lits) ==
    {k \in lits : \E w \in watches : w.lit = l /\ w.binary /\ w.imp = k}

\* minimizebin, by the binary clauses in the list of the learnt literal.
RemovableByBinary(l, lits) ==
    {k \in lits : \E w \in watches : w.lit = l /\ w.binary /\ w.imp = -k}

\* where
JumpLevel(lits) ==
    IF opts.chrono /\ DL - Highest(lits) > opts.distance THEN DL - 1 ELSE Highest(lits)

(***************************************************************************)
(* The rest of analyze: the clause is minimized, and backjump asserts it.  *)
(* A learnt clause that it subsumes goes, if it is one of the last.        *)
(***************************************************************************)
Learn ==
    /\ pc = "uip" /\ Cardinality(Tracked) = 1
    /\ LET l       == CHOOSE k \in Tracked : TRUE
           small   == Lower \ Removable
           rest    == small \ RemovableByBinary(l, small)
           learnt  == {l} \cup rest
           ref     == Len(clauses) + 1
       IN IF rest = {}
          THEN /\ Backtrack(JumpLevel(rest), <<Entry(l, 0, NOREF)>>)
               /\ UNCHANGED <<clauses, watches>>
          ELSE /\ Backtrack(JumpLevel(rest), <<Entry(l, JumpLevel(rest), ref)>>)
               /\ \E second \in rest :
                      /\ LevelOf(second) = Highest(rest)
                      /\ clauses' = Append(
                             [r \in DOMAIN clauses |->
                                 [clauses[r] EXCEPT !.deleted =
                                     @ \/ (clauses[r].learnt /\ learnt \subseteq clauses[r].lits)]],
                             [lits |-> learnt, watched |-> {l, second},
                              learnt |-> TRUE, deleted |-> FALSE])
                      /\ watches' = watches \cup
                             {Watch(l, ref, second, Cardinality(learnt)),
                              Watch(second, ref, l, Cardinality(learnt))}
    /\ conflict' = NOREF
    /\ uip' = [seen |-> {}, resolved |-> {}]
    /\ pc' = "search"
    /\ UNCHANGED <<problem, opts, visiting, limits, call>>

-----------------------------------------------------------------------------
PropagationDone == Propagating /\ visiting = {} /\ propagated = Len(trail)

RootDone ==
    /\ PropagationDone /\ pc = "root"
    /\ pc' = "search"
    /\ UNCHANGED <<problem, opts, search, visiting, conflict, uip, limits, call>>

Quiescent == PropagationDone /\ pc = "search"

AllAssigned ==
    /\ Quiescent /\ Len(trail) = NumVars
    /\ Answer("sat")
    /\ UNCHANGED <<problem, opts, search, visiting, conflict, uip, limits,
                   calls, assumptions, iconflict>>

-----------------------------------------------------------------------------
Live   == {r \in DOMAIN clauses : ~ clauses[r].deleted}
Learnt == {r \in Live : clauses[r].learnt}

\* A literal of level 0 lies beyond the first decision.
HasLateRoot == DL > 0 /\ \E i \in dlevels[1] + 1 .. Len(trail) : trail[i].level = 0

(***************************************************************************)
(* reduce begins; chronoHasRoot backtracks, and BCP runs, if a literal of  *)
(* level 0 is out of place.  The intervals between reductions grow: one is *)
(* modelled, as early as there is a learnt clause.  subsume and map, which *)
(* have limits of their own, are left out.                                 *)
(***************************************************************************)
Reduce ==
    /\ Quiescent /\ Len(trail) < NumVars
    /\ problem.reduce /\ ~ reduced /\ Learnt # {}
    /\ reduced' = TRUE
    /\ pc' = "reduce"
    /\ IF opts.chrono /\ HasLateRoot
       THEN Backtrack(0, <<>>)
       ELSE UNCHANGED <<trail, propagated, dlevels>>
    /\ UNCHANGED <<problem, opts, clauses, watches, visiting, conflict, uip, rested, call>>

RootTrue(c)  == {l \in c.lits : IsTrue(l) /\ LevelOf(l) = 0}
RootFalse(c) == {l \in c.lits : IsFalse(l) /\ LevelOf(l) = 0}

\* shrink
Shrunk ==
    [r \in DOMAIN clauses |-> LET c == clauses[r] IN
        [c EXCEPT !.deleted = @ \/ RootTrue(c) # {},
                  !.lits = IF Cardinality({l \in @ : ~ IsFalse(l)}) < 2
                           THEN @ ELSE @ \ RootFalse(c)]]

\* What markReasons protects.
ReasonRefs == {trail[i].source : i \in {k \in DOMAIN trail : trail[k].level > 0}}

\* sortClause: the literals it may put first, and second after l.
Firsts(lits) ==
    LET true == {l \in lits : IsTrue(l)} IN
    CASE \E l \in lits : Unassigned(l) -> {l \in lits : Unassigned(l)}
      [] true # {} /\ ~ \E l \in lits : Unassigned(l) ->
             {l \in true : \A k \in true : LevelOf(l) <= LevelOf(k)}
      [] OTHER -> {l \in lits : LevelOf(l) = Highest(lits)}

Seconds(lits) ==
    IF \E l \in lits : ~ IsFalse(l)
    THEN {l \in lits : ~ IsFalse(l)}
    ELSE {l \in lits : LevelOf(l) = Highest(lits)}

SortedPairs(lits) == UNION {{{a, b} : b \in Seconds(lits \ {a})} : a \in Firsts(lits)}

\* recycleWT: each clause that is left, in the lists of its watches.
Attached(cls) ==
    UNION {{Watch(l, r, CHOOSE k \in cls[r].watched : k # l, Cardinality(cls[r].lits)) :
               l \in cls[r].watched} :
               r \in {q \in DOMAIN cls : ~ cls[q].deleted}}

(***************************************************************************)
(* The rest of reduce: satisfied clauses go, false literals of level 0 go, *)
(* learnt clauses go, and the large ones that stay are watched anew.  Their *)
(* LBD, usage and share, which choose among the learnt, are left open.     *)
(* With no learnt clause left after shrink, reduce returns.                *)
(***************************************************************************)
ReduceLearnts ==
    /\ pc = "reduce" /\ PropagationDone
    /\ LET cls   == Shrunk
           left  == {r \in Learnt : ~ cls[r].deleted}
           large == {r \in left : Cardinality(cls[r].lits) > 2}
           Pairs(r) == SortedPairs(cls[r].lits)
       IN IF left = {}
          THEN clauses' = cls /\ UNCHANGED watches
          ELSE /\ \E gone \in SUBSET (large \ ReasonRefs) :
                    \E pairs \in [large \ gone -> UNION {Pairs(r) : r \in large}] :
                       /\ \A r \in DOMAIN pairs : pairs[r] \in Pairs(r)
                       /\ clauses' = [r \in DOMAIN cls |->
                              [cls[r] EXCEPT !.deleted = @ \/ r \in gone,
                                             !.watched = IF r \in DOMAIN pairs THEN pairs[r] ELSE @]]
               /\ watches' = Attached(clauses')
    /\ pc' = "search"
    /\ UNCHANGED <<problem, opts, trail, propagated, dlevels, visiting, conflict, uip,
                   limits, call>>

\* As if a restart could follow on another.
BugRestart ==
    /\ Quiescent /\ Len(trail) < NumVars
    /\ DL > 0
    /\ \E level \in 0 .. DL : Backtrack(level, <<>>)
    /\ rested' = TRUE
    /\ UNCHANGED <<problem, opts, clauses, watches, visiting, conflict, uip,
                   reduced, call, pc>>

\* restart, after some conflict; reuse may keep any number of levels.
Restart ==
    /\ Quiescent /\ Len(trail) < NumVars
    /\ DL > 0 /\ ~ rested
    /\ \E level \in 0 .. DL : Backtrack(level, <<>>)
    /\ rested' = TRUE
    /\ UNCHANGED <<problem, opts, clauses, watches, visiting, conflict, uip,
                   reduced, call, pc>>

\* The first assumption from the current level on that is not true.
Pending == {i \in DL + 1 .. Len(assumptions) : ~ IsTrue(assumptions[i])}

\* As if a level began after its decision.
BugIncDL(n) == dlevels \o [i \in 1 .. n |-> Len(trail) + 1]

\* incDL, n times
IncDL(n) == dlevels \o [i \in 1 .. n |-> Len(trail)]

\* idecide; an assumption that is true gets a level without a decision.
Decide ==
    /\ Quiescent /\ Len(trail) < NumVars
    /\ LET levels == IF Pending # {} THEN Min(Pending) - 1 ELSE Max({DL, Len(assumptions)})
       IN /\ \E l \in IF Pending # {} THEN {assumptions[Min(Pending)]} ELSE Lits :
                 Unassigned(l) /\ trail' = Append(trail, Entry(l, levels + 1, NOREF))
          /\ dlevels' = IncDL(levels + 1 - DL)
    /\ UNCHANGED <<problem, opts, clauses, watches, propagated, visiting, conflict,
                   uip, limits, call, pc>>

\* As if the decision of the first level were not looked at.
BugFailed(l) ==
    LET n == Len(trail)
        pivot == IF dlevels = <<>> THEN n ELSE dlevels[1]
        seen[i \in pivot .. n] ==
            IF i = n THEN {l}
            ELSE LET e == trail[i + 1] IN
                 IF e.source # NOREF /\ seen[i + 1] \cap {e.lit, -e.lit} # {}
                 THEN seen[i + 1] \cup NonRoot(clauses[e.source].lits \ {e.lit})
                 ELSE seen[i + 1]
    IN {l} \cup {-trail[i].lit : i \in
           {k \in pivot + 2 .. n : /\ trail[k].source = NOREF
                                   /\ seen[k] \cap {trail[k].lit, -trail[k].lit} # {}}}

\* ianalyze: the decisions that a failed assumption depends on.
Failed(l) ==
    LET n == Len(trail)
        pivot == IF dlevels = <<>> THEN n ELSE dlevels[1]
        seen[i \in pivot .. n] ==
            IF i = n THEN {l}
            ELSE LET e == trail[i + 1] IN
                 IF e.source # NOREF /\ seen[i + 1] \cap {e.lit, -e.lit} # {}
                 THEN seen[i + 1] \cup NonRoot(clauses[e.source].lits \ {e.lit})
                 ELSE seen[i + 1]
    IN {l} \cup {-trail[i].lit : i \in
           {k \in pivot + 1 .. n : /\ trail[k].source = NOREF
                                   /\ seen[k] \cap {trail[k].lit, -trail[k].lit} # {}}}

FailAssumption ==
    /\ Quiescent /\ Len(trail) < NumVars
    /\ Pending # {} /\ IsFalse(assumptions[Min(Pending)])
    /\ dlevels' = IncDL(Min(Pending) - 1 - DL)
    /\ iconflict' = Failed(-assumptions[Min(Pending)])
    /\ Answer("unsat")
    /\ UNCHANGED <<problem, opts, clauses, watches, trail, propagated, visiting, conflict,
                   uip, limits, calls, assumptions>>

Terminating == pc = "idle" /\ calls = Len(problem.calls) /\ UNCHANGED vars

Next ==
    \/ Call \/ NextLiteral \/ VisitWatch
    \/ ChronoAnalyze \/ Analyze \/ Resolve \/ Strengthen \/ Learn
    \/ RootDone \/ AllAssigned \/ Reduce \/ ReduceLearnts \/ Restart \/ Decide \/ FailAssumption
    \/ Terminating

Spec == Init /\ [][Next]_vars

\* A single thread that nothing blocks.
FairSpec == Spec /\ WF_vars(Next)

-----------------------------------------------------------------------------
ClauseType == [lits : SUBSET Lits, watched : SUBSET Lits, learnt : BOOLEAN, deleted : BOOLEAN]

TypeOK ==
    /\ problem \in Problems /\ opts \in Options
    /\ clauses \in Seq(ClauseType)
    /\ watches \subseteq [lit : Lits, ref : DOMAIN clauses, imp : Lits, binary : BOOLEAN]
    /\ trail \in Seq([lit : Lits, level : 0 .. DL, source : {NOREF} \cup DOMAIN clauses])
    /\ propagated \in 0 .. Len(trail)
    /\ \A j \in 1 .. DL : dlevels[j] \in 0 .. propagated
    /\ visiting \subseteq watches
    /\ conflict \in {NOREF} \cup DOMAIN clauses
    /\ uip.seen \subseteq Lits /\ uip.resolved \subseteq uip.seen
    /\ rested \in BOOLEAN /\ reduced \in BOOLEAN
    /\ iconflict \subseteq Lits
    /\ pc \in {"idle", "root", "search", "reduce", "analyze", "uip"}
    /\ calls \in 0 .. Len(problem.calls)
    /\ cnfstate \in {"unsolved", "sat", "unsat"}

Assignments == {on \cup {-v : v \in Vars \ on} : on \in SUBSET Vars}

\* The assignments that satisfy the formula that was added.
Models ==
    {m \in Assignments :
        /\ \A k \in DOMAIN problem.clauses : Range(problem.clauses[k]) \cap m # {}
        /\ Range(problem.units) \subseteq m}

(***************************************************************************)
(* The clauses and the literals of level 0 always say what the formula     *)
(* says, under whatever assumptions they were learnt: nothing wrong is     *)
(* learnt or strengthened, and nothing needed is removed.                  *)
(***************************************************************************)
DatabaseEquivalent ==
    Models = {m \in Assignments :
                 /\ \A r \in Live : clauses[r].lits \cap m # {}
                 /\ \A i \in DOMAIN trail : trail[i].level = 0 => trail[i].lit \in m}

(***************************************************************************)
(* Every literal of the trail that has a reason is implied by it: the      *)
(* clause is still there, although clauses are removed and strengthened    *)
(* without a look at the trail, and its other literals were false before,  *)
(* at no higher level.  Resolution along the trail depends on it.          *)
(***************************************************************************)
ReasonsImply ==
    Propagating =>
        \A i \in DOMAIN trail : LET e == trail[i] IN
            e.source # NOREF /\ e.level > 0 =>
                /\ e.source \in Live /\ e.lit \in clauses[e.source].watched
                /\ \A l \in clauses[e.source].lits \ {e.lit} :
                       IsFalse(l) /\ PositionOf(l) < i /\ LevelOf(l) <= e.level

(***************************************************************************)
(* The assertions of detachWatch and of BCP: each literal that a clause    *)
(* watches has one watch for it, whose blocking literal is in the clause,  *)
(* and which knows when the clause has shrunk to two literals.             *)
(***************************************************************************)
WatchesConsistent ==
    \A r \in Live :
        /\ Cardinality(clauses[r].watched) = 2 /\ clauses[r].watched \subseteq clauses[r].lits
        /\ {w.lit : w \in WatchesOf(r)} = clauses[r].watched
        /\ Cardinality(WatchesOf(r)) = 2
        /\ \A w \in WatchesOf(r) :
               /\ w.imp \in clauses[r].lits \ {w.lit}
               /\ w.binary <=> Cardinality(clauses[r].lits) = 2

Falsified(r) == \A l \in clauses[r].lits : IsFalse(l)

UnitUnder(r) ==
    \E l \in clauses[r].lits : Unassigned(l) /\ \A k \in clauses[r].lits \ {l} : IsFalse(k)

\* Whether learnt literals are asserted as low as they can be, as levels have decisions
\* or belong to assumptions, and large clauses watch what propagation chose.
UnitsFound ==
    opts.chrono => /\ \A k \in DOMAIN problem.calls :
                          opts.distance >= NumVars + Len(problem.calls[k])
                   /\ ~ reduced

(***************************************************************************)
(* When propagation has come to rest no clause is false, although two of   *)
(* its literals stand for all of them and backtracking keeps literals.  No *)
(* clause is unit either, unless backtracking has kept literals out of     *)
(* order: a learnt literal was asserted at a higher level than its clause  *)
(* is false at, or sortClause put a literal second that is false longer    *)
(* than another of its level.                                              *)
(***************************************************************************)
NothingMissed ==
    Quiescent => \A r \in Live : ~ Falsified(r) /\ (UnitsFound => ~ UnitUnder(r))

\* The core of a failed assumption follows from the formula, and, without
\* literals of level 0 on higher ones, negates assumptions only.  With them,
\* the assertion of ianalyze that what it takes for a decision is of a level
\* above 0 may fail.
CoreImplied ==
    iconflict # {} =>
        /\ \A m \in Models : iconflict \cap m # {}
        /\ ~ HasLateRoot => \A l \in iconflict : -l \in Range(assumptions)

Termination == <>[](pc = "idle" /\ calls = Len(problem.calls))

-----------------------------------------------------------------------------
\* Every assumption has a level: idecide has looked at it and found or made it true.
AllAssumed == Len(assumptions) <= DL

(***************************************************************************)
(* The answer that isolve can be trusted with: all of them, except for sat *)
(* on a trail that was full before idecide got to the last assumption.     *)
(***************************************************************************)
TrustedAnswer == IF cnfstate = "sat" /\ ~ AllAssumed THEN "partial" ELSE cnfstate

Promise == INSTANCE SatPromise WITH
    models <- Models,
    model  <- IF cnfstate = "sat" THEN Assigned ELSE {},
    asked  <- assumptions,
    answer <- TrustedAnswer

\* isolve keeps the promise of module SatPromise as far as its answers can be trusted.
AnswersSoundly == Promise!Spec

\* The README says that isolve solves with assumptions: what it reports as a model
\* satisfies them.
ModelsRespectAssumptions ==
    cnfstate = "sat" => \A i \in DOMAIN assumptions : IsTrue(assumptions[i])

\* What is reported as a model satisfies the problem.
ModelsSatisfyFormula == cnfstate = "sat" => Assigned \in Models
=============================================================================
