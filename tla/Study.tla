-------------------------------- MODULE Study --------------------------------
(***************************************************************************)
(* What the static analyses of a model say, against what the model does.   *)
(*                                                                         *)
(* A model is compiled: its switching loops are searched, its cycle groups *)
(* and sealed modes decided.  Then either trajectories are walked, or a    *)
(* recorded corpus of it is reduced with those decisions.                  *)
(*                                                                         *)
(* Walking keeps two worlds: the model, and the same history without some  *)
(* of the failure/repair cycles that the reduction would cancel.  There,   *)
(* what is recorded happens as recorded, and memoryless automata follow    *)
(* what they read.                                                         *)
(***************************************************************************)
EXTENDS SwitchingLoops, CycleGroups, PathReduction, FaultTree, Quantify

CONSTANTS MaxFirings, MaxTicks,
          Limits  \* the cutoffs that trees are quantified with

VARIABLES
  compiled,  \* kept groups, sealed modes, loops, memoryless automata
  world,     \* modes, stored values, armed transitions
  without,   \* the world without the cycles left out
  leftOut,   \* the groups in a cycle that is left out
  cause,     \* the target this trajectory is examined for
  ended,     \* the target it reached
  agreed,    \* whether it was reached without those cycles too
  tree,      \* the fault tree of some targets, that this trajectory is read with
  drawn,     \* the draws that occurred meanwhile
  firings, ticks

walkVars == <<world, without, leftOut, cause, ended, agreed, tree, drawn, firings, ticks>>
vars     == <<M, dfs, compiled, walkVars, reductionVars, quantifyVars>>

ASSUME StudyAssumption == MaxFirings \in Nat /\ MaxTicks \in Nat

-----------------------------------------------------------------------------
(* What a model does, as coarsely as the static analyses see it: modes,     *)
(* stored values, timers that go on and a clock; what takes no time comes   *)
(* before what does.                                                       *)
Initial(a) == M.states[a][1]
Stored     == Attrs \ DOMAIN M.given

EmptyWorld == [modes |-> [a \in Automata |-> Initial(a)], vals |-> [x \in Stored |-> M.init[x]],
               armed |-> {}, now |-> 0]

(* The value of an expression in a world (`eval`).                          *)
RECURSIVE Eval(_, _)
Eval(e, w) ==
  LET operands == [k \in DOMAIN e.args |-> Eval(e.args[k], w)]
      value(x) == IF x \in Stored THEN w.vals[x] ELSE Eval(M.given[x].expr, w)
  IN CASE e.op = "const"  -> e.value
       [] e.op = "time"   -> w.now
       [] e.op = "active" -> Truth(w.modes[e.aut] = e.state)
       [] e.op = "var"    -> value(e.name)
       [] e.op = "port"   ->
            Aggregate(e.agg, [k \in DOMAIN M.ports[e.port] |-> value(M.ports[e.port][k])])
       [] OTHER           -> Combined(e.op, operands)

Holds(t, w) == IF T(t).guard = None THEN TRUE ELSE Eval(T(t).guard, w) # 0

(* A timer that goes on fires whatever became of its guard.                 *)
Enabled(t, w) == w.modes[T(t).aut] = T(t).source /\ (Holds(t, w) \/ t \in w.armed)

AtOnce(w) == {t \in Trans : T(t).law = "instant" /\ Enabled(t, w)}

(* What may happen next.                                                    *)
Ready(w) == IF AtOnce(w) # {} THEN AtOnce(w) ELSE {t \in Trans : Enabled(t, w)}

Armed(w) ==
  [w EXCEPT !.armed = {t \in Trans : /\ T(t).law = "later" /\ T(t).policy = "continue"
                                     /\ Enabled(t, w)}]

Moved(w, t, s) ==
  Armed([w EXCEPT !.modes[T(t).aut] = s,
                  !.armed = {u \in @ : T(u).aut # T(t).aut},
                  !.vals  = [x \in DOMAIN @ |-> IF x \in DOMAIN T(t).effects
                                                THEN Eval(T(t).effects[x], w) ELSE @[x]]])

(* Time passes: what an ODE or a unit moves, moves.                         *)
Later(w) ==
  Armed([w EXCEPT !.now  = @ + 1,
                  !.vals = [x \in DOMAIN @ |-> IF x \in DOMAIN M.moved
                                               THEN @[x] + Eval(M.moved[x].expr, w) ELSE @[x]]])

-----------------------------------------------------------------------------
RECURSIVE Settled(_, _)
Settled(w, fuel) ==
  LET due == {t \in Trans : T(t).aut \in compiled.memoryless /\ Enabled(t, w)}
  IN  IF due = {} \/ fuel = 0 THEN w
      ELSE LET t == Min(due) IN Settled(Moved(w, t, T(t).targets[1]), fuel - 1)

Following(w) == Settled(w, Cardinality(Automata))

(* The other world takes what is recorded, from wherever it can.            *)
Recorded(w, t, s) ==
  Following(IF T(t).aut \in compiled.memoryless \/ w.modes[T(t).aut] # T(t).source
            THEN w ELSE Moved(w, t, s))

-----------------------------------------------------------------------------
Init ==
  /\ \E n \in DOMAIN StudyOf : M = StudyOf[n]
  /\ dfs = EmptySearch /\ compiled = None
  /\ corpus = M.corpus /\ left = DOMAIN M.corpus /\ paths = << >>
  /\ report = [count |-> 0, weight |-> 0]
  /\ world = EmptyWorld /\ without = EmptyWorld /\ leftOut = {} /\ cause = None /\ ended = None
  /\ agreed = TRUE /\ tree = None /\ drawn = {} /\ firings = 0 /\ ticks = 0
  /\ job = Absent /\ search = Absent

SearchLoops == "cycles" \in M.asks /\ SearchStep /\ tree = None
  /\ UNCHANGED <<M, compiled, walkVars, reductionVars, quantifyVars>>

(* `cycle_groups`, `unfed_triggers` and `switching_loops`, at compilation.  *)
Decide(f) ==
  compiled' = [kept       |-> [k \in DOMAIN M.targets |-> KeptFor(f, k)],
               sealed     |-> SealedModes,
               loops      |-> LoopsAmong(dfs.found),
               memoryless |-> f.memoryless]

Compile ==
  /\ Searched /\ compiled = None
  /\ Decide(Facts(ReadersIn(Influences), MemoryVars))
  /\ UNCHANGED <<M, dfs, walkVars, reductionVars, quantifyVars>>

Untouched == left = DOMAIN corpus /\ firings = 0 /\ ticks = 0 /\ cause = None /\ tree = None
             /\ job = Absent

Begin(k) ==
  /\ compiled # None /\ Untouched
  /\ cause' = k /\ world' = Armed(world) /\ without' = Following(Armed(without))
  /\ UNCHANGED <<M, dfs, compiled, leftOut, ended, agreed, tree, drawn, firings, ticks,
                reductionVars, quantifyVars>>

Walking == cause # None /\ ended = None

GroupOf(t) == <<T(t).component, T(t).group>>

(* A cycle may be left out when the analysis says so, from its first event. *)
MayLeaveOut(t) ==
  /\ GroupOf(t) \in Groups \ compiled.kept[cause] /\ Declared(GroupOf(t)) = "auto"
  /\ T(t).source = Initial(T(t).aut)

Outcome(t, s) ==
  LET reached == {k \in DOMAIN M.targets : M.targets[k].aut = T(t).aut /\ M.targets[k].state = s}
  IN  IF reached = {} THEN UNCHANGED <<ended, agreed>>
      ELSE /\ ended' = Min(reached)
           /\ agreed' = (Enabled(t, without) \/ without.modes[T(t).aut] = s)

Fire(t, s, omit) ==
  /\ Walking /\ firings < MaxFirings /\ firings' = firings + 1
  /\ t \in Ready(world) /\ s \in Range(T(t).targets)
  /\ omit => GroupOf(t) \in leftOut \/ MayLeaveOut(t)
  /\ ~omit => GroupOf(t) \notin leftOut
  /\ leftOut' = IF ~omit THEN leftOut
                ELSE IF GroupOf(t) \in leftOut THEN leftOut \ {GroupOf(t)}
                ELSE leftOut \cup {GroupOf(t)}
  /\ world' = Moved(world, t, s)
  /\ without' = IF omit THEN without ELSE Recorded(without, t, s)
  /\ Outcome(t, s)
  /\ UNCHANGED <<M, dfs, compiled, cause, tree, drawn, ticks, reductionVars, quantifyVars>>

(* The tree of these targets, and a history read with it.                   *)
Explain(ks) ==
  /\ "tree" \in M.asks /\ dfs = EmptySearch /\ Untouched
  /\ tree' = [goal |-> ks] @@ Generated(ks) /\ world' = Armed(world)
  /\ UNCHANGED <<M, dfs, compiled, without, leftOut, cause, ended, agreed, drawn, firings, ticks,
                reductionVars, quantifyVars>>

Foreseen == tree # None /\ tree.top # Refused

Occur(t, s) ==
  /\ Foreseen /\ job = Absent /\ firings < MaxFirings /\ firings' = firings + 1
  /\ t \in Ready(world) /\ s \in Range(T(t).targets)
  /\ world' = Moved(world, t, s)
  /\ drawn' = IF Crossed(t) THEN drawn ELSE drawn \cup {<<t, s>>}
  /\ UNCHANGED <<M, dfs, compiled, without, leftOut, cause, ended, agreed, tree, ticks,
                reductionVars, quantifyVars>>

Tick ==
  /\ Walking \/ (Foreseen /\ job = Absent)
  /\ ticks < MaxTicks /\ ticks' = ticks + 1
  /\ AtOnce(world) = {}
  /\ world' = Later(world) /\ without' = IF Walking THEN Following(Later(without)) ELSE without
  /\ UNCHANGED <<M, dfs, compiled, leftOut, cause, ended, agreed, tree, drawn, firings,
                reductionVars, quantifyVars>>

(* A generated tree as the quantifier takes it (`from_generated`), its      *)
(* events numbered.                                                         *)
RECURSIVE EventsIn(_)
EventsIn(n) ==
  IF n.op = "event" THEN {n.event}
  ELSE IF HasArgs(n) THEN UNION {EventsIn(n.args[k]) : k \in DOMAIN n.args} ELSE {}

RECURSIVE Numbered(_, _)
Numbered(n, events) ==
  IF n.op = "event" THEN [op |-> "event", event |-> CHOOSE i \in DOMAIN events : events[i] = n.event]
  ELSE IF HasArgs(n) THEN [n EXCEPT !.args = [k \in DOMAIN n.args |-> Numbered(n.args[k], events)]]
  ELSE n

(* A tree is quantified: the one just generated, its events evenly likely,  *)
(* or one that was given.                                                   *)
Assess(cutoffs) ==
  LET events == Enumerated(EventsIn(tree.top))
  IN  /\ Foreseen /\ drawn = {} /\ firings = 0 /\ ticks = 0 /\ job = Absent
      /\ job' = Started(Numbered(tree.top, events), [i \in DOMAIN events |-> <<1, 2>>], cutoffs)
      /\ UNCHANGED <<M, dfs, compiled, walkVars, reductionVars, search>>

AssessGiven(cutoffs) ==
  /\ M.formula # None /\ Untouched
  /\ job' = Started(M.formula.tree, M.formula.p, cutoffs)
  /\ UNCHANGED <<M, dfs, compiled, walkVars, reductionVars, search>>

QuantifyOn == QuantifyStep /\ UNCHANGED <<M, dfs, compiled, walkVars, reductionVars>>

(* The reducer of the campaign (`with_cycle_groups`).                       *)
Reduce(i) ==
  /\ compiled # None /\ cause = None /\ tree = None
  /\ Push(i, [c \in {None} \cup {M.targets[k].name : k \in DOMAIN M.targets} |->
                IF c = None THEN {}
                ELSE LET k == CHOOSE j \in DOMAIN M.targets : M.targets[j].name = c
                     IN  compiled.kept[k]])
  /\ UNCHANGED <<M, dfs, compiled, walkVars, quantifyVars>>

Next ==
  \/ SearchLoops \/ Compile \/ Tick
  \/ \E k \in DOMAIN M.targets : Begin(k)
  \/ \E t \in Trans, omit \in BOOLEAN : \E s \in Range(T(t).targets) : Fire(t, s, omit)
  \/ \E ks \in (SUBSET DOMAIN M.targets) \ {{}} : Explain(ks)
  \/ \E t \in Trans : \E s \in Range(T(t).targets) : Occur(t, s)
  \/ \E c \in Limits : Assess(c) \/ AssessGiven(c)
  \/ QuantifyOn
  \/ \E i \in left : Reduce(i)

Spec == Init /\ [][Next]_vars
-----------------------------------------------------------------------------
(* The hypothesis of the reduction, "a repaired component no longer         *)
(* contributes" (cycle_groups.rs:4-8): where the analysis lets a group be   *)
(* cancelled for a target, a history that reaches this target reaches it    *)
(* without the group's closed cycles as well, whatever the order of         *)
(* failures, repairs and reactions, and whatever remembers them meanwhile.  *)
CancelledHadNoPart == (ended # None /\ ended = cause /\ leftOut = {}) => agreed

(* A mode reported as sealed is never left, whatever else the model does:   *)
(* the emptiness of the port decides it and nothing that moves does         *)
(* (triggers.rs:4-12, 82-87).                                               *)
SealedModesStay ==
  [][compiled # None =>
       \A m \in compiled.sealed : world.modes[m[1]] = m[2] => world'.modes[m[1]] = m[2]]_vars

GoalHolds == \E k \in tree.goal : world.modes[M.targets[k].aut] = M.targets[k].state

(* A tree over-estimates (fault_tree.rs:66-76): whatever history leads to a *)
(* target, through guards, computed attributes, votes, complements, ways    *)
(* round a repair loop and states crossed without a draw, the draws that    *)
(* occurred hold one of its minimal cut sets.                               *)
TreeExplains == Foreseen /\ GoalHolds => \E c \in CutSets(tree.top) : c \subseteq drawn

(* Where nothing is warned and nothing repaired, it says no more than the   *)
(* model: once its draws have occurred and what takes no time is done, the  *)
(* target is reached (fault_tree.rs:66-76).  Two ways to exceed the model   *)
(* that the code never warns of are set apart: a follower of a state that   *)
(* may be left, and an observer that has a rival.                           *)
Unwarned(w) ==
  IF Observer(w[1]) THEN Rivals(w[1]) # {} ELSE Crossed(w[1]) /\ NeedsPersistence(Condition(w[1]))

TreeIsExact ==
  (/\ Foreseen /\ tree.warnings = {} /\ tree.repaired = {} /\ ~\E w \in tree.ways : Unwarned(w)
   /\ AtOnce(world) = {} /\ HoldsFor(tree.top, drawn)) => GoalHolds

(* A generated tree is the model seen from its top: it explains every way   *)
(* to it and, unless it warns, nothing else (fault_tree.rs:66-76).          *)
TreeIsTheModel == TreeExplains /\ TreeIsExact
=============================================================================
