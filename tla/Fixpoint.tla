------------------------------ MODULE Fixpoint ------------------------------
(***************************************************************************)
(* The discrete fixpoint of the engine (crates/raichu-core/src/engine/     *)
(* run.rs): after a firing, and once at initialization, the engine applies *)
(* the pending sensitive functions and programs one at a time until none   *)
(* is left, and a change of an attribute makes its readers pending again.  *)
(*                                                                         *)
(* A step of the model below is one observable move of that loop: popping  *)
(* a step, one write of the step, the end of the pass, the comparison of   *)
(* the two passes of the confluence probe.  A location is an attribute or  *)
(* an automaton (whose value is its active state), so that one trigger     *)
(* relation stands for `var_triggers` and `state_triggers`.                *)
(***************************************************************************)
EXTENDS Integers, Sequences, FiniteSets

CONSTANTS
  Attr,         \* attributes
  Aut,          \* automata
  Value,        \* values of attributes, and states of automata
  Fail,         \* "this expression does not evaluate", not a value
  NSteps,       \* functions, then programs, numbered in declaration order
  ModelOf,      \* the compiled models considered, a function from names to them
  MaxFirings    \* bound of the exploration: firings after initialization

Loc   == Attr \cup Aut
Store == [Loc -> Value]
Steps == 1..NSteps

Nobody == 0           \* no step is being applied
Edge   == NSteps + 1  \* the edge effects of a firing are being applied

(* One assignment `target := value`; `reads` is the sensitivity set of the *)
(* expression, `value` its outcome on every store.                         *)
Effect == [target : Attr, reads : SUBSET Loc,
           value : [Store -> Value \cup {Fail}]]

(* A function applies its effects one after the other, a program solves on *)
(* the state it finds and then publishes its outputs in order.             *)
StepDef == [program : BOOLEAN, effects : Seq(Effect)]

(* A firing moves one automaton and carries its own edge effects.          *)
FiringDef == [aut : Aut, to : Value, effects : Seq(Effect)]

(* With the two settings of EngineConfig that the fixpoint looks at, the    *)
(* probe and `max_fixpoint_iterations`.                                     *)
Model == [steps : [Steps -> StepDef], firings : Seq(FiringDef),
          init : Store, probe : BOOLEAN, maxIter : Nat]

Models == DOMAIN ModelOf

ReadsCoverValue(e) ==
  \A s, t \in Store :
    (\A l \in e.reads : s[l] = t[l]) => e.value[s] = e.value[t]

(* What the compiler and the model checks guarantee: an expression depends *)
(* on nothing outside its sensitivity set, and no edge effect writes an    *)
(* attribute a function or a program writes (TransitionEffectOverwritten). *)
ModelOK(m) ==
  /\ \A f \in Steps : \A k \in 1..Len(m.steps[f].effects) :
       ReadsCoverValue(m.steps[f].effects[k])
  /\ \A w \in 1..Len(m.firings) : \A j \in 1..Len(m.firings[w].effects) :
       \A f \in Steps : \A k \in 1..Len(m.steps[f].effects) :
         m.firings[w].effects[j].target # m.steps[f].effects[k].target

ASSUME NStepsAssumption  == NSteps \in Nat /\ MaxFirings \in Nat
ASSUME FailAssumption    == Fail \notin Value
ASSUME LocAssumption     == Attr \cap Aut = {}
ASSUME ModelsAssumption  == \A m \in Models : ModelOf[m] \in Model /\ ModelOK(ModelOf[m])

VARIABLES
  model,      \* the name of the compiled model, immutable
  vars,       \* attribute values and active states
  worklist,   \* pending steps, an ordered set
  phase,      \* "edge", "forward", "reverse" (second pass of the probe), "idle"
  firing,     \* the last firing, whose edge effects are applied first
  running,    \* the step being applied, Edge or Nobody
  pos,        \* the effect of it that comes next
  base,       \* the state a program solved on
  iterations, \* steps popped in this pass
  cycleRuns,  \* runs in this pass of each step that lies on a cycle
  saved,      \* the state the probe replays, [vars, worklist]
  forward,    \* the result of the forward pass, while the reverse one runs
  outcome,    \* what the last fixpoint returned
  clean,      \* no fixpoint has failed since the last initialization
  firings     \* number of firings since the beginning

fpVars == <<model, vars, worklist, phase, firing, running, pos, base, iterations,
            cycleRuns, saved, forward, outcome, clean, firings>>

Outcomes == {"None", "Stable", "InstantaneousLoop", "FixpointWorkExceeded",
             "EffectFailed", "NonConfluent"}
-----------------------------------------------------------------------------
(* Static structure of a compiled model.                                   *)

M == ModelOf[model]

EffectsOf(f) == IF f = Edge THEN M.firings[firing].effects ELSE M.steps[f].effects
Reads(m, f)  == UNION {m.steps[f].effects[k].reads : k \in 1..Len(m.steps[f].effects)}
Writes(m, f) == {m.steps[f].effects[k].target : k \in 1..Len(m.steps[f].effects)}

(* Mutant: the table is built from the first effect of each step only.      *)
TriggerTableFirstEffect ==
  [m \in Models |-> [l \in Loc |-> {f \in Steps : ModelOf[m].steps[f].effects # << >>
                                            /\ l \in ModelOf[m].steps[f].effects[1].reads}]]

(* The trigger tables: the steps sensitive to each location.                *)
TriggerTable == [m \in Models |-> [l \in Loc |-> {f \in Steps : l \in Reads(ModelOf[m], f)}]]
Triggers(l)  == TriggerTable[model][l]

(* f -> g when f writes an attribute g is sensitive to.                     *)
Successors(m, f) == {g \in Steps : Writes(m, f) \cap Reads(m, g) # {}}

(* The steps on a cycle: whatever is reachable from them includes them.     *)
CycleTable == [m \in Models |-> {f \in Steps : \A C \in SUBSET Steps :
  (/\ Successors(ModelOf[m], f) \subseteq C
   /\ \A g \in C : Successors(ModelOf[m], g) \subseteq C) => f \in C}]
OnCycle(f) == f \in CycleTable[model]

WorkBudget == 2 * M.maxIter * (IF NSteps > 0 THEN NSteps ELSE 1)
-----------------------------------------------------------------------------
ZeroRuns == [f \in Steps |-> 0]
NoFiring == 0

(* `initialize`: every step is pending on the declared initial state.      *)
Init ==
  /\ model \in Models
  /\ vars = M.init
  /\ worklist = Steps
  /\ phase = "forward"
  /\ firing = NoFiring
  /\ running = Nobody
  /\ pos = 1
  /\ base = M.init
  /\ iterations = 0
  /\ cycleRuns = ZeroRuns
  /\ saved = [vars |-> M.init, worklist |-> Steps]
  /\ forward = M.init
  /\ outcome = "None"
  /\ clean = TRUE
  /\ firings = 0

(* `Engine::new` returns no engine when the first fixpoint fails.           *)
Built == outcome = "Stable" \/ firings > 0

(* `fire`: the automaton changes state and the edge effects start.  The     *)
(* caller may fire whatever the previous fixpoint returned: the engine is   *)
(* handed back to it either way.                                            *)
Fire(w) ==
  /\ phase = "idle" /\ Built
  /\ firings < MaxFirings
  /\ firings' = firings + 1
  /\ firing' = w
  /\ vars' = [vars EXCEPT ![M.firings[w].aut] = M.firings[w].to]
  /\ phase' = "edge"
  /\ running' = Edge
  /\ pos' = 1
  /\ outcome' = "None"
  /\ UNCHANGED <<model, worklist, base, iterations, cycleRuns, saved, forward, clean>>

(* The end of the edge effects: the readers of the automaton become         *)
(* pending and the fixpoint starts; the probe keeps what it will replay.    *)
StartFixpoint ==
  /\ phase = "edge"
  /\ pos > Len(EffectsOf(Edge))
  /\ worklist' = worklist \cup Triggers(M.firings[firing].aut)
  /\ saved' = [vars |-> vars, worklist |-> worklist']
  /\ phase' = "forward"
  /\ running' = Nobody
  /\ UNCHANGED <<model, vars, firing, pos, base, iterations, cycleRuns, forward,
                 outcome, clean, firings>>

(* `reset`: back to the declared initial state, whatever happened before.   *)
(* The leftovers of a failed fixpoint are subsumed by the full worklist.    *)
Reset ==
  /\ phase = "idle" /\ Built
  /\ firings < MaxFirings
  /\ firings' = firings + 1
  /\ vars' = M.init
  /\ worklist' = Steps
  /\ saved' = [vars |-> M.init, worklist |-> Steps]
  /\ phase' = "forward"
  /\ outcome' = "None"
  /\ clean' = TRUE
  /\ UNCHANGED <<model, firing, running, pos, base, iterations, cycleRuns, forward>>
-----------------------------------------------------------------------------
Converging == phase \in {"forward", "reverse"} /\ running = Nobody

(* `pop_first`, or `pop_last` in the reverse pass.                          *)
IsNext(f) ==
  /\ f \in worklist
  /\ phase = "forward" => \A g \in worklist : f <= g
  /\ phase = "reverse" => \A g \in worklist : g <= f

CountRun(f) == IF OnCycle(f) THEN [cycleRuns EXCEPT ![f] = @ + 1] ELSE cycleRuns
OverCap(f)  == OnCycle(f) /\ cycleRuns[f] + 1 > M.maxIter
OverBudget  == iterations + 1 > WorkBudget

(* A pass ends: the counts of `converge` start again from zero.             *)
ResetCounts == iterations' = 0 /\ cycleRuns' = ZeroRuns

(* Every way a fixpoint returns an error.                                   *)
ReturnError(what) ==
  /\ outcome' = what
  /\ phase' = "idle"
  /\ running' = Nobody
  /\ ResetCounts

Pop(f) ==
  /\ Converging
  /\ IsNext(f)
  /\ ~OverCap(f) /\ ~OverBudget
  /\ worklist' = worklist \ {f}
  /\ iterations' = iterations + 1
  /\ cycleRuns' = CountRun(f)
  /\ running' = f
  /\ pos' = 1
  /\ base' = vars
  /\ UNCHANGED <<model, vars, phase, firing, saved, forward, outcome, clean, firings>>

LoopDetected(f) ==
  /\ Converging
  /\ IsNext(f)
  /\ OverCap(f)
  /\ worklist' = {}
  /\ ReturnError("InstantaneousLoop")
  /\ clean' = FALSE
  /\ UNCHANGED <<model, vars, firing, pos, base, saved, forward, firings>>

WorkExceeded(f) ==
  /\ Converging
  /\ IsNext(f)
  /\ ~OverCap(f) /\ OverBudget
  /\ worklist' = {}
  /\ ReturnError("FixpointWorkExceeded")
  /\ clean' = FALSE
  /\ UNCHANGED <<model, vars, firing, pos, base, saved, forward, firings>>
-----------------------------------------------------------------------------
IsProgram(f) == f # Edge /\ M.steps[f].program
Applying     == running # Nobody /\ pos <= Len(EffectsOf(running))

(* A program reads the state it was popped on, a function and an edge       *)
(* effect the state the previous effect left.                               *)
ValueAt(k) == EffectsOf(running)[k].value[IF IsProgram(running) THEN base ELSE vars]

(* Mutant: a program notices the failure at the output it has come to.      *)
FailsAtOutput == ValueAt(pos) = Fail

(* Mutant: an expression that does not evaluate is written as it is.        *)
NeverFails == FALSE

(* A program fails before it publishes anything, a function fails at the    *)
(* effect that does not evaluate.                                           *)
Fails == IF IsProgram(running) THEN \E k \in 1..Len(EffectsOf(running)) : ValueAt(k) = Fail
                               ELSE ValueAt(pos) = Fail

WriteEffect ==
  LET target == EffectsOf(running)[pos].target
      new    == ValueAt(pos)
  IN /\ Applying
     /\ ~Fails
     /\ vars' = [vars EXCEPT ![target] = new]
     /\ worklist' = IF new # vars[target] THEN worklist \cup Triggers(target) ELSE worklist
     /\ pos' = pos + 1
     /\ UNCHANGED <<model, phase, firing, running, base, iterations, cycleRuns, saved,
                    forward, outcome, clean, firings>>

(* The error is returned with `?`: the worklist keeps what it holds.        *)
EffectFails ==
  /\ Applying
  /\ Fails
  /\ ReturnError("EffectFailed")
  /\ clean' = FALSE
  /\ UNCHANGED <<model, vars, worklist, firing, pos, base, saved, forward, firings>>

(* Mutant: the counts are reset after each step instead of after the pass.  *)
FinishStepResetting ==
  /\ running \in Steps
  /\ pos > Len(EffectsOf(running))
  /\ running' = Nobody
  /\ ResetCounts
  /\ UNCHANGED <<model, vars, worklist, phase, firing, pos, base, saved, forward,
                 outcome, clean, firings>>

FinishStep ==
  /\ running \in Steps
  /\ pos > Len(EffectsOf(running))
  /\ running' = Nobody
  /\ UNCHANGED <<model, vars, worklist, phase, firing, pos, base, iterations, cycleRuns,
                 saved, forward, outcome, clean, firings>>
-----------------------------------------------------------------------------
PassEnds == Converging /\ worklist = {}

(* Without the probe the forward pass is the fixpoint.                      *)
Converge ==
  /\ PassEnds
  /\ phase = "forward" /\ ~M.probe
  /\ phase' = "idle"
  /\ outcome' = "Stable"
  /\ ResetCounts
  /\ UNCHANGED <<model, vars, worklist, firing, running, pos, base, saved, forward,
                 clean, firings>>

(* With it, the saved state is replayed in reverse order.                   *)
StartReverse ==
  /\ PassEnds
  /\ phase = "forward" /\ M.probe
  /\ forward' = vars
  /\ vars' = saved.vars
  /\ worklist' = saved.worklist
  /\ phase' = "reverse"
  /\ ResetCounts
  /\ UNCHANGED <<model, firing, running, pos, base, saved, outcome, clean, firings>>

(* Mutant: the result is compared with the state the probe started from.    *)
CompareWithSaved ==
  /\ PassEnds
  /\ phase = "reverse"
  /\ outcome' = IF saved.vars = vars THEN "Stable" ELSE "NonConfluent"
  /\ phase' = "idle"
  /\ ResetCounts
  /\ UNCHANGED <<model, vars, worklist, firing, running, pos, base, saved, forward,
                 clean, firings>>

(* The two results are compared: the forward one is kept when they agree,   *)
(* the reverse one is left in place when they do not.                       *)
Compare ==
  /\ PassEnds
  /\ phase = "reverse"
  /\ outcome' = IF forward = vars THEN "Stable" ELSE "NonConfluent"
  /\ phase' = "idle"
  /\ ResetCounts
  /\ UNCHANGED <<model, vars, worklist, firing, running, pos, base, saved, forward,
                 clean, firings>>

Next ==
  \/ \E w \in 1..Len(M.firings) : Fire(w)
  \/ Reset
  \/ StartFixpoint
  \/ \E f \in Steps : Pop(f) \/ LoopDetected(f) \/ WorkExceeded(f)
  \/ WriteEffect
  \/ EffectFails
  \/ FinishStep
  \/ Converge
  \/ StartReverse
  \/ Compare

(* The loop runs on the caller's thread: it goes on as long as it can.      *)
Progress == phase # "idle" /\ Next

Spec     == Init /\ [][Next]_fpVars
FairSpec == Spec /\ WF_fpVars(Progress)
-----------------------------------------------------------------------------
TypeOK ==
  /\ model \in Models
  /\ vars \in Store
  /\ worklist \subseteq Steps
  /\ phase \in {"edge", "forward", "reverse", "idle"}
  /\ firing \in 0..Len(M.firings)
  /\ running \in Steps \cup {Nobody, Edge}
  /\ (phase = "edge") <=> (running = Edge)
  /\ phase = "idle" => running = Nobody
  /\ phase = "edge" => firing # NoFiring
  /\ pos \in Nat \ {0}
  /\ base \in Store
  /\ iterations \in Nat
  /\ cycleRuns \in [Steps -> Nat]
  /\ saved \in [vars : Store, worklist : SUBSET Steps]
  /\ forward \in Store
  /\ outcome \in Outcomes
  /\ clean \in BOOLEAN
  /\ firings \in Nat

(* An effect has the last word on its target when nothing else writes it.   *)
SoleWriter(f, k) ==
  \A g \in Steps : \A j \in 1..Len(M.steps[g].effects) :
    M.steps[g].effects[j].target = M.steps[f].effects[k].target => g = f /\ j = k

Settled(s, f, k) ==
  LET e == M.steps[f].effects[k] IN e.value[s] = s[e.target]

(* Every effect that is the sole writer of its target holds in `s`, unless  *)
(* its step is exempted.                                                    *)
SettledOutside(s, exempt) ==
  \A f \in Steps \ exempt : \A k \in 1..Len(M.steps[f].effects) :
    SoleWriter(f, k) => Settled(s, f, k)

(* A fixpoint that returns without an error leaves every function and       *)
(* program consistent with what it reads, whichever order steps ran in and  *)
(* whether or not the probe rewound the state in between; only an attribute *)
(* that two effects write is excepted.  `run_fixpoint` returning Ok is what *)
(* the guards, the dates and the indicators computed next rely on.          *)
SettledWhenIdle == phase = "idle" /\ clean => SettledOutside(vars, {})

(* The probe reports only what it is for: without two writers of one        *)
(* attribute and without a cycle of steps, both orders reach one result.    *)
(* Only from a settled state: on an engine handed back after an error, a    *)
(* step left stale is run again by the order in which what it reads moves   *)
(* and comes back, and by the other order it is not.                        *)
SoleWriters == \A f \in Steps : \A k \in 1..Len(M.steps[f].effects) : SoleWriter(f, k)
Acyclic     == \A f \in Steps : ~OnCycle(f)
ProbeBlamesOrder == clean /\ outcome = "NonConfluent" => ~SoleWriters \/ ~Acyclic

(* A program publishes all its outputs or none: the state an infeasible or  *)
(* failing solve leaves is the one it was given.                            *)
ProgramAllOrNothing ==
  [][(running \in Steps /\ IsProgram(running) /\ outcome = "None"
       /\ outcome' = "EffectFailed")
       => vars' = base]_fpVars

(* A step is charged for its runs in the current pass only, whatever failed *)
(* before: InstantaneousLoop is never reported for an accumulation of       *)
(* fixpoints that all converged (tests/fixpoint_cap.rs, fresh counts).      *)
OwnRunsOnly == \A f \in Steps : cycleRuns[f] <= iterations

(* What fails leaves nothing behind: neither half of a program's outputs in *)
(* the state nor its runs in the counts of the next fixpoint.               *)
FailuresLeaveNothing == ProgramAllOrNothing /\ []OwnRunsOnly

(* Every call of the fixpoint returns: a loop is cut by one of the caps.    *)
EveryFixpointReturns == phase # "idle" ~> phase = "idle"
=============================================================================
