--------------------------- MODULE FixpointProofs ---------------------------
(***************************************************************************)
(* Proofs about Fixpoint, for every compiled model, every number of steps  *)
(* and every cap: the type invariant, and the theorem that a fixpoint      *)
(* which returns without an error leaves every sole writer settled.        *)
(***************************************************************************)
EXTENDS Fixpoint, FiniteSetTheorems, TLAPS

(* What the model of a state is: its steps and firings are well typed, and  *)
(* the guarantees of the compiler hold.                                     *)
LEMMA ModelFacts ==
  ASSUME model \in Models
  PROVE  /\ M \in Model
         /\ ModelOK(M)
BY ModelsAssumption DEF M

LEMMA StepEffects ==
  ASSUME model \in Models, NEW f \in Steps
  PROVE  /\ M.steps[f] \in StepDef
         /\ M.steps[f].effects \in Seq(Effect)
         /\ Len(M.steps[f].effects) \in Nat
         /\ \A k \in 1..Len(M.steps[f].effects) : M.steps[f].effects[k] \in Effect
<1>1. M.steps[f] \in StepDef
  BY ModelFacts DEF Model
<1>2. M.steps[f].effects \in Seq(Effect)
  BY <1>1 DEF StepDef
<1> QED BY <1>1, <1>2

LEMMA FiringEffects ==
  ASSUME model \in Models, NEW w \in 1..Len(M.firings)
  PROVE  /\ M.firings[w].aut \in Aut
         /\ M.firings[w].to \in Value
         /\ M.firings[w].effects \in Seq(Effect)
         /\ Len(M.firings[w].effects) \in Nat
         /\ \A k \in 1..Len(M.firings[w].effects) : M.firings[w].effects[k] \in Effect
<1>1. M.firings \in Seq(FiringDef)
  BY ModelFacts DEF Model
<1>2. M.firings[w] \in FiringDef
  BY <1>1
<1>3. M.firings[w].effects \in Seq(Effect)
  BY <1>2 DEF FiringDef
<1> QED BY <1>2, <1>3 DEF FiringDef

(* The effects being applied are well typed, and a value they write is one. *)
LEMMA AppliedEffects ==
  ASSUME TypeOK, running # Nobody
  PROVE  /\ Len(EffectsOf(running)) \in Nat
         /\ \A k \in 1..Len(EffectsOf(running)) : EffectsOf(running)[k] \in Effect
<1>1. CASE running = Edge
  <2>1. firing \in 1..Len(M.firings)
    <3>1. M.firings \in Seq(FiringDef)
      BY ModelFacts DEF Model, TypeOK
    <3> QED BY <1>1, <3>1 DEF TypeOK, NoFiring
  <2> QED BY <1>1, <2>1, FiringEffects DEF EffectsOf, TypeOK
<1>2. CASE running \in Steps
  <2>1. running # Edge
    BY <1>2, NStepsAssumption DEF Steps, Edge
  <2> QED BY <1>2, <2>1, StepEffects DEF EffectsOf, TypeOK
<1> QED BY <1>1, <1>2 DEF TypeOK

LEMMA WrittenValue ==
  ASSUME TypeOK, Applying, ~Fails
  PROVE  /\ EffectsOf(running)[pos] \in Effect
         /\ ValueAt(pos) \in Value
<1>1. pos \in 1..Len(EffectsOf(running)) /\ EffectsOf(running)[pos] \in Effect
  BY AppliedEffects DEF Applying, TypeOK
<1>2. ValueAt(pos) # Fail
  BY <1>1 DEF Fails
<1>3. ValueAt(pos) \in Value \cup {Fail}
  BY <1>1 DEF ValueAt, Effect, TypeOK
<1> QED BY <1>1, <1>2, <1>3

LEMMA TriggersType == ASSUME model \in Models, NEW l \in Loc
                      PROVE  Triggers(l) = {f \in Steps : l \in Reads(M, f)}
BY DEF Triggers, TriggerTable, M
-----------------------------------------------------------------------------
LEMMA InitType == Init => TypeOK
<1> SUFFICES ASSUME Init PROVE TypeOK OBVIOUS
<1>1. M \in Model
  BY ModelFacts DEF Init
<1>2. M.init \in Store /\ M.firings \in Seq(FiringDef)
  BY <1>1 DEF Model
<1>3. Nobody # Edge
  BY NStepsAssumption DEF Nobody, Edge
<1> QED BY <1>2, <1>3 DEF Init, TypeOK, NoFiring, ZeroRuns, Outcomes

LEMMA NextType == TypeOK /\ [Next]_fpVars => TypeOK'
<1> SUFFICES ASSUME TypeOK, [Next]_fpVars PROVE TypeOK' OBVIOUS
<1> USE DEF TypeOK
<1>0. M \in Model /\ M.init \in Store /\ M.firings \in Seq(FiringDef) /\ Len(M.firings) \in Nat
  BY ModelFacts DEF Model
<1>1. Nobody # Edge /\ Nobody \notin Steps /\ Edge \notin Steps
  BY NStepsAssumption DEF Nobody, Edge, Steps
<1>2. ASSUME NEW w \in 1..Len(M.firings), Fire(w) PROVE TypeOK'
  <2>1. M' = M
    BY <1>2 DEF Fire, M
  <2>2. vars' \in Store
    BY <1>2, FiringEffects DEF Fire, Store, Loc
  <2> QED BY <1>0, <1>1, <1>2, <2>1, <2>2 DEF Fire, NoFiring, Outcomes
<1>3. CASE Reset
  <2>1. M' = M
    BY <1>3 DEF Reset, M
  <2> QED BY <1>0, <1>1, <1>3, <2>1 DEF Reset, Outcomes
<1>4. CASE StartFixpoint
  <2>1. M' = M
    BY <1>4 DEF StartFixpoint, M
  <2>2. worklist' \in SUBSET Steps
    <3>1. firing \in 1..Len(M.firings)
      BY <1>0, <1>4 DEF StartFixpoint, NoFiring
    <3>2. M.firings[firing].aut \in Loc
      BY <3>1, FiringEffects DEF Loc
    <3> QED BY <1>4, <3>2, TriggersType DEF StartFixpoint
  <2> QED BY <1>1, <1>4, <2>1, <2>2 DEF StartFixpoint
<1>5. ASSUME NEW f \in Steps, Pop(f) PROVE TypeOK'
  <2>1. M' = M
    BY <1>5 DEF Pop, M
  <2> QED BY <1>1, <1>5, <2>1 DEF Pop, CountRun, Converging
<1>6. ASSUME NEW f \in Steps, LoopDetected(f) \/ WorkExceeded(f) PROVE TypeOK'
  <2>1. M' = M
    BY <1>6 DEF LoopDetected, WorkExceeded, M
  <2>2. /\ phase' = "idle" /\ running' = Nobody
        /\ outcome' \in {"InstantaneousLoop", "FixpointWorkExceeded"}
        /\ iterations' = 0 /\ cycleRuns' = ZeroRuns
        /\ worklist' = {} /\ clean' = FALSE
    BY <1>6 DEF LoopDetected, WorkExceeded, ReturnError, ResetCounts
  <2>3. UNCHANGED <<model, vars, firing, pos, base, saved, forward, firings>>
    BY <1>6 DEF LoopDetected, WorkExceeded
  <2> QED BY <1>1, <2>1, <2>2, <2>3 DEF ZeroRuns, Outcomes
<1>7. CASE WriteEffect
  <2>1. M' = M
    BY <1>7 DEF WriteEffect, M
  <2>2. EffectsOf(running)[pos].target \in Loc /\ ValueAt(pos) \in Value
    BY <1>7, WrittenValue DEF WriteEffect, Effect, Loc
  <2>3. vars' \in Store
    BY <1>7, <2>2 DEF WriteEffect, Store
  <2>4. worklist' \in SUBSET Steps
    BY <1>7, <2>2, TriggersType DEF WriteEffect
  <2> QED BY <1>7, <2>1, <2>3, <2>4 DEF WriteEffect
<1>8. CASE EffectFails
  <2>1. M' = M
    BY <1>8 DEF EffectFails, M
  <2> QED BY <1>1, <1>8, <2>1 DEF EffectFails, ReturnError, ResetCounts, ZeroRuns, Outcomes
<1>9. CASE FinishStep
  <2>1. M' = M
    BY <1>9 DEF FinishStep, M
  <2> QED BY <1>1, <1>9, <2>1 DEF FinishStep
<1>10. CASE Converge
  <2>1. M' = M
    BY <1>10 DEF Converge, M
  <2> QED BY <1>1, <1>10, <2>1
          DEF Converge, PassEnds, Converging, ResetCounts, ZeroRuns, Outcomes
<1>11. CASE StartReverse
  <2>1. M' = M
    BY <1>11 DEF StartReverse, M
  <2> QED BY <1>1, <1>11, <2>1
          DEF StartReverse, PassEnds, Converging, ResetCounts, ZeroRuns, Outcomes
<1>12. CASE Compare
  <2>1. M' = M
    BY <1>12 DEF Compare, M
  <2> QED BY <1>1, <1>12, <2>1
          DEF Compare, PassEnds, Converging, ResetCounts, ZeroRuns, Outcomes
<1>13. CASE UNCHANGED fpVars
  <2>1. M' = M
    BY <1>13 DEF fpVars, M
  <2> QED BY <1>13, <2>1 DEF fpVars
<1> QED BY <1>2, <1>3, <1>4, <1>5, <1>6, <1>7, <1>8, <1>9, <1>10, <1>11, <1>12, <1>13 DEF Next

(* The state of every step of the loop is well typed.                       *)
THEOREM TypeCorrect == Spec => []TypeOK
BY InitType, NextType, PTL DEF Spec

LEMMA ModelFixed == [Next]_fpVars => M' = M
BY DEF Next, fpVars, M, Fire, Reset, StartFixpoint, Pop, LoopDetected, WorkExceeded, WriteEffect,
       EffectFails, FinishStep, Converge, StartReverse, Compare
-----------------------------------------------------------------------------
(* The inductive invariant behind SettledWhenIdle: an effect that does not  *)
(* hold belongs to a step that is pending, or whose turn has come and that  *)
(* has not reached it yet; likewise in the state the probe will rewind to.  *)
StepPending(f, k) ==
  \/ f \in worklist
  \/ running = f /\ pos <= k
  \/ phase = "edge" /\ M.firings[firing].aut \in Reads(M, f)

NowOrLater ==
  \A f \in Steps : \A k \in 1..Len(M.steps[f].effects) :
    SoleWriter(f, k) => Settled(vars, f, k) \/ StepPending(f, k)

SavedNowOrLater ==
  \A f \in Steps : \A k \in 1..Len(M.steps[f].effects) :
    SoleWriter(f, k) => Settled(saved.vars, f, k) \/ f \in saved.worklist

(* A program either still sees the state it solved on or is pending again.  *)
ProgramBase ==
  running \in Steps => running \in worklist \/ \A l \in Reads(M, running) : vars[l] = base[l]

Inv ==
  /\ TypeOK
  /\ ProgramBase
  /\ clean => /\ NowOrLater
              /\ phase = "idle" => worklist = {}
              /\ phase \in {"forward", "reverse"} => SavedNowOrLater

(* Writing one location keeps an effect settled unless the effect reads it. *)
LEMMA StaysSettled ==
  ASSUME model \in Models, NEW f \in Steps, NEW k \in 1..Len(M.steps[f].effects),
         NEW s \in Store, NEW t \in Store, NEW l \in Loc,
         \A x \in Loc : x # l => t[x] = s[x],
         M.steps[f].effects[k].target # l,
         Settled(s, f, k),
         t[l] = s[l] \/ l \notin Reads(M, f)
  PROVE  Settled(t, f, k)
<1> DEFINE e == M.steps[f].effects[k]
<1>1. e \in Effect /\ e.target \in Loc /\ e.reads \subseteq Loc
  BY StepEffects DEF Effect, Loc
<1>2. t[e.target] = s[e.target]
  BY <1>1
<1>3. e.reads \subseteq Reads(M, f)
  BY DEF Reads
<1>4. \A x \in e.reads : s[x] = t[x]
  BY <1>1, <1>3
<1>5. ReadsCoverValue(e)
  BY ModelFacts DEF ModelOK
<1>6. e.value[s] = e.value[t]
  BY <1>4, <1>5 DEF ReadsCoverValue
<1> QED BY <1>2, <1>6 DEF Settled

(* What a write changes, whoever makes it.                                  *)
LEMMA WriteFacts ==
  ASSUME TypeOK, WriteEffect
  PROVE  LET l   == EffectsOf(running)[pos].target
             new == ValueAt(pos)
         IN  /\ EffectsOf(running)[pos] \in Effect
             /\ new \in Value /\ l \in Attr /\ l \in Loc /\ EffectsOf(running)[pos].reads \subseteq Loc
             /\ pos' = pos + 1
             /\ UNCHANGED <<model, phase, firing, running, base>>
             /\ M' = M /\ vars' \in Store /\ vars'[l] = new /\ \A x \in Loc : x # l => vars'[x] = vars[x]
             /\ \A f \in Steps : l \in Reads(M, f) /\ new # vars[l] => f \in worklist'
             /\ worklist \subseteq worklist'
<1> DEFINE e   == EffectsOf(running)[pos]
           l   == e.target
           new == ValueAt(pos)
<1> USE DEF TypeOK
<1>1. e \in Effect /\ new \in Value /\ l \in Attr /\ l \in Loc /\ e.reads \subseteq Loc
  BY WrittenValue DEF WriteEffect, Effect, Loc
<1>2. /\ vars' = [vars EXCEPT ![l] = new] /\ pos' = pos + 1
      /\ worklist' = IF new # vars[l] THEN worklist \cup Triggers(l) ELSE worklist
      /\ UNCHANGED <<model, phase, firing, running, base>>
  BY DEF WriteEffect
<1>3. M' = M /\ vars' \in Store /\ vars'[l] = new /\ \A x \in Loc : x # l => vars'[x] = vars[x]
  BY <1>1, <1>2 DEF M, Store
<1>4. ASSUME NEW f \in Steps, l \in Reads(M, f), new # vars[l]
      PROVE  f \in worklist'
  BY <1>1, <1>2, <1>4, TriggersType
<1>5. worklist \subseteq worklist'
  BY <1>2
<1> QED BY <1>1, <1>2, <1>3, <1>4, <1>5

LEMMA WriteKeepsProgramBase ==
  ASSUME TypeOK, ProgramBase, WriteEffect
  PROVE  ProgramBase'
<1> DEFINE e   == EffectsOf(running)[pos]
           l   == e.target
           new == ValueAt(pos)
<1>1. e \in Effect /\ new \in Value /\ l \in Attr /\ l \in Loc /\ e.reads \subseteq Loc
  BY WriteFacts
<1>2. pos' = pos + 1 /\ UNCHANGED <<model, phase, firing, running, base>>
  BY WriteFacts
<1>3. M' = M /\ vars' \in Store /\ vars'[l] = new /\ \A x \in Loc : x # l => vars'[x] = vars[x]
  BY WriteFacts
<1>4. \A f \in Steps : l \in Reads(M, f) /\ new # vars[l] => f \in worklist'
  BY WriteFacts
<1>5. worklist \subseteq worklist'
  BY WriteFacts
<1> USE DEF TypeOK
<1>6. ProgramBase'
  <2> SUFFICES ASSUME running \in Steps, running \notin worklist'
               PROVE  \A x \in Reads(M, running) : vars'[x] = base[x]
    BY <1>2, <1>3 DEF ProgramBase, Reads
  <2>1. running \notin worklist /\ \A x \in Reads(M, running) : vars[x] = base[x]
    BY <1>5 DEF ProgramBase
  <2>2. l \notin Reads(M, running) \/ new = vars[l]
    BY <1>4
  <2>3. Reads(M, running) \subseteq Loc
    BY StepEffects DEF Reads, Effect
  <2> QED BY <1>3, <2>1, <2>2, <2>3
<1> QED BY <1>6

(* What a write does to the effect that writes, or to one it disturbs.      *)
LEMMA WriteKeepsNowOrLater ==
  ASSUME TypeOK, ProgramBase, NowOrLater, WriteEffect
  PROVE  NowOrLater'
<1> DEFINE e   == EffectsOf(running)[pos]
           l   == e.target
           new == ValueAt(pos)
<1>1. e \in Effect /\ new \in Value /\ l \in Attr /\ l \in Loc /\ e.reads \subseteq Loc
  BY WriteFacts
<1>2. pos' = pos + 1 /\ UNCHANGED <<model, phase, firing, running, base>>
  BY WriteFacts
<1>3. M' = M /\ vars' \in Store /\ vars'[l] = new /\ \A x \in Loc : x # l => vars'[x] = vars[x]
  BY WriteFacts
<1>4. \A f \in Steps : l \in Reads(M, f) /\ new # vars[l] => f \in worklist'
  BY WriteFacts
<1>5. worklist \subseteq worklist'
  BY WriteFacts
<1> USE DEF TypeOK
<1>7. ASSUME NEW f \in Steps, NEW k \in 1..Len(M.steps[f].effects), SoleWriter(f, k)
      PROVE  Settled(vars', f, k) \/ StepPending(f, k)'
  <2> DEFINE d == M.steps[f].effects[k]
  <2>1. d \in Effect
    BY StepEffects
  <2>2. CASE d.target = l
    <3>1. running \in Steps
      <4>1. SUFFICES ASSUME running = Edge PROVE FALSE
        BY DEF WriteEffect, Applying
      <4>2. firing \in 1..Len(M.firings) /\ pos \in 1..Len(M.firings[firing].effects)
        <5>1. M.firings \in Seq(FiringDef) /\ firing # NoFiring
          BY <4>1, ModelFacts DEF Model
        <5>2. pos \in 1..Len(EffectsOf(running))
          BY AppliedEffects DEF WriteEffect, Applying
        <5> QED BY <4>1, <5>1, <5>2 DEF NoFiring, EffectsOf
      <4>3. M.firings[firing].effects[pos].target # d.target
        BY <4>2, ModelFacts DEF ModelOK
      <4> QED BY <2>2, <4>1, <4>3 DEF EffectsOf
    <3>2. running # Edge /\ EffectsOf(running) = M.steps[running].effects
      BY <3>1, NStepsAssumption DEF Steps, Edge, EffectsOf
    <3>3. pos \in 1..Len(M.steps[running].effects)
      BY <3>2, AppliedEffects DEF WriteEffect, Applying
    <3>4. running = f /\ pos = k /\ e = d
      <4>1. M.steps[running].effects[pos].target = d.target
        BY <2>2, <3>2
      <4>2. running = f /\ pos = k
        BY <1>7, <3>1, <3>3, <4>1 DEF SoleWriter
      <4> QED BY <3>2, <4>2
    <3>5. SUFFICES ASSUME f \notin worklist' PROVE Settled(vars', f, k)
      BY DEF StepPending
    <3>6. d.reads \subseteq Reads(M, f)
      BY DEF Reads
    <3>7. l \in d.reads => new = vars[l]
      BY <1>4, <3>5, <3>6
    <3>8. \A x \in d.reads : vars'[x] = vars[x]
      BY <1>1, <1>3, <3>4, <3>7
    <3>9. \A x \in d.reads : vars[x] = base[x]
      BY <1>5, <3>4, <3>5, <3>6 DEF ProgramBase
    <3>10. ReadsCoverValue(d)
      BY ModelFacts DEF ModelOK
    <3>11. d.value[vars'] = new
      <4>1. d.value[vars'] = d.value[vars] /\ d.value[vars] = d.value[base]
        BY <1>3, <3>8, <3>9, <3>10 DEF ReadsCoverValue
      <4> QED BY <3>4, <4>1 DEF ValueAt
    <3> QED BY <1>3, <2>2, <3>11 DEF Settled
  <2>3. CASE d.target # l
    <3>1. CASE StepPending(f, k)
      <4>1. running = f => pos # k
        <5> SUFFICES ASSUME running = f, pos = k PROVE FALSE OBVIOUS
        <5>1. EffectsOf(running) = M.steps[f].effects
          BY NStepsAssumption DEF EffectsOf, Edge, Steps
        <5> QED BY <2>3, <5>1
      <4>2. Reads(M, f)' = Reads(M, f)
        BY <1>3 DEF Reads
      <4> QED BY <1>2, <1>3, <1>5, <3>1, <4>1, <4>2 DEF StepPending
    <3>2. CASE Settled(vars, f, k)
      <4>1. CASE vars'[l] = vars[l] \/ l \notin Reads(M, f)
        BY <1>1, <1>3, <2>3, <3>2, <4>1, StaysSettled
      <4>2. CASE vars'[l] # vars[l] /\ l \in Reads(M, f)
        BY <1>3, <1>4, <4>2 DEF StepPending
      <4> QED BY <4>1, <4>2
    <3> QED BY <1>7, <3>1, <3>2 DEF NowOrLater
  <2> QED BY <2>2, <2>3
<1>8. NowOrLater'
  <2>1. \A f \in Steps : \A k \in 1..Len(M.steps[f].effects) :
          SoleWriter(f, k) => Settled(vars', f, k) \/ StepPending(f, k)'
    BY <1>7
  <2> QED BY <1>3, <2>1 DEF NowOrLater, SoleWriter, Settled
<1> QED BY <1>8

(* Firing disturbs only what reads the automaton.                           *)
LEMMA FireKeepsNowOrLater ==
  ASSUME TypeOK, NowOrLater, phase = "idle", worklist = {},
         NEW w \in 1..Len(M.firings), Fire(w)
  PROVE  NowOrLater'
<1> DEFINE l == M.firings[w].aut
<1> USE DEF TypeOK
<1>1. l \in Aut /\ l \in Loc /\ M.firings[w].to \in Value
  BY FiringEffects DEF Loc
<1>2. M' = M /\ firing' = w /\ phase' = "edge" /\ model' = model
  BY DEF Fire, M
<1>3. vars' \in Store /\ \A x \in Loc : x # l => vars'[x] = vars[x]
  BY <1>1 DEF Fire, Store
<1>4. ASSUME NEW f \in Steps, NEW k \in 1..Len(M.steps[f].effects), SoleWriter(f, k)
      PROVE  Settled(vars', f, k) \/ l \in Reads(M, f)
  <2>1. running = Nobody
    OBVIOUS
  <2>2. running # f
    BY <2>1 DEF Nobody, Steps
  <2>3. Settled(vars, f, k)
    BY <1>4, <2>2 DEF NowOrLater, StepPending
  <2>4. M.steps[f].effects[k].target # l
    BY <1>1, StepEffects, LocAssumption DEF Effect
  <2> QED BY <1>1, <1>3, <2>3, <2>4, StaysSettled
<1>5. \A f \in Steps : Reads(M, f)' = Reads(M, f)
  BY <1>2 DEF Reads
<1> QED BY <1>2, <1>4, <1>5 DEF NowOrLater, StepPending, SoleWriter, Settled

THEOREM Invariant == Spec => []Inv
<1>1. Init => Inv
  <2> SUFFICES ASSUME Init PROVE Inv OBVIOUS
  <2>1. running = Nobody /\ Nobody \notin Steps
    BY DEF Init, Nobody, Steps
  <2>2. NowOrLater /\ SavedNowOrLater
    BY DEF Init, NowOrLater, SavedNowOrLater, StepPending
  <2>3. TypeOK
    BY InitType
  <2> QED BY <2>1, <2>2, <2>3 DEF Inv, ProgramBase, Init
<1>2. Inv /\ [Next]_fpVars => Inv'
  <2> SUFFICES ASSUME Inv, [Next]_fpVars PROVE Inv' OBVIOUS
  <2>0. TypeOK /\ TypeOK'
    BY NextType DEF Inv
  <2>1. Nobody # Edge /\ Nobody \notin Steps /\ Edge \notin Steps
    BY NStepsAssumption DEF Nobody, Edge, Steps
  <2>2. M' = M
    BY ModelFixed
  <2>3. /\ \A f \in Steps : Reads(M, f)' = Reads(M, f)
        /\ \A f \in Steps : \A k \in 1..Len(M.steps[f].effects) :
             SoleWriter(f, k)' = SoleWriter(f, k)
    BY <2>2 DEF Reads, SoleWriter
  <2>4. ASSUME NEW w \in 1..Len(M.firings), Fire(w) PROVE Inv'
    <3>1. ProgramBase'
      BY <2>1, <2>4 DEF Fire, ProgramBase
    <3>2. clean' => NowOrLater'
      BY <2>0, <2>4, FireKeepsNowOrLater DEF Fire, Inv
    <3> QED BY <2>0, <2>4, <3>1, <3>2 DEF Fire, Inv
  <2>5. CASE Reset
    <3>1. ProgramBase'
      BY <2>0, <2>1, <2>5 DEF Reset, ProgramBase, TypeOK
    <3>2. NowOrLater' /\ SavedNowOrLater'
      BY <2>2, <2>5 DEF Reset, NowOrLater, SavedNowOrLater, StepPending
    <3> QED BY <2>0, <2>5, <3>1, <3>2 DEF Reset, Inv
  <2>6. CASE StartFixpoint
    <3>1. ProgramBase'
      BY <2>1, <2>6 DEF StartFixpoint, ProgramBase
    <3>2. \A f \in Steps : M.firings[firing].aut \in Reads(M, f) => f \in worklist'
      <4>1. firing \in 1..Len(M.firings)
        BY <2>0, <2>6, ModelFacts DEF StartFixpoint, TypeOK, NoFiring, Model
      <4>2. M.firings[firing].aut \in Loc
        BY <2>0, <4>1, FiringEffects DEF Loc, TypeOK
      <4> QED BY <2>0, <2>6, <4>2, TriggersType DEF StartFixpoint, TypeOK
    <3>3. ASSUME clean PROVE NowOrLater' /\ SavedNowOrLater'
      <4>1. NowOrLater
        BY <3>3 DEF Inv
      <4>2. \A f \in Steps : running # f
        BY <2>0, <2>1, <2>6 DEF StartFixpoint, TypeOK
      <4>3. \A f \in Steps : \A k \in 1..Len(M.steps[f].effects) :
              SoleWriter(f, k) => Settled(vars, f, k) \/ f \in worklist'
        BY <2>6, <3>2, <4>1, <4>2 DEF NowOrLater, StepPending, StartFixpoint
      <4> QED BY <2>2, <2>3, <2>6, <4>3
              DEF NowOrLater, SavedNowOrLater, StepPending, StartFixpoint, Settled
    <3> QED BY <2>0, <2>6, <3>1, <3>3 DEF StartFixpoint, Inv
  <2>7. ASSUME NEW f \in Steps, Pop(f) PROVE Inv'
    <3>1. ProgramBase'
      BY <2>2, <2>7 DEF Pop, ProgramBase, Reads
    <3>2. ASSUME clean PROVE NowOrLater' /\ SavedNowOrLater'
      <4>1. NowOrLater /\ SavedNowOrLater
        BY <2>7, <3>2 DEF Inv, Pop, Converging
      <4>2. SavedNowOrLater'
        BY <2>2, <2>3, <2>7, <4>1 DEF SavedNowOrLater, Pop, Settled
      <4>3. NowOrLater'
        BY <2>1, <2>2, <2>3, <2>7, <4>1
           DEF NowOrLater, StepPending, Pop, Converging, Settled
      <4> QED BY <4>2, <4>3
    <3> QED BY <2>0, <2>7, <3>1, <3>2 DEF Pop, Converging, Inv
  <2>8. ASSUME NEW f \in Steps, LoopDetected(f) \/ WorkExceeded(f) PROVE Inv'
    <3>1. running' = Nobody /\ clean' = FALSE
      BY <2>8 DEF LoopDetected, WorkExceeded, ReturnError
    <3> QED BY <2>0, <2>1, <3>1 DEF Inv, ProgramBase
  <2>9. CASE WriteEffect
    <3>1. ProgramBase' /\ (NowOrLater => NowOrLater')
      BY <2>0, <2>9, WriteKeepsNowOrLater, WriteKeepsProgramBase DEF Inv
    <3>2. phase # "idle"
      BY <2>0, <2>9 DEF WriteEffect, Applying, TypeOK
    <3>3. UNCHANGED <<phase, clean, saved>>
      BY <2>9 DEF WriteEffect
    <3>4. SavedNowOrLater => SavedNowOrLater'
      BY <2>2, <2>3, <3>3 DEF SavedNowOrLater, Settled
    <3> QED BY <2>0, <3>1, <3>2, <3>3, <3>4 DEF Inv
  <2>10. CASE EffectFails
    <3>1. running' = Nobody /\ clean' = FALSE
      BY <2>10 DEF EffectFails, ReturnError
    <3> QED BY <2>0, <2>1, <3>1 DEF Inv, ProgramBase
  <2>11. CASE FinishStep
    <3>1. ProgramBase'
      BY <2>1, <2>11 DEF FinishStep, ProgramBase
    <3>2. \A f \in Steps : \A k \in 1..Len(M.steps[f].effects) : running = f => ~(pos <= k)
      <4>1. ASSUME NEW f \in Steps, NEW k \in 1..Len(M.steps[f].effects), running = f
            PROVE  ~(pos <= k)
        <5>1. EffectsOf(running) = M.steps[f].effects /\ Len(M.steps[f].effects) \in Nat
          BY <2>0, <2>1, <4>1, StepEffects DEF EffectsOf, TypeOK
        <5> QED BY <2>0, <2>11, <5>1 DEF FinishStep, TypeOK
      <4> QED BY <4>1
    <3>3. NowOrLater => NowOrLater'
      BY <2>1, <2>2, <2>3, <2>11, <3>2 DEF FinishStep, NowOrLater, StepPending, Settled
    <3>4. SavedNowOrLater => SavedNowOrLater'
      BY <2>2, <2>3, <2>11 DEF FinishStep, SavedNowOrLater, Settled
    <3> QED BY <2>0, <2>1, <2>11, <3>1, <3>3, <3>4 DEF FinishStep, Inv, TypeOK
  <2>12. CASE Converge \/ Compare
    <3>1. PassEnds /\ phase' = "idle" /\ UNCHANGED <<model, vars, worklist, firing, running, pos, base, clean>>
      BY <2>12 DEF Converge, Compare
    <3>2. ProgramBase'
      BY <2>1, <3>1 DEF ProgramBase, PassEnds, Converging
    <3>3. NowOrLater => NowOrLater'
      BY <2>2, <2>3, <3>1 DEF NowOrLater, StepPending, PassEnds, Converging, Settled
    <3> QED BY <2>0, <3>1, <3>2, <3>3 DEF Inv, PassEnds
  <2>13. CASE StartReverse
    <3>1. /\ vars' = saved.vars /\ worklist' = saved.worklist /\ phase = "forward"
          /\ phase' = "reverse" /\ running' = Nobody /\ UNCHANGED <<saved, clean>>
      BY <2>13 DEF StartReverse, PassEnds, Converging
    <3>2. ProgramBase'
      BY <2>1, <3>1 DEF ProgramBase
    <3>3. SavedNowOrLater => NowOrLater' /\ SavedNowOrLater'
      BY <2>2, <2>3, <3>1 DEF NowOrLater, SavedNowOrLater, StepPending, Settled
    <3> QED BY <2>0, <3>1, <3>2, <3>3 DEF Inv
  <2>14. CASE UNCHANGED fpVars
    <3>1. /\ ProgramBase' = ProgramBase /\ NowOrLater' = NowOrLater
          /\ SavedNowOrLater' = SavedNowOrLater
      BY <2>14 DEF fpVars, ProgramBase, NowOrLater, SavedNowOrLater, StepPending, Settled,
                   SoleWriter, Reads, M
    <3> QED BY <2>0, <2>14, <3>1 DEF fpVars, Inv
  <2> QED BY <2>4, <2>5, <2>6, <2>7, <2>8, <2>9, <2>10, <2>11, <2>12, <2>13, <2>14 DEF Next
<1> QED BY <1>1, <1>2, PTL DEF Spec

(* A fixpoint that returns without an error leaves every function and       *)
(* program consistent with what it reads.                                   *)
THEOREM SettledTheorem == Spec => []SettledWhenIdle
<1>1. Inv => SettledWhenIdle
  <2> SUFFICES ASSUME Inv, phase = "idle", clean, NEW f \in Steps,
                      NEW k \in 1..Len(M.steps[f].effects), SoleWriter(f, k)
               PROVE  Settled(vars, f, k)
    BY DEF SettledWhenIdle, SettledOutside
  <2>1. NowOrLater /\ worklist = {} /\ running = Nobody
    BY DEF Inv, TypeOK
  <2>2. running # f
    BY <2>1 DEF Nobody, Steps
  <2> QED BY <2>1, <2>2 DEF NowOrLater, StepPending
<1> QED BY <1>1, Invariant, PTL
-----------------------------------------------------------------------------
(* Behind FailuresLeaveNothing.  A program has either published nothing, and *)
(* the state is the one it solved on, or its whole solution evaluates there. *)
WholeSolution ==
  running \in Steps /\ IsProgram(running) =>
    /\ pos = 1 => vars = base
    /\ pos > 1 => \A k \in 1..Len(EffectsOf(running)) : ValueAt(k) # Fail

LEMMA WholeStep == TypeOK /\ WholeSolution /\ [Next]_fpVars => WholeSolution'
<1> SUFFICES ASSUME TypeOK, WholeSolution, [Next]_fpVars PROVE WholeSolution' OBVIOUS
<1>1. Nobody \notin Steps /\ Edge \notin Steps
  BY NStepsAssumption DEF Nobody, Edge, Steps
<1>2. M' = M
  BY ModelFixed
<1>3. CASE running' \notin Steps
  BY <1>3 DEF WholeSolution
<1>4. ASSUME NEW f \in Steps, Pop(f) PROVE WholeSolution'
  BY <1>4 DEF Pop, WholeSolution
<1>5. CASE WriteEffect
  <2> SUFFICES ASSUME running \in Steps, IsProgram(running)' PROVE WholeSolution'
    BY <1>5 DEF WholeSolution, WriteEffect
  <2>1. UNCHANGED <<model, firing, running, base>> /\ pos' = pos + 1 /\ ~Fails /\ pos \in Nat \ {0}
    BY <1>5 DEF WriteEffect, TypeOK
  <2>2. IsProgram(running) /\ EffectsOf(running)' = EffectsOf(running)
    BY <1>2, <2>1 DEF IsProgram, EffectsOf
  <2>3. \A k \in 1..Len(EffectsOf(running)) : ValueAt(k) # Fail
    BY <2>1, <2>2 DEF Fails
  <2>4. \A k : ValueAt(k)' = ValueAt(k)
    BY <2>1, <2>2 DEF ValueAt, IsProgram
  <2> QED BY <2>1, <2>2, <2>3, <2>4 DEF WholeSolution
<1>6. CASE UNCHANGED <<model, vars, firing, running, pos, base>>
  BY <1>2, <1>6 DEF WholeSolution, IsProgram, EffectsOf, ValueAt
<1>7. CASE Next
  <2>1. ASSUME NEW w \in 1..Len(M.firings), Fire(w) PROVE WholeSolution'
    BY <1>1, <1>3, <2>1 DEF Fire
  <2>2. CASE Reset
    BY <1>1, <1>3, <2>2 DEF Reset, TypeOK
  <2>3. ASSUME NEW f \in Steps, LoopDetected(f) \/ WorkExceeded(f) PROVE WholeSolution'
    BY <1>1, <1>3, <2>3 DEF LoopDetected, WorkExceeded, ReturnError
  <2>4. CASE StartFixpoint \/ EffectFails \/ FinishStep
    BY <1>1, <1>3, <2>4 DEF StartFixpoint, EffectFails, FinishStep, ReturnError
  <2>5. CASE Converge \/ StartReverse \/ Compare
    BY <1>1, <1>3, <2>5 DEF Converge, StartReverse, Compare, PassEnds, Converging
  <2> QED BY <1>4, <1>5, <1>7, <2>1, <2>2, <2>3, <2>4, <2>5 DEF Next
<1> QED BY <1>6, <1>7 DEF fpVars

(* Counts and steps popped start again together.                            *)
LEMMA OwnRunsStep == TypeOK /\ OwnRunsOnly /\ [Next]_fpVars => OwnRunsOnly'
<1> SUFFICES ASSUME TypeOK, OwnRunsOnly, [Next]_fpVars PROVE OwnRunsOnly' OBVIOUS
<1>1. CASE ResetCounts
  BY <1>1 DEF ResetCounts, ZeroRuns, OwnRunsOnly
<1>2. CASE UNCHANGED <<iterations, cycleRuns>>
  BY <1>2 DEF OwnRunsOnly
<1>3. ASSUME NEW f \in Steps, Pop(f) PROVE OwnRunsOnly'
  <2>1. iterations' = iterations + 1 /\ cycleRuns' = CountRun(f)
    BY <1>3 DEF Pop
  <2>2. iterations \in Nat /\ cycleRuns \in [Steps -> Nat]
    BY DEF TypeOK
  <2>3. \A g \in Steps : cycleRuns'[g] <= cycleRuns[g] + 1
    BY <2>1, <2>2 DEF CountRun
  <2>4. \A g \in Steps : cycleRuns[g] <= iterations /\ cycleRuns[g] \in Nat
    BY <2>2 DEF OwnRunsOnly
  <2>5. cycleRuns' \in [Steps -> Nat]
    BY <2>1, <2>2 DEF CountRun
  <2> QED BY <2>1, <2>2, <2>3, <2>4, <2>5 DEF OwnRunsOnly
<1>4. CASE Next
  <2>1. ASSUME NEW w \in 1..Len(M.firings), Fire(w) PROVE OwnRunsOnly'
    BY <1>2, <2>1 DEF Fire
  <2>2. CASE Reset \/ StartFixpoint \/ WriteEffect \/ FinishStep
    BY <1>2, <2>2 DEF Reset, StartFixpoint, WriteEffect, FinishStep
  <2>3. ASSUME NEW f \in Steps, LoopDetected(f) \/ WorkExceeded(f) PROVE OwnRunsOnly'
    BY <1>1, <2>3 DEF LoopDetected, WorkExceeded, ReturnError
  <2>4. CASE EffectFails \/ Converge \/ StartReverse \/ Compare
    BY <1>1, <2>4 DEF EffectFails, ReturnError, Converge, StartReverse, Compare
  <2> QED BY <1>3, <1>4, <2>1, <2>2, <2>3, <2>4 DEF Next
<1> QED BY <1>2, <1>4 DEF fpVars

(* What fails leaves nothing behind: a program that does not solve leaves   *)
(* the state it was given, and no run is charged to a later fixpoint.       *)
THEOREM FailuresTheorem == Spec => FailuresLeaveNothing
<1>1. Init => TypeOK /\ WholeSolution /\ OwnRunsOnly
  <2>1. Nobody \notin Steps
    BY DEF Nobody, Steps
  <2>2. Init => WholeSolution /\ OwnRunsOnly
    BY <2>1 DEF Init, WholeSolution, OwnRunsOnly, ZeroRuns
  <2> QED BY <2>2, InitType
<1>2. TypeOK /\ WholeSolution /\ OwnRunsOnly /\ [Next]_fpVars
        => (TypeOK /\ WholeSolution /\ OwnRunsOnly)'
  BY NextType, WholeStep, OwnRunsStep
<1>3. TypeOK /\ WholeSolution /\ [Next]_fpVars =>
        [(running \in Steps /\ IsProgram(running) /\ outcome = "None"
            /\ outcome' = "EffectFailed") => vars' = base]_fpVars
  <2> SUFFICES ASSUME TypeOK, WholeSolution, Next, running \in Steps, IsProgram(running),
                      outcome = "None", outcome' = "EffectFailed"
               PROVE  vars' = base
    OBVIOUS
  <2>1. EffectFails
    <3>1. ASSUME NEW w \in 1..Len(M.firings), Fire(w) PROVE FALSE
      BY <3>1 DEF Fire
    <3>2. ~(Reset \/ StartFixpoint \/ WriteEffect \/ FinishStep)
      BY DEF Reset, StartFixpoint, WriteEffect, FinishStep
    <3>3. ASSUME NEW f \in Steps, Pop(f) \/ LoopDetected(f) \/ WorkExceeded(f) PROVE FALSE
      BY <3>3 DEF Pop, LoopDetected, WorkExceeded, ReturnError
    <3>4. ~(Converge \/ StartReverse \/ Compare)
      BY DEF Converge, StartReverse, Compare
    <3> QED BY <3>1, <3>2, <3>3, <3>4 DEF Next
  <2>2. \E k \in 1..Len(EffectsOf(running)) : ValueAt(k) = Fail
    BY <2>1 DEF EffectFails, Fails
  <2>3. pos = 1
    BY <2>2 DEF WholeSolution, TypeOK
  <2> QED BY <2>1, <2>3 DEF EffectFails, WholeSolution
<1>4. Spec => []OwnRunsOnly
  BY <1>1, <1>2, PTL DEF Spec
<1>5. Spec => ProgramAllOrNothing
  BY <1>1, <1>2, <1>3, PTL DEF Spec, ProgramAllOrNothing
<1> QED BY <1>4, <1>5 DEF FailuresLeaveNothing
-----------------------------------------------------------------------------
(* Behind ProbeBlamesOrder: equations without a cycle have one solution.    *)
(* What a step leads to, as CycleTable defines it.                          *)
ClosedAfter(f, C) ==
  /\ Successors(M, f) \subseteq C
  /\ \A g \in C : Successors(M, g) \subseteq C

Ahead(f) == {g \in Steps : \A C \in SUBSET Steps : ClosedAfter(f, C) => g \in C}

Written == {l \in Loc : \E f \in Steps : l \in Writes(M, f)}

AllSettled(s) ==
  \A f \in Steps : \A k \in 1..Len(M.steps[f].effects) : Settled(s, f, k)

(* A step leads to less than the steps it follows.                          *)
LEMMA AheadShrinks ==
  ASSUME model \in Models, Acyclic, NEW f \in Steps, NEW g \in Steps, f \in Successors(M, g)
  PROVE  Ahead(f) \subseteq Ahead(g) /\ f \in Ahead(g) /\ f \notin Ahead(f)
<1>1. ASSUME NEW C \in SUBSET Steps, ClosedAfter(g, C) PROVE f \in C /\ ClosedAfter(f, C)
  BY <1>1 DEF ClosedAfter
<1>2. f \notin CycleTable[model]
  BY DEF Acyclic, OnCycle
<1>3. \E C \in SUBSET Steps : ClosedAfter(f, C) /\ f \notin C
  BY <1>2 DEF CycleTable, ClosedAfter, M
<1> QED BY <1>1, <1>3 DEF Ahead

(* Two stores in which every effect holds agree everywhere once they agree  *)
(* on what no step writes: a step that tells them apart follows another.    *)
LEMMA OneSolution ==
  ASSUME model \in Models, Acyclic, NEW s \in Store, NEW t \in Store,
         AllSettled(s), AllSettled(t), \A l \in Loc \ Written : s[l] = t[l]
  PROVE  s = t
<1> DEFINE Apart == {f \in Steps : \E l \in Writes(M, f) : s[l] # t[l]}
           Rest  == {Steps \ Ahead(f) : f \in Apart}
<1>1. ASSUME NEW f \in Apart
      PROVE  \E g \in Apart : f \in Successors(M, g)
  <2>1. PICK k \in 1..Len(M.steps[f].effects) :
          s[M.steps[f].effects[k].target] # t[M.steps[f].effects[k].target]
    BY DEF Writes
  <2> DEFINE e == M.steps[f].effects[k]
  <2>2. e \in Effect /\ ReadsCoverValue(e) /\ e.reads \subseteq Loc
    BY StepEffects, ModelFacts DEF ModelOK, Effect
  <2>3. e.value[s] = s[e.target] /\ e.value[t] = t[e.target]
    BY DEF AllSettled, Settled
  <2>4. PICK l \in e.reads : s[l] # t[l]
    BY <2>1, <2>2, <2>3 DEF ReadsCoverValue
  <2>5. PICK g \in Steps : l \in Writes(M, g)
    BY <2>2, <2>4 DEF Written
  <2>6. l \in Reads(M, f)
    BY <2>4 DEF Reads
  <2> QED BY <2>4, <2>5, <2>6 DEF Successors
<1>2. Apart = {}
  <2> SUFFICES ASSUME Apart # {} PROVE FALSE OBVIOUS
  <2>1. IsFiniteSet(Steps)
    BY NStepsAssumption, FS_Interval DEF Steps
  <2>2. IsWellFoundedOn(StrictSubsetOrdering(Steps), SUBSET Steps)
    BY <2>1, FS_StrictSubsetOrderingWellFounded, FS_FiniteSubsetsOfFinite
  <2>3. Rest \subseteq SUBSET Steps /\ Rest # {}
    OBVIOUS
  <2>4. PICK X \in Rest : \A Y \in Rest : <<Y, X>> \notin StrictSubsetOrdering(Steps)
    BY <2>2, <2>3, WFMin
  <2>5. PICK f \in Apart : X = Steps \ Ahead(f)
    OBVIOUS
  <2>6. PICK g \in Apart : f \in Successors(M, g)
    BY <1>1
  <2> DEFINE Y == Steps \ Ahead(g)
  <2>7. Y \subseteq X /\ Y # X /\ X \subseteq Steps
    <3>1. f \in Steps /\ g \in Steps
      OBVIOUS
    <3>2. Ahead(f) \subseteq Ahead(g) /\ f \in Ahead(g) /\ f \notin Ahead(f)
      BY <2>6, <3>1, AheadShrinks
    <3> QED BY <2>5, <3>1, <3>2
  <2>8. <<Y, X>> \in StrictSubsetOrdering(Steps)
    BY <2>7 DEF StrictSubsetOrdering
  <2>9. Y \in Rest
    OBVIOUS
  <2> QED BY <2>4, <2>8, <2>9
<1>3. \A l \in Loc : s[l] = t[l]
  BY <1>2 DEF Written
<1> QED BY <1>3 DEF Store

(* What no step writes keeps, in both passes, the value the probe started   *)
(* from, and the result of the first pass is a solution.                    *)
ProbeInv ==
  /\ phase \in {"forward", "reverse"} => \A l \in Loc \ Written : vars[l] = saved.vars[l]
  /\ phase = "reverse" => /\ \A l \in Loc \ Written : forward[l] = saved.vars[l]
                          /\ clean /\ SoleWriters => AllSettled(forward)
  /\ ProbeBlamesOrder

(* Nothing depends on the state in what the property calls the culprits.    *)
LEMMA StaticFacts ==
  [Next]_fpVars => /\ model' = model /\ M' = M /\ Written' = Written
                   /\ SoleWriters' = SoleWriters /\ Acyclic' = Acyclic
<1> SUFFICES ASSUME [Next]_fpVars
             PROVE  /\ model' = model /\ M' = M /\ Written' = Written
                    /\ SoleWriters' = SoleWriters /\ Acyclic' = Acyclic
  OBVIOUS
<1>1. M' = M
  BY ModelFixed
<1>2. model' = model
  BY DEF Next, fpVars, Fire, Reset, StartFixpoint, Pop, LoopDetected, WorkExceeded, WriteEffect,
         EffectFails, FinishStep, Converge, StartReverse, Compare
<1> QED BY <1>1, <1>2 DEF Written, Writes, SoleWriters, SoleWriter, Acyclic, OnCycle

(* At the end of a pass nothing is pending, so everything holds.            *)
LEMMA PassSettles == Inv /\ clean /\ SoleWriters /\ PassEnds => AllSettled(vars)
<1> SUFFICES ASSUME Inv, clean, SoleWriters, PassEnds,
                    NEW f \in Steps, NEW k \in 1..Len(M.steps[f].effects)
             PROVE  Settled(vars, f, k)
  BY DEF AllSettled
<1>1. NowOrLater /\ SoleWriter(f, k)
  BY DEF Inv, SoleWriters
<1>2. ~StepPending(f, k)
  BY DEF StepPending, PassEnds, Converging, Nobody, Steps
<1> QED BY <1>1, <1>2 DEF NowOrLater

LEMMA ProbeStep == Inv /\ ProbeInv /\ [Next]_fpVars => ProbeInv'
<1> SUFFICES ASSUME Inv, ProbeInv, [Next]_fpVars PROVE ProbeInv' OBVIOUS
<1>0. /\ model' = model /\ M' = M /\ Written' = Written
      /\ SoleWriters' = SoleWriters /\ Acyclic' = Acyclic /\ TypeOK
  BY StaticFacts DEF Inv
<1>1. \A u : AllSettled(u)' = AllSettled(u)
  BY <1>0 DEF AllSettled, Settled
<1>2. CASE UNCHANGED <<phase, vars, saved, forward, clean, outcome>>
  BY <1>0, <1>1, <1>2 DEF ProbeInv, ProbeBlamesOrder, AllSettled, Settled
<1>3. ASSUME phase' \in {"edge", "idle"}, outcome' # "NonConfluent" PROVE ProbeInv'
  BY <1>3 DEF ProbeInv, ProbeBlamesOrder
<1>4. ASSUME phase' = "forward", vars' = saved'.vars, outcome' # "NonConfluent" PROVE ProbeInv'
  BY <1>4 DEF ProbeInv, ProbeBlamesOrder
<1>5. CASE Next
  <2>1. ASSUME NEW w \in 1..Len(M.firings), Fire(w) PROVE ProbeInv'
    BY <1>3, <2>1 DEF Fire
  <2>2. CASE Reset
    BY <1>4, <2>2 DEF Reset
  <2>3. CASE StartFixpoint
    <3>1. vars' = saved'.vars /\ phase' = "forward" /\ UNCHANGED <<clean, outcome>>
      BY <2>3 DEF StartFixpoint
    <3> QED BY <1>0, <3>1 DEF ProbeInv, ProbeBlamesOrder
  <2>4. ASSUME NEW f \in Steps, Pop(f) PROVE ProbeInv'
    BY <1>2, <2>4 DEF Pop
  <2>5. ASSUME NEW f \in Steps, LoopDetected(f) \/ WorkExceeded(f) PROVE ProbeInv'
    BY <1>3, <2>5 DEF LoopDetected, WorkExceeded, ReturnError
  <2>6. CASE WriteEffect
    <3>1. UNCHANGED <<phase, saved, forward, clean, outcome>>
      BY <2>6 DEF WriteEffect
    <3>2. ASSUME phase \in {"forward", "reverse"}, NEW l \in Loc \ Written
          PROVE  vars'[l] = vars[l]
      <4>1. running \in Steps /\ running # Edge
        BY <1>0, <2>6, <3>2 DEF TypeOK, WriteEffect, Applying
      <4>2. pos \in 1..Len(M.steps[running].effects) /\ EffectsOf(running) = M.steps[running].effects
        BY <1>0, <2>6, <4>1, StepEffects DEF WriteEffect, Applying, EffectsOf, TypeOK
      <4>3. EffectsOf(running)[pos].target \in Writes(M, running)
        BY <4>2 DEF Writes
      <4>4. EffectsOf(running)[pos].target # l
        BY <3>2, <4>1, <4>3 DEF Written
      <4> QED BY <1>0, <2>6, <3>2, <4>4, WriteFacts
    <3> QED BY <1>0, <1>1, <3>1, <3>2 DEF ProbeInv, ProbeBlamesOrder, AllSettled, Settled
  <2>7. CASE EffectFails
    BY <1>3, <2>7 DEF EffectFails, ReturnError
  <2>8. CASE FinishStep
    BY <1>2, <2>8 DEF FinishStep
  <2>9. CASE Converge
    BY <1>3, <2>9 DEF Converge
  <2>10. CASE StartReverse
    <3>1. /\ phase = "forward" /\ phase' = "reverse" /\ PassEnds
          /\ forward' = vars /\ vars' = saved.vars /\ UNCHANGED <<saved, clean, outcome>>
      BY <2>10 DEF StartReverse
    <3>2. clean /\ SoleWriters => AllSettled(vars)
      BY <3>1, PassSettles
    <3>3. clean' /\ SoleWriters' => AllSettled(forward)'
      BY <1>0, <3>1, <3>2 DEF AllSettled, Settled
    <3> QED BY <1>0, <3>1, <3>3 DEF ProbeInv, ProbeBlamesOrder
  <2>11. CASE Compare
    <3>1. /\ phase = "reverse" /\ phase' = "idle" /\ PassEnds /\ clean' = clean
          /\ outcome' = IF forward = vars THEN "Stable" ELSE "NonConfluent"
      BY <2>11 DEF Compare
    <3>2. ASSUME clean, SoleWriters, Acyclic PROVE forward = vars
      <4>1. AllSettled(forward) /\ AllSettled(vars)
        BY <3>1, <3>2, PassSettles DEF ProbeInv
      <4>2. forward \in Store /\ vars \in Store /\ model \in Models
        BY <1>0 DEF TypeOK
      <4>3. \A l \in Loc \ Written : forward[l] = vars[l]
        BY <3>1 DEF ProbeInv
      <4> QED BY <3>2, <4>1, <4>2, <4>3, OneSolution
    <3> QED BY <1>0, <3>1, <3>2 DEF ProbeInv, ProbeBlamesOrder
  <2> QED BY <1>5, <2>1, <2>2, <2>3, <2>4, <2>5, <2>6, <2>7, <2>8, <2>9, <2>10, <2>11 DEF Next
<1> QED BY <1>2, <1>5 DEF fpVars

(* The probe accuses a model only when an attribute has two writers or      *)
(* steps read in a circle, whatever the steps, their number and the caps.   *)
THEOREM ProbeTheorem == Spec => []ProbeBlamesOrder
<1>1. Init => ProbeInv
  BY DEF Init, ProbeInv, ProbeBlamesOrder
<1>2. ProbeInv => ProbeBlamesOrder
  BY DEF ProbeInv
<1>3. Spec => [][Next]_fpVars /\ Init
  BY DEF Spec
<1> QED BY <1>1, <1>2, <1>3, Invariant, ProbeStep, PTL
=============================================================================
