---------------------------- MODULE CoSimProofs ----------------------------
(***************************************************************************)
(* Proofs about CoSim, for every model, every number of units, their steps *)
(* and whatever their native code computes: grids never drift and no unit  *)
(* is integrated over inputs it was not to hold; the schedule stays on     *)
(* time and agrees with the state although units write that state.  Then   *)
(* about Exported, for every unit and every importer: its checkpoints are  *)
(* held, each once; what is taken back is whole; and the calls of a host   *)
(* are never out of place.                                                 *)
(***************************************************************************)
EXTENDS CoSim, SchedulerProofs, Exported, SequenceTheorems, FiniteSetTheorems,
        NaturalsInduction, WellFoundedInduction

-----------------------------------------------------------------------------
(* The inductive invariant.                                                *)

UnitState == [last : Nat, grid : Nat, extra : Nat \cup {None}, native : Value,
              sampled : UNION {[L -> Value] : L \in SUBSET Loc}]

HostTypeOK ==
  /\ units \in [Units -> UnitState]
  /\ \A u \in Units : units[u].sampled \in [U(u).inputs -> Value]
  /\ phase \in {"idle", "point", "reacting"}
  /\ left = [u \in Units |-> left[u]]

(* While a run goes on, a unit is between two points of its grid, or at the *)
(* second, and what it owes beside the grid it owes now.                   *)
OnGrid(u) ==
  /\ units[u].grid * U(u).step <= units[u].last
  /\ units[u].last <= time /\ time <= Regular(u)
  /\ units[u].extra # None => /\ units[u].extra = time
                              /\ units[u].last < time /\ time < Regular(u)

(* Once a point is over nothing is due at its instant any more, which is   *)
(* why what was sampled there is what the inputs are when the clock leaves. *)
JustSampled(u) ==
  phase = "idle" /\ 0 < units[u].last /\ units[u].last = time
    => NothingWithin(time) /\ units[u].sampled = Inputs(u, store)

(* A unit of variable step sees the present inputs or is due now.          *)
CurrentOrDue(u) ==
  U(u).variable /\ 0 < units[u].last /\ units[u].last < time
    => units[u].sampled = Inputs(u, store) \/ units[u].extra = time \/ Regular(u) = time

CInv ==
  /\ Inv
  /\ HostTypeOK
  /\ phase = "point" => status = "running" /\ NothingWithin(time)
  /\ status = "running" => \A u \in Units : OnGrid(u) /\ JustSampled(u) /\ CurrentOrDue(u)
  /\ HeldFromPoint

-----------------------------------------------------------------------------
(* Types and arithmetic of the host.                                       *)

LEMMA UnitFacts ==
  ASSUME model \in Models, NEW u \in Units
  PROVE  /\ U(u).step \in Nat \ {0} /\ U(u).inputs \subseteq Loc /\ U(u).start \in Value
         /\ U(u).react \in [Value \X [U(u).inputs -> Value] -> Value]
BY CoSimAssumption DEF IsUnit, U

LEMMA InputsType ==
  ASSUME model \in Models, NEW u \in Units, NEW s \in Store
  PROVE  /\ Inputs(u, s) \in [U(u).inputs -> Value]
         /\ Inputs(u, s) \in UNION {[L -> Value] : L \in SUBSET Loc}
<1>1. U(u).inputs \subseteq Loc
  BY UnitFacts
<1>2. Inputs(u, s) \in [U(u).inputs -> Value]
  BY <1>1 DEF Inputs, Store
<1> QED BY <1>1, <1>2

LEMMA GridArithmetic ==
  ASSUME NEW g \in Nat, NEW h \in Nat
  PROVE  /\ g * h \in Nat /\ (g + 1) * h \in Nat
         /\ (g + 1) * h = g * h + h /\ (g + 1 + 1) * h = (g + 1) * h + h
BY SMT

LEMMA RegularType ==
  ASSUME model \in Models, HostTypeOK, NEW u \in Units
  PROVE  /\ Regular(u) \in Nat /\ units[u].grid * U(u).step \in Nat
         /\ units[u] \in UnitState /\ units[u].last \in Nat /\ units[u].grid \in Nat
         /\ units[u].extra \in Nat \cup {None}
<1>1. units[u] \in UnitState /\ units[u].grid \in Nat /\ U(u).step \in Nat
  BY UnitFacts DEF HostTypeOK, UnitState
<1> QED BY <1>1, GridArithmetic DEF Regular, UnitState

LEMMA MarkedUnit ==
  ASSUME model \in Models, HostTypeOK, NEW u \in Units, NEW b, NEW a, NEW now \in Nat
  PROVE  LET m == Marked(b, a, now)[u]
         IN  /\ m \in UnitState
             /\ m.last = units[u].last /\ m.grid = units[u].grid
             /\ m.native = units[u].native /\ m.sampled = units[u].sampled
             /\ m.extra = IF /\ units[u].last < now /\ now < Regular(u) /\ U(u).variable
                             /\ Inputs(u, b) # Inputs(u, a)
                          THEN now ELSE units[u].extra
<1> DEFINE marks == /\ units[u].last < now /\ now < Regular(u) /\ U(u).variable
                    /\ Inputs(u, b) # Inputs(u, a)
           with  == [units[u] EXCEPT !.extra = now]
<1>1. units[u] \in UnitState
  BY DEF HostTypeOK
<1>2. Marked(b, a, now)[u] = IF marks THEN with ELSE units[u]
  BY DEF Marked
<1>3. /\ with \in UnitState /\ with.extra = now
      /\ with.last = units[u].last /\ with.grid = units[u].grid
      /\ with.native = units[u].native /\ with.sampled = units[u].sampled
  BY <1>1 DEF UnitState
<1> HIDE DEF marks, with
<1>4. QED BY <1>1, <1>2, <1>3 DEF marks

(* No point is passed when the clock moves up to the next one.             *)
LEMMA NothingOwed ==
  ASSUME model \in Models, HostTypeOK, NEW u \in Units, OnGrid(u), time \in Nat,
         NEW now \in Nat, time < now, now <= PointOf(u)
  PROVE  units[u].extra = None /\ now <= Regular(u) /\ time < Regular(u)
<1>1. units[u].extra = None
  BY RegularType DEF OnGrid, PointOf
<1>2. Regular(u) \in Nat /\ now <= Regular(u)
  BY <1>1, RegularType DEF PointOf
<1> QED BY <1>1, <1>2

(* What is read of a unit depends on the model, which never changes.       *)
LEMMA SameUnits ==
  ASSUME model' = model, NEW u \in Units
  PROVE  /\ U(u)' = U(u) /\ Regular(u)' = (units'[u].grid + 1) * U(u).step
         /\ Inputs(u, store)' = Inputs(u, store')
BY DEF U, Regular, Inputs

-----------------------------------------------------------------------------
(* The units, by action.                                                   *)

UnitsKept ==
  /\ HostTypeOK'
  /\ \A u \in Units : (OnGrid(u) /\ JustSampled(u) /\ CurrentOrDue(u))'
  /\ HeldFromPoint'

(* A firing marks what it changed, and leaves the points to come where they *)
(* are; at the instant of a point that is over there is none.              *)
LEMMA FiringKeepsUnits ==
  ASSUME CInv, status = "running", model' = model, phase' = phase, Marking, Leaving,
         NEW now \in Nat, time' = now, time <= now,
         time < now => \A u \in Units : now <= PointOf(u),
         IF phase = "idle" THEN time = now => ~NothingWithin(time) ELSE time = now
  PROVE  UnitsKept
<1>1. model \in Models /\ HostTypeOK /\ time \in Nat
  BY SchedulerAssumption DEF CInv, Inv, TypeOK
<1>2. units' = Marked(store, store', now)
  BY DEF Marking
<1>3. ASSUME NEW u \in Units
      PROVE  /\ units'[u] \in UnitState
             /\ units'[u].last = units[u].last /\ units'[u].grid = units[u].grid
             /\ units'[u].sampled = units[u].sampled
             /\ units'[u].extra =
                  IF /\ units[u].last < now /\ now < Regular(u) /\ U(u).variable
                     /\ Inputs(u, store) # Inputs(u, store')
                  THEN now ELSE units[u].extra
             /\ Regular(u)' = Regular(u) /\ U(u)' = U(u)
             /\ Inputs(u, store)' = Inputs(u, store')
  <2>1. Regular(u)' = Regular(u) /\ U(u)' = U(u) /\ Inputs(u, store)' = Inputs(u, store')
    BY <1>1, <1>2, MarkedUnit, SameUnits DEF Regular
  <2> QED BY <1>1, <1>2, <2>1, MarkedUnit
<1>4. left' = [u \in Units |-> IF units[u].last = time /\ time < now THEN Inputs(u, store) ELSE left[u]]
  BY DEF Leaving
<1>5. HostTypeOK'
  <2>1. units' \in [Units -> UnitState]
    BY <1>2, <1>3 DEF Marked
  <2>2. \A u \in Units : units'[u].sampled \in [U(u)'.inputs -> Value]
    BY <1>1, <1>3 DEF HostTypeOK
  <2> QED BY <1>1, <1>4, <2>1, <2>2 DEF HostTypeOK
<1>6. ASSUME NEW u \in Units
      PROVE  (OnGrid(u) /\ JustSampled(u) /\ CurrentOrDue(u))'
  <2>1. OnGrid(u) /\ JustSampled(u) /\ CurrentOrDue(u)
    BY DEF CInv
  <2>2. /\ Regular(u) \in Nat /\ units[u].last \in Nat /\ units[u].grid * U(u).step \in Nat
        /\ units[u].extra \in Nat \cup {None}
    BY <1>1, RegularType
  <2>3. time < now => units[u].extra = None /\ now <= Regular(u) /\ time < Regular(u)
    BY <1>1, <2>1, NothingOwed
  <2>4. OnGrid(u)'
    <3>1. units[u].grid * U(u).step <= units[u].last /\ units[u].last <= now /\ now <= Regular(u)
      BY <1>1, <2>1, <2>2, <2>3 DEF OnGrid
    <3>2. units'[u].extra # None => units'[u].extra = now /\ units[u].last < now /\ now < Regular(u)
      BY <1>1, <1>3, <2>1, <2>2, <2>3 DEF OnGrid
    <3> QED BY <1>3, <3>1, <3>2 DEF OnGrid
  <2>5. JustSampled(u)'
    <3>1. ~(phase = "idle" /\ 0 < units[u].last /\ units[u].last = now)
      BY <1>1, <2>1, <2>2 DEF OnGrid, JustSampled
    <3> QED BY <1>3, <3>1 DEF JustSampled
  <2>6. CurrentOrDue(u)'
    <3> SUFFICES ASSUME U(u).variable, 0 < units[u].last, units[u].last < now
                 PROVE  units'[u].sampled = Inputs(u, store') \/ units'[u].extra = now \/ Regular(u) = now
      BY <1>3 DEF CurrentOrDue
    <3>1. units[u].sampled = Inputs(u, store) \/ units[u].extra = now \/ Regular(u) = now
      <4>1. CASE time = now
        BY <2>1, <4>1 DEF CurrentOrDue
      <4>2. CASE time < now
        <5>1. units[u].last <= time
          BY <2>1 DEF OnGrid
        <5>2. CASE units[u].last = time
          BY <1>1, <2>1, <2>3, <4>2, <5>2 DEF JustSampled, CInv, CurrentOrDue
        <5>3. CASE units[u].last < time
          BY <1>1, <2>1, <2>2, <2>3, <4>2, <5>3, SchedulerAssumption DEF CurrentOrDue
        <5> QED BY <1>1, <2>2, <5>1, <5>2, <5>3
      <4> QED BY <1>1, <4>1, <4>2
    <3>2. CASE Inputs(u, store) = Inputs(u, store')
      BY <1>3, <3>1, <3>2
    <3>3. CASE Inputs(u, store) # Inputs(u, store')
      BY <1>1, <1>3, <2>1, <2>2, <2>3, <3>3 DEF OnGrid
    <3> QED BY <3>2, <3>3
  <2> QED BY <2>4, <2>5, <2>6
<1>7. HeldFromPoint'
  <2> SUFFICES ASSUME NEW u \in Units, 0 < units[u].last, units[u].last < now
               PROVE  units[u].sampled = left'[u]
    BY <1>3 DEF HeldFromPoint
  <2>1. OnGrid(u) /\ JustSampled(u) /\ units[u].last \in Nat
    BY <1>1, RegularType DEF CInv
  <2>2. CASE units[u].last < time
    BY <1>1, <1>4, <2>1, <2>2 DEF CInv, HeldFromPoint
  <2>3. CASE units[u].last = time
    BY <1>4, <2>1, <2>3 DEF JustSampled, CInv
  <2> QED BY <1>1, <2>1, <2>2, <2>3 DEF OnGrid
<1> QED BY <1>5, <1>6, <1>7 DEF UnitsKept

LEMMA PointType ==
  ASSUME CInv, NEW u \in Units
  PROVE  PointOf(u) \in Nat
BY RegularType DEF PointOf, CInv, Inv, TypeOK

LEMMA WatchedKeeps ==
  ASSUME CInv, NEW t \in Trans, CStepWatched(t)
  PROVE  CInv'
<1>1. /\ status = "running" /\ phase = "idle" /\ phase' = "idle" /\ FireWatched(t) /\ t \in Immediate
      /\ model' = model /\ time' = time /\ Marking /\ Leaving
  BY DEF CStepWatched, CMayStep, FireWatched, WatchedFiring
<1>2. Inv' /\ time \in Nat
  BY <1>1, WatchedInv, SchedulerAssumption DEF CInv, Inv, TypeOK
<1>3. ~NothingWithin(time)
  BY <1>1 DEF NothingWithin
<1>4. UnitsKept
  BY <1>1, <1>2, <1>3, FiringKeepsUnits
<1> QED BY <1>1, <1>2, <1>4 DEF CInv, UnitsKept

LEMMA DatedKeeps ==
  ASSUME CInv, NEW t \in Trans, CStepDated(t)
  PROVE  CInv'
<1>1. /\ status = "running" /\ phase = "idle" /\ phase' = "idle" /\ FireDated(t, TMax) /\ IsNext(t)
      /\ model' = model /\ time' = Later(slots[t].date, time) /\ Marking /\ Leaving
      /\ ~ \E u \in Units : PointOf(u) < slots[t].date
  BY DEF CStepDated, CMayStep, FireDated
<1>2. Inv' /\ time \in Nat /\ time' \in Nat
  BY <1>1, DatedInv, SchedulerAssumption DEF CInv, Inv, TypeOK
<1>3. slots[t].date \in Int /\ slots[t].date >= time /\ time' = slots[t].date
  BY <1>1, <1>2 DEF CInv, Inv, Timely, IsNext, Scheduled, TypeOK, Slot, Later
<1>4. \A u \in Units : time' <= PointOf(u)
  BY <1>1, <1>3, PointType
<1>5. time = time' => ~NothingWithin(time)
  BY <1>1, <1>2, <1>3 DEF NothingWithin, IsNext
<1> DEFINE now == time'
<1>6. now \in Nat /\ time' = now /\ time <= now /\ \A u \in Units : now <= PointOf(u)
  BY <1>2, <1>3, <1>4
<1>7. time = now => ~NothingWithin(time)
  BY <1>5
<1> HIDE DEF now
<1>8. UnitsKept
  BY <1>1, <1>6, <1>7, FiringKeepsUnits
<1> QED BY <1>1, <1>2, <1>8 DEF CInv, UnitsKept

(* A reaction is a firing at the instant of the point.                     *)
LEMMA ReactKeeps ==
  ASSUME CInv, NEW t \in Trans, React(t)
  PROVE  CInv'
<1>1. /\ status = "running" /\ phase = "reacting" /\ phase' = "reacting"
      /\ FireWatched(t) \/ (DueNow(t) /\ Fire(t, time) /\ UNCHANGED <<model, time, streak>>)
      /\ model' = model /\ time' = time /\ Marking /\ left' = left
  BY DEF React, FireWatched, WatchedFiring
<1>2. time \in Nat /\ time \in 0..TMax
  BY SchedulerAssumption DEF CInv, Inv, TypeOK
<1>3. Leaving
  BY <1>1, <1>2 DEF Leaving, CInv, HostTypeOK
<1>4. UnitsKept
  BY <1>1, <1>2, <1>3, FiringKeepsUnits
<1>5. Inv'
  <2>1. CASE FireWatched(t)
    BY <1>1, <2>1, WatchedInv DEF CInv
  <2>2. CASE Fire(t, time) /\ UNCHANGED <<model, time, streak>>
    <3>1. \A u \in Trans \ {t} : slots[u].date # None => time <= slots[u].date
      BY <1>1, <1>2 DEF CInv, Inv, Timely, TypeOK, Slot
    <3>2. /\ store' \in Store /\ slots' \in [Trans -> Slot] /\ wave' \in Nat
          /\ firings' \in [Trans -> [count : Nat, first : Nat]]
          /\ seqEnd' \in [cause : Nat, at : 0..TMax] \cup {None}
          /\ status' \in {"running", "TransitionChattering"}
          /\ status' = "running" =>
               \A u \in Trans : /\ Sound(u, slots'[u]) /\ Timely(slots'[u], time)
                                /\ Fits(u, store', slots'[u])
      BY <1>1, <1>2, <2>2, <3>1, FirePreserves DEF CInv
    <3>3. TypeOK'
      BY <1>1, <2>2, <3>2 DEF CInv, Inv, TypeOK, Statuses
    <3> QED BY <1>1, <2>2, <3>2, <3>3, Reread DEF CInv, Inv, Timely, HazardDate
  <2> QED BY <1>1, <2>1, <2>2
<1> QED BY <1>1, <1>4, <1>5 DEF CInv, UnitsKept

-----------------------------------------------------------------------------
(* The clock at a point, and at the end.                                   *)

LEMMA BeginKeeps ==
  ASSUME CInv, NEW v \in Units, BeginPoint(v)
  PROVE  CInv'
<1> DEFINE now == PointOf(v)
<1>1. /\ status = "running" /\ phase = "idle" /\ phase' = "point" /\ Immediate = {}
      /\ now <= TMax /\ time' = now /\ streak' = [at |-> now, count |-> 0] /\ Leaving
      /\ \A t \in Scheduled : slots[t].date > now
      /\ UNCHANGED <<model, store, slots, wave, firings, seqEnd, status, units>>
  BY DEF BeginPoint, CMayStep
<1>2. \A u \in Units : now <= PointOf(u)
  BY DEF BeginPoint, IsNextPoint
<1>3. time \in 0..TMax /\ time \in Nat /\ now \in Nat /\ model \in Models /\ HostTypeOK
  BY PointType, SchedulerAssumption DEF CInv, Inv, TypeOK
<1>4. time <= now
  BY <1>1, <1>3, RegularType DEF CInv, OnGrid, PointOf
<1> HIDE DEF now
<1>5. Inv'
  <2>1. now \in 0..TMax
    BY <1>1, <1>3, SchedulerAssumption
  <2>2. TypeOK'
    BY <1>1, <2>1, SchedulerAssumption DEF CInv, Inv, TypeOK
  <2>3. ASSUME NEW t \in Trans PROVE Timely(slots[t], now)
    <3>1. Timely(slots[t], time) /\ slots[t] \in Slot
      BY <1>1 DEF CInv, Inv, TypeOK
    <3>2. slots[t].hazard # None => slots[t].hazard.since \in Nat
      BY <3>1 DEF Slot, Hazard
    <3>3. slots[t].date # None => slots[t].date \in Int /\ slots[t].date > now
      BY <1>1, <3>1 DEF Scheduled, Slot
    <3> QED BY <1>3, <1>4, <3>1, <3>2, <3>3 DEF Timely
  <2>4. \A t \in Trans : Timely(slots[t], time)'
    BY <1>1, <2>3 DEF Timely, HazardDate
  <2>5. streak'.count <= WatchedLimit
    BY <1>1, SchedulerAssumption
  <2>6. \A t \in Trans : Sound(t, slots[t])' /\ Fits(t, store, slots[t])'
    BY <1>1, Reread DEF CInv, Inv
  <2> QED BY <1>1, <2>2, <2>4, <2>5, <2>6 DEF Inv
<1>6. NothingWithin(time)'
  BY <1>1 DEF NothingWithin, Immediate, Scheduled, Watched, InSource, Enabled, T
<1>7. HostTypeOK'
  BY <1>1, SameUnits DEF CInv, HostTypeOK, Leaving
<1>8. ASSUME NEW u \in Units PROVE (OnGrid(u) /\ JustSampled(u) /\ CurrentOrDue(u))'
  <2>1. /\ Regular(u) \in Nat /\ units[u].last \in Nat /\ units[u].grid * U(u).step \in Nat
        /\ units[u].extra \in Nat \cup {None} /\ OnGrid(u) /\ JustSampled(u) /\ CurrentOrDue(u)
    BY <1>1, <1>3, RegularType DEF CInv
  <2>2. Regular(u)' = Regular(u) /\ U(u)' = U(u) /\ Inputs(u, store)' = Inputs(u, store)
    BY <1>1, SameUnits DEF Regular
  <2>3. time < now => units[u].extra = None /\ now <= Regular(u) /\ time < Regular(u)
    BY <1>2, <1>3, <2>1, NothingOwed
  <2>4. OnGrid(u)'
    BY <1>1, <1>3, <1>4, <2>1, <2>2, <2>3 DEF OnGrid
  <2>5. JustSampled(u)'
    BY <1>1 DEF JustSampled
  <2>6. CurrentOrDue(u)'
    <3> SUFFICES ASSUME U(u).variable, 0 < units[u].last, units[u].last < now
                 PROVE  units[u].sampled = Inputs(u, store) \/ units[u].extra = now \/ Regular(u) = now
      BY <1>1, <2>2 DEF CurrentOrDue
    <3>1. CASE units[u].last = time
      BY <1>1, <2>1, <3>1 DEF JustSampled
    <3>2. CASE units[u].last < time
      BY <1>3, <1>4, <2>1, <2>3, <3>2, SchedulerAssumption DEF CurrentOrDue
    <3> QED BY <1>3, <2>1, <3>1, <3>2 DEF OnGrid
  <2> QED BY <2>4, <2>5, <2>6
<1>9. HeldFromPoint'
  <2> SUFFICES ASSUME NEW u \in Units, 0 < units[u].last, units[u].last < now
               PROVE  units[u].sampled = left'[u]
    BY <1>1 DEF HeldFromPoint
  <2>1. OnGrid(u) /\ JustSampled(u) /\ units[u].last \in Nat
    BY <1>1, <1>3, RegularType DEF CInv
  <2>2. left'[u] = IF units[u].last = time /\ time < now THEN Inputs(u, store) ELSE left[u]
    BY <1>1 DEF Leaving
  <2>3. CASE units[u].last < time
    BY <1>3, <2>1, <2>2, <2>3 DEF CInv, HeldFromPoint
  <2>4. CASE units[u].last = time
    BY <1>1, <2>1, <2>2, <2>4 DEF JustSampled
  <2> QED BY <1>3, <2>1, <2>3, <2>4 DEF OnGrid
<1> QED BY <1>1, <1>5, <1>6, <1>7, <1>8, <1>9 DEF CInv

-----------------------------------------------------------------------------
(* The units due step, and what they write re-plans the schedule.          *)

LEMMA AdvancedUnit ==
  ASSUME model \in Models, HostTypeOK, time \in Nat, NEW u \in Units
  PROVE  LET a == Advanced(u)
         IN  /\ a \in UnitState
             /\ a.last = time /\ a.extra = None /\ a.sampled = units[u].sampled
             /\ a.grid = IF Regular(u) = time THEN units[u].grid + 1 ELSE units[u].grid
<1> DEFINE n == U(u).react[<<units[u].native, units[u].sampled>>]
           g == IF Regular(u) = time THEN units[u].grid + 1 ELSE units[u].grid
           a == Advanced(u)
<1>1. units[u] \in UnitState /\ units[u].grid \in Nat /\ g \in Nat
  BY RegularType
<1>2. n \in Value
  <2>1. units[u].native \in Value /\ units[u].sampled \in [U(u).inputs -> Value]
    BY <1>1 DEF HostTypeOK, UnitState
  <2> QED BY <2>1, UnitFacts
<1>3. a = [units[u] EXCEPT !.native = n, !.last = time, !.extra = None, !.grid = g]
  BY <1>1 DEF Advanced, UnitState
<1> HIDE DEF n, g, a
<1>4. /\ a \in UnitState /\ a.last = time /\ a.extra = None
      /\ a.sampled = units[u].sampled /\ a.grid = g
  BY <1>1, <1>2, <1>3 DEF UnitState
<1> QED BY <1>4 DEF a, g

LEMMA PublishedType ==
  ASSUME NEW us, NEW due \in SUBSET Units, NEW s \in Store,
         \A u \in due : us[u].native \in Value
  PROVE  Published(us, due, s) \in Store
<1>1. ASSUME NEW l \in Loc
      PROVE  LET from == {u \in due : l \in U(u).outputs}
             IN  (IF from = {} THEN s[l] ELSE us[CHOOSE u \in from : TRUE].native) \in Value
  BY <1>1 DEF Store
<1> QED BY <1>1 DEF Published, Store

LEMMA StepDueKeeps ==
  ASSUME CInv, StepDue
  PROVE  CInv'
<1> DEFINE due  == {u \in Units : Due(u)}
           stepped == [u \in Units |-> IF u \in due THEN Advanced(u) ELSE units[u]]
<1>1. /\ phase = "point" /\ phase' = "reacting" /\ status = "running" /\ status' = status
      /\ model' = model /\ time' = time /\ left' = left
      /\ UNCHANGED <<wave, streak, firings, seqEnd>>
      /\ store' = Published(stepped, due, store)
      /\ units' = [u \in Units |->
                     IF u \in due THEN stepped[u] ELSE Marked(store, store', time)[u]]
  BY DEF StepDue, CInv
<1>2. PICK d \in Draws : slots' = RefreshSchedule(slots, store', time, wave, d)
  BY DEF StepDue
<1>3. /\ model \in Models /\ HostTypeOK /\ time \in Nat /\ time \in 0..TMax /\ TypeOK
      /\ time \in 0..Never
  BY BeforeNever, SchedulerAssumption DEF CInv, Inv, TypeOK
<1>4. \A u \in due : stepped[u] = Advanced(u)
  OBVIOUS
<1>5. store' \in Store
  <2>1. \A u \in due : stepped[u].native \in Value
    BY <1>3, <1>4, AdvancedUnit DEF UnitState
  <2>2. due \in SUBSET Units /\ store \in Store
    BY <1>3 DEF TypeOK
  <2> HIDE DEF due, stepped
  <2> QED BY <1>1, <2>1, <2>2, PublishedType
<1>6. ASSUME NEW u \in Units
      PROVE  /\ Regular(u) \in Nat /\ units[u].last \in Nat /\ units[u].grid \in Nat
             /\ units[u].grid * U(u).step \in Nat /\ units[u].extra \in Nat \cup {None}
             /\ OnGrid(u) /\ CurrentOrDue(u)
             /\ Regular(u)' = (units'[u].grid + 1) * U(u).step /\ U(u)' = U(u)
             /\ Inputs(u, store)' = Inputs(u, store')
  BY <1>1, <1>3, RegularType, SameUnits DEF CInv
<1>7. ASSUME NEW u \in Units, Due(u)
      PROVE  /\ units'[u] \in UnitState /\ units'[u].last = time /\ units'[u].extra = None
             /\ units'[u].sampled = units[u].sampled
             /\ units'[u].grid = IF Regular(u) = time THEN units[u].grid + 1 ELSE units[u].grid
  <2>1. units'[u] = Advanced(u)
    BY <1>1, <1>4, <1>7
  <2> QED BY <1>3, <2>1, AdvancedUnit
<1>8. ASSUME NEW u \in Units, ~Due(u)
      PROVE  /\ units'[u] \in UnitState
             /\ units'[u].last = units[u].last /\ units'[u].grid = units[u].grid
             /\ units'[u].sampled = units[u].sampled
             /\ units'[u].extra =
                  IF /\ units[u].last < time /\ time < Regular(u) /\ U(u).variable
                     /\ Inputs(u, store) # Inputs(u, store')
                  THEN time ELSE units[u].extra
             /\ Regular(u)' = Regular(u)
  <2>1. units'[u] = Marked(store, store', time)[u]
    BY <1>1, <1>8
  <2>2. units'[u].grid = units[u].grid
    BY <1>3, <2>1, MarkedUnit
  <2> QED BY <1>3, <1>6, <2>1, <2>2, MarkedUnit DEF Regular
<1> HIDE DEF due, stepped
<1>9. Inv'
  <2>1. /\ slots \in [Trans -> Slot] /\ wave \in Nat
        /\ \A u \in Trans : Sound(u, slots[u]) /\ Timely(slots[u], time)
    BY <1>1, <1>3 DEF CInv, Inv, TypeOK
  <2>2. /\ slots' \in [Trans -> Slot]
        /\ \A u \in Trans : /\ Sound(u, slots'[u]) /\ Timely(slots'[u], time)
                            /\ Fits(u, store', slots'[u])
    BY <1>2, <1>3, <1>5, <2>1, RefreshedSchedule
  <2>3. TypeOK'
    BY <1>1, <1>3, <1>5, <2>2 DEF TypeOK
  <2> QED BY <1>1, <2>2, <2>3, Reread DEF CInv, Inv, Timely, HazardDate
<1>10. HostTypeOK'
  <2>1. \A u \in Units : units'[u] \in UnitState /\ units'[u].sampled = units[u].sampled
    BY <1>7, <1>8
  <2>2. units' \in [Units -> UnitState]
    BY <1>1, <2>1
  <2>3. \A u \in Units : units'[u].sampled \in [U(u)'.inputs -> Value]
    BY <1>3, <1>6, <2>1 DEF HostTypeOK
  <2> QED BY <1>1, <1>3, <2>2, <2>3 DEF HostTypeOK
<1>11. ASSUME NEW u \in Units PROVE (OnGrid(u) /\ JustSampled(u) /\ CurrentOrDue(u))'
  <2>1. OnGrid(u)'
    <3>1. CASE Due(u) /\ Regular(u) = time
      <4>1. /\ (units[u].grid + 1) * U(u).step = time
            /\ (units[u].grid + 1 + 1) * U(u).step = time + U(u).step
            /\ U(u).step \in Nat
        BY <1>3, <1>6, <3>1, UnitFacts, GridArithmetic DEF Regular
      <4>2. units'[u].grid * U(u).step = time /\ Regular(u)' = time + U(u).step
        BY <1>6, <1>7, <3>1, <4>1
      <4>3. Regular(u)' >= time
        BY <1>3, <4>1, <4>2
      <4> QED BY <1>1, <1>3, <1>7, <3>1, <4>2, <4>3, SameUnits DEF OnGrid
    <3>2. CASE Due(u) /\ Regular(u) # time
      <4>1. Regular(u)' = Regular(u)
        BY <1>6, <1>7, <3>2 DEF Regular
      <4> QED BY <1>1, <1>3, <1>6, <1>7, <3>2, <4>1 DEF OnGrid
    <3>3. CASE ~Due(u)
      BY <1>1, <1>3, <1>6, <1>8, <3>3 DEF OnGrid
    <3> QED BY <3>1, <3>2, <3>3
  <2>2. JustSampled(u)'
    BY <1>1 DEF JustSampled
  <2>3. CurrentOrDue(u)'
    <3>1. CASE Due(u)
      BY <1>1, <1>3, <1>7, <3>1 DEF CurrentOrDue
    <3>2. CASE ~Due(u)
      <4> SUFFICES ASSUME U(u).variable, 0 < units[u].last, units[u].last < time
                   PROVE  units'[u].sampled = Inputs(u, store') \/ units'[u].extra = time
        BY <1>1, <1>6, <1>8, <3>2 DEF CurrentOrDue
      <4>1. units[u].extra # time /\ Regular(u) # time
        BY <3>2 DEF Due
      <4>2. units[u].sampled = Inputs(u, store)
        BY <1>6, <4>1 DEF CurrentOrDue
      <4>3. time < Regular(u)
        BY <1>3, <1>6, <4>1 DEF OnGrid
      <4> QED BY <1>8, <3>2, <4>2, <4>3
    <3> QED BY <3>1, <3>2
  <2> QED BY <2>1, <2>2, <2>3
<1>12. HeldFromPoint'
  BY <1>1, <1>3, <1>7, <1>8 DEF HeldFromPoint, CInv
<1> QED BY <1>1, <1>9, <1>10, <1>11, <1>12 DEF CInv

(* The reactions are over when nothing is due, which the point then knows. *)
LEMMA ReactionsEndKeeps ==
  ASSUME CInv, ReactionsEnd
  PROVE  CInv'
<1>1. /\ status = "running" /\ NothingWithin(time) /\ phase' = "point"
      /\ UNCHANGED <<vars, units, left>>
  BY DEF ReactionsEnd
<1>2. UNCHANGED <<model, store, time, slots, wave, streak, firings, seqEnd, status>>
  BY <1>1 DEF vars
<1>3. Inv'
  BY <1>2, Reread DEF CInv, Inv, TypeOK, Timely, HazardDate
<1>4. NothingWithin(time)'
  BY <1>1, <1>2 DEF NothingWithin, Immediate, Scheduled, Watched, InSource, Enabled, T
<1>5. HostTypeOK' /\ HeldFromPoint'
  BY <1>1, <1>2, SameUnits DEF CInv, HostTypeOK, HeldFromPoint
<1>6. ASSUME NEW u \in Units PROVE (OnGrid(u) /\ JustSampled(u) /\ CurrentOrDue(u))'
  <2>1. OnGrid(u) /\ CurrentOrDue(u)
    BY <1>1 DEF CInv
  <2>2. Regular(u)' = Regular(u) /\ U(u)' = U(u) /\ Inputs(u, store)' = Inputs(u, store)
    BY <1>1, <1>2, SameUnits DEF Regular
  <2> QED BY <1>1, <1>2, <2>1, <2>2 DEF OnGrid, JustSampled, CurrentOrDue
<1> QED BY <1>1, <1>2, <1>3, <1>4, <1>5, <1>6 DEF CInv

-----------------------------------------------------------------------------
(* The end of a point and of the run, and the start.                       *)

LEMMA EndPointKeeps ==
  ASSUME CInv, EndPoint
  PROVE  CInv'
<1>1. /\ phase = "point" /\ phase' = "idle" /\ status = "running" /\ NothingWithin(time)
      /\ ~PointWithin(time) /\ units' = Sampled(units, store, time)
      /\ seqEnd' \in Latched(store, time, seqEnd)
      /\ UNCHANGED <<model, store, time, slots, wave, streak, firings, status, left>>
  BY DEF EndPoint, CInv
<1>2. /\ model \in Models /\ HostTypeOK /\ time \in Nat /\ time \in 0..TMax /\ TypeOK
      /\ store \in Store
  BY SchedulerAssumption DEF CInv, Inv, TypeOK
<1>3. ASSUME NEW u \in Units
      PROVE  /\ units'[u] = IF units[u].last = time
                            THEN [units[u] EXCEPT !.sampled = Inputs(u, store)] ELSE units[u]
             /\ units'[u] \in UnitState
             /\ units'[u].last = units[u].last /\ units'[u].grid = units[u].grid
             /\ units'[u].extra = units[u].extra
             /\ units'[u].sampled = IF units[u].last = time
                                    THEN Inputs(u, store) ELSE units[u].sampled
  <2>1. units'[u] = IF units[u].last = time
                    THEN [units[u] EXCEPT !.sampled = Inputs(u, store)] ELSE units[u]
    BY <1>1 DEF Sampled
  <2>2. units[u] \in UnitState
    BY <1>2, RegularType
  <2>3. Inputs(u, store) \in UNION {[L -> Value] : L \in SUBSET Loc}
    BY <1>2, InputsType
  <2> QED BY <2>1, <2>2, <2>3 DEF UnitState
<1>4. ASSUME NEW u \in Units
      PROVE  /\ Regular(u)' = Regular(u) /\ U(u)' = U(u)
             /\ Inputs(u, store)' = Inputs(u, store)
  BY <1>1, <1>3, SameUnits DEF Regular
<1>5. TypeOK' /\ Inv'
  <2>1. seqEnd' \in [cause : Nat, at : 0..TMax] \cup {None}
    BY <1>1, <1>2, LatchedType DEF TypeOK
  <2>2. TypeOK'
    BY <1>1, <1>2, <2>1 DEF TypeOK
  <2> QED BY <1>1, <2>2, Reread DEF CInv, Inv, Timely, HazardDate
<1>6. HostTypeOK'
  <2>1. units' \in [Units -> UnitState]
    BY <1>1, <1>3 DEF Sampled
  <2>2. ASSUME NEW u \in Units PROVE units'[u].sampled \in [U(u)'.inputs -> Value]
    <3>1. Inputs(u, store) \in [U(u).inputs -> Value] /\ units[u].sampled \in [U(u).inputs -> Value]
      BY <1>2, InputsType DEF HostTypeOK
    <3> QED BY <1>3, <1>4, <3>1
  <2> QED BY <1>1, <1>2, <2>1, <2>2 DEF HostTypeOK
<1>7. NothingWithin(time)'
  BY <1>1 DEF NothingWithin, Immediate, Scheduled, Watched, InSource, Enabled, T
<1>8. ASSUME NEW u \in Units PROVE (OnGrid(u) /\ JustSampled(u) /\ CurrentOrDue(u))'
  <2>1. OnGrid(u) /\ CurrentOrDue(u) /\ PointOf(u) \in Nat /\ Regular(u) \in Nat
    BY <1>1, <1>2, PointType, RegularType DEF CInv
  <2>2. units[u].extra # time /\ Regular(u) # time
    <3>1. ~(PointOf(u) <= time)
      BY <1>1 DEF PointWithin
    <3>2. units[u].extra = None
      BY <1>2, <2>1, <3>1 DEF OnGrid, PointOf
    <3> QED BY <1>2, <2>1, <3>1, <3>2, SchedulerAssumption DEF PointOf
  <2>3. OnGrid(u)'
    BY <1>1, <1>3, <1>4, <2>1 DEF OnGrid
  <2>4. JustSampled(u)'
    BY <1>1, <1>3, <1>4, <1>7 DEF JustSampled
  <2>5. CurrentOrDue(u)'
    BY <1>1, <1>2, <1>3, <1>4, <2>1, <2>2 DEF CurrentOrDue
  <2> QED BY <2>3, <2>4, <2>5
<1>9. HeldFromPoint'
  <2> SUFFICES ASSUME NEW u \in Units, 0 < units[u].last, units[u].last < time
               PROVE  units'[u].sampled = left[u]
    BY <1>1, <1>3 DEF HeldFromPoint
  <2>1. units[u].last # time
    BY <1>2, RegularType
  <2> QED BY <1>3, <2>1 DEF CInv, HeldFromPoint
<1> QED BY <1>1, <1>5, <1>6, <1>7, <1>8, <1>9 DEF CInv

LEMMA CEndKeeps ==
  ASSUME CInv, CEndRun
  PROVE  CInv'
<1>1. /\ status = "running" /\ phase = "idle" /\ status' = "ended" /\ Leaving
      /\ time' = (IF seqEnd # None THEN seqEnd.at ELSE TMax)
      /\ UNCHANGED <<model, store, slots, wave, streak, firings, seqEnd, units, phase>>
  BY DEF CEndRun
<1>2. /\ HostTypeOK /\ TypeOK /\ model \in Models /\ time \in Nat
  BY SchedulerAssumption DEF CInv, Inv, TypeOK
<1>3. time' \in 0..TMax /\ time' \in Nat
  BY <1>1, <1>2, SchedulerAssumption DEF TypeOK
<1>4. Inv'
  <2>1. TypeOK'
    BY <1>1, <1>2, <1>3 DEF TypeOK, Statuses
  <2> QED BY <1>1, <2>1, Reread DEF CInv, Inv
<1>5. HostTypeOK'
  BY <1>1, <1>2, SameUnits DEF HostTypeOK, Leaving
<1>6. HeldFromPoint'
  <2> SUFFICES ASSUME NEW u \in Units, 0 < units[u].last, units[u].last < time'
               PROVE  units[u].sampled = left'[u]
    BY <1>1 DEF HeldFromPoint
  <2>1. OnGrid(u) /\ JustSampled(u) /\ units[u].last \in Nat
    BY <1>1, <1>2, RegularType DEF CInv
  <2>2. left'[u] = IF units[u].last = time /\ time < time' THEN Inputs(u, store) ELSE left[u]
    BY <1>1 DEF Leaving
  <2>3. CASE units[u].last < time
    BY <1>2, <2>1, <2>2, <2>3 DEF CInv, HeldFromPoint
  <2>4. CASE units[u].last = time
    BY <1>1, <2>1, <2>2, <2>4 DEF JustSampled
  <2> QED BY <1>2, <2>1, <2>3, <2>4 DEF OnGrid
<1> QED BY <1>1, <1>4, <1>5, <1>6 DEF CInv

(* Stuttering, and every action of the engine and its host.                *)
LEMMA StutterKeeps ==
  ASSUME CInv, UNCHANGED cvars
  PROVE  CInv'
<1>1. UNCHANGED <<model, store, time, slots, wave, streak, firings, seqEnd, status,
                  units, phase, left>>
  BY DEF cvars, vars
<1>2. Inv'
  BY <1>1, Reread DEF CInv, Inv, TypeOK, Timely, HazardDate
<1>3. phase = "point" => NothingWithin(time)'
  BY <1>1 DEF CInv, NothingWithin, Immediate, Scheduled, Watched, InSource, Enabled, T
<1>4. HostTypeOK' /\ HeldFromPoint'
  BY <1>1, SameUnits DEF CInv, HostTypeOK, HeldFromPoint
<1>5. ASSUME NEW u \in Units, status = "running"
      PROVE  (OnGrid(u) /\ JustSampled(u) /\ CurrentOrDue(u))'
  <2>1. OnGrid(u) /\ JustSampled(u) /\ CurrentOrDue(u)
    BY <1>5 DEF CInv
  <2>2. Regular(u)' = Regular(u) /\ U(u)' = U(u) /\ Inputs(u, store)' = Inputs(u, store)
    BY <1>1, SameUnits DEF Regular
  <2>3. NothingWithin(time)' <=> NothingWithin(time)
    BY <1>1 DEF NothingWithin, Immediate, Scheduled, Watched, InSource, Enabled, T
  <2> QED BY <1>1, <2>1, <2>2, <2>3 DEF OnGrid, JustSampled, CurrentOrDue
<1> QED BY <1>1, <1>2, <1>3, <1>4, <1>5 DEF CInv

LEMMA CInitInv == CInit => CInv
<1> SUFFICES ASSUME CInit PROVE CInv
  OBVIOUS
<1> DEFINE blank == [t \in Trans |-> Blank]
           init  == ModelOf[model].init
<1>1. /\ model \in Models /\ store = Published(Started(init), Units, init)
      /\ time = 0 /\ wave = 0 /\ streak = [at |-> 0, count |-> 0] /\ status = "running"
      /\ firings = [t \in Trans |-> Unfired]
      /\ seqEnd \in Latched(store, 0, None)
      /\ units = Started(store) /\ phase = "idle" /\ left = [u \in Units |-> Inputs(u, store)]
  BY DEF CInit
<1>2. init \in Store
  BY <1>1, SchedulerAssumption DEF Model
<1>3. store \in Store
  <2>1. \A u \in Units : Started(init)[u].native \in Value
    BY <1>1, UnitFacts DEF Started
  <2>2. Units \in SUBSET Units
    OBVIOUS
  <2> HIDE DEF init
  <2> QED BY <1>1, <1>2, <2>1, <2>2, PublishedType
<1>4. 0 \in 0..TMax
  BY SchedulerAssumption
<1>5. Inv
  <2>1. /\ blank \in [Trans -> Slot]
        /\ \A t \in Trans : Sound(t, blank[t]) /\ Timely(blank[t], 0)
    BY DEF Blank, Slot, Sound, Timely
  <2>2. PICK d \in Draws : slots = RefreshSchedule(blank, store, 0, 0, d)
    BY DEF CInit
  <2> HIDE DEF blank, init
  <2>3. /\ slots \in [Trans -> Slot]
        /\ \A t \in Trans : /\ Sound(t, slots[t]) /\ Timely(slots[t], 0)
                            /\ Fits(t, store, slots[t])
    BY <1>1, <1>3, <1>4, <2>1, <2>2, BeforeNever, RefreshedSchedule
  <2>4. seqEnd \in [cause : Nat, at : 0..TMax] \cup {None}
    <3>1. ModelOf[model].goals \in Seq(Loc \X Value)
      BY <1>1, SchedulerAssumption DEF Model
    <3>2. Active(store) \subseteq Nat
      BY <3>1 DEF Active
    <3> QED BY <1>1, <1>4, <3>2 DEF Latched
  <2>5. firings \in [Trans -> [count : Nat, first : Nat]]
    BY <1>1 DEF Unfired
  <2>6. streak \in [at : Nat, count : 0..(WatchedLimit + 1)] /\ streak.count <= WatchedLimit
    BY <1>1, SchedulerAssumption
  <2>7. TypeOK
    BY <1>1, <1>3, <1>4, <2>3, <2>4, <2>5, <2>6 DEF TypeOK, Statuses
  <2> QED BY <1>1, <2>3, <2>6, <2>7 DEF Inv
<1> HIDE DEF blank, init
<1>6. ASSUME NEW u \in Units
      PROVE  /\ units[u] \in UnitState /\ units[u].sampled \in [U(u).inputs -> Value]
             /\ Regular(u) \in Nat /\ units[u].grid * U(u).step = 0
             /\ units[u].last = 0 /\ units[u].extra = None
  <2>1. units[u] = [last |-> 0, grid |-> 0, extra |-> None, native |-> U(u).start,
                    sampled |-> Inputs(u, store)]
    BY <1>1 DEF Started
  <2>2. U(u).step \in Nat /\ U(u).start \in Value
    BY <1>1, UnitFacts
  <2>3. units[u].grid = 0 /\ units[u].last = 0 /\ units[u].extra = None
    BY <2>1
  <2>4. Regular(u) \in Nat /\ units[u].grid * U(u).step = 0
    BY <2>2, <2>3 DEF Regular
  <2>5. /\ Inputs(u, store) \in [U(u).inputs -> Value]
        /\ Inputs(u, store) \in UNION {[L -> Value] : L \in SUBSET Loc}
    BY <1>1, <1>3, InputsType
  <2>6. units[u] \in UnitState /\ units[u].sampled \in [U(u).inputs -> Value]
    BY <2>1, <2>2, <2>5 DEF UnitState
  <2> QED BY <2>1, <2>3, <2>4, <2>6
<1>7. HostTypeOK
  <2>1. units \in [Units -> UnitState]
    BY <1>1, <1>6 DEF Started
  <2> QED BY <1>1, <1>6, <2>1 DEF HostTypeOK
<1>8. ASSUME NEW u \in Units PROVE OnGrid(u) /\ JustSampled(u) /\ CurrentOrDue(u)
  <2>1. ~(0 < units[u].last)
    BY <1>6
  <2>2. OnGrid(u)
    BY <1>1, <1>6 DEF OnGrid
  <2> QED BY <2>1, <2>2 DEF JustSampled, CurrentOrDue
<1>9. HeldFromPoint
  <2>1. \A u \in Units : ~(0 < units[u].last)
    BY <1>6
  <2> QED BY <2>1 DEF HeldFromPoint
<1> QED BY <1>1, <1>5, <1>7, <1>8, <1>9 DEF CInv

(* The invariant of the scheduler and of its host holds in every reachable *)
(* state, whatever the units compute.                                      *)
THEOREM CoSimInvariant == CSpec => []CInv
<1>1. CInv /\ [CNext]_cvars => CInv'
  <2> SUFFICES ASSUME CInv, [CNext]_cvars PROVE CInv'
    OBVIOUS
  <2>1. CASE UNCHANGED cvars
    BY <2>1, StutterKeeps
  <2>2. CASE CStep
    BY <2>2, WatchedKeeps, DatedKeeps, BeginKeeps DEF CStep
  <2>3. CASE InPoint
    BY <2>3, StepDueKeeps, ReactionsEndKeeps, EndPointKeeps, ReactKeeps DEF InPoint
  <2>4. CASE CEndRun
    BY <2>4, CEndKeeps
  <2> QED BY <2>1, <2>2, <2>3, <2>4 DEF CNext
<1> QED BY <1>1, CInitInv, PTL DEF CSpec

(* The clock passes no regular point of a unit, and no unit is stepped     *)
(* across inputs that are not those of its last point, or, if it accepts   *)
(* steps of any length, those of the moment the clock leaves.              *)
THEOREM HeldTheorem == CSpec => InputsAreHeld
<1> DEFINE Current == \A u \in Units :
                        U(u).variable /\ units[u].last > 0 /\ time < time' /\ status' = "running"
                          => units[u].sampled = Inputs(u, store)
<1>1. CInv => GridIsKept /\ HeldFromPoint
  BY DEF CInv, GridIsKept, OnGrid
<1>2. CInv /\ [CNext]_cvars => [Current]_cvars
  <2> SUFFICES ASSUME CInv, CNext, NEW u \in Units, U(u).variable, units[u].last > 0,
                      time < time', status' = "running"
               PROVE  units[u].sampled = Inputs(u, store)
    BY DEF Current
  <2>1. /\ HostTypeOK /\ model \in Models /\ time \in Nat /\ units[u].last \in Nat
        /\ Regular(u) \in Nat /\ PointOf(u) \in Nat /\ time \in 0..TMax
    BY RegularType, PointType, SchedulerAssumption DEF CInv, Inv, TypeOK
  <2>2. status = "running" /\ phase = "idle" /\ time' \in Nat /\ time' <= PointOf(u)
    <3>1. ASSUME NEW t \in Trans, CStepDated(t)
          PROVE  status = "running" /\ phase = "idle" /\ time' \in Nat /\ time' <= PointOf(u)
      <4>1. /\ status = "running" /\ phase = "idle" /\ IsNext(t) /\ ~(PointOf(u) < slots[t].date)
            /\ time' = Later(slots[t].date, time)
        BY <3>1 DEF CStepDated, CMayStep, FireDated
      <4>2. slots[t].date \in Int /\ slots[t].date >= time
        BY <4>1 DEF CInv, Inv, Timely, IsNext, Scheduled, TypeOK, Slot
      <4> QED BY <2>1, <4>1, <4>2 DEF Later
    <3>2. ASSUME NEW v \in Units, BeginPoint(v)
          PROVE  status = "running" /\ phase = "idle" /\ time' \in Nat /\ time' <= PointOf(u)
      BY <3>2, PointType DEF BeginPoint, CMayStep, IsNextPoint
    <3>3. ~InPoint /\ ~CEndRun /\ \A t \in Trans : ~CStepWatched(t)
      BY <2>1 DEF InPoint, StepDue, ReactionsEnd, EndPoint, React, CEndRun, CStepWatched,
                  FireWatched, WatchedFiring, vars
    <3> QED BY <3>1, <3>2, <3>3 DEF CNext, CStep
  <2>3. OnGrid(u) /\ JustSampled(u) /\ CurrentOrDue(u)
    BY <2>2 DEF CInv
  <2>4. units[u].extra = None /\ time < Regular(u)
    <3> DEFINE now == time'
    <3>1. now \in Nat /\ time < now /\ now <= PointOf(u)
      BY <2>2
    <3> HIDE DEF now
    <3> QED BY <2>1, <2>3, <3>1, NothingOwed
  <2>5. CASE units[u].last = time
    BY <2>2, <2>3, <2>5 DEF JustSampled
  <2>6. CASE units[u].last < time
    BY <2>1, <2>3, <2>4, <2>6, SchedulerAssumption DEF CurrentOrDue
  <2> QED BY <2>1, <2>3, <2>5, <2>6 DEF OnGrid
<1> QED BY <1>1, <1>2, CoSimInvariant, PTL DEF CSpec, InputsAreHeld, VariableUnitsAreCurrent

(* Units write the state at instants that are no event of the model, and   *)
(* every write re-plans: between two actions of the host the schedule still *)
(* holds what the state allows, and the clock has passed none of its dates. *)
THEOREM CoSimSchedule == CSpec => [](ScheduleMatchesState /\ NoOverdue)
<1>1. CInv => ScheduleMatchesState /\ NoOverdue
  BY DEF CInv, Inv, ScheduleMatchesState, NoOverdue, Sound, Fits, Timely, Scheduled
<1> QED BY <1>1, CoSimInvariant, PTL

-----------------------------------------------------------------------------
(* Checkpoints of an exported unit.  The inductive invariant: an address is *)
(* at one place; and what the host has left to make says what it holds.    *)

UnitFields == {"engine", "phase", "seed", "start", "stop", "pending", "states"}

(* What the importer may set.                                              *)
Imported == InputNames \cup ParameterNames

Pendings == UNION {[S -> {0, 1}] : S \in SUBSET Imported}

IsView(s) == s = [x \in UnitFields \ {"states"} |-> s[x]] /\ s.pending \in Pendings

IsInstance(u) ==
  /\ u = [x \in UnitFields |-> u[x]] /\ u.pending \in Pendings
  /\ \A h \in DOMAIN u.states : IsView(u.states[h])

(* What is held is what exists, each at one place, and is what was saved.  *)
Kept ==
  /\ views = [h \in Handles |-> views[h]]
  /\ \A h \in DOMAIN unit.states : unit.states[h] = views[h]
  /\ IsInstance(unit) /\ held \in [Holders -> Handles \cup {Void}]
  /\ DOMAIN unit.states = {held[s] : s \in Holders} \ {Void}
  /\ \A r, s \in Holders : r # s /\ held[r] = held[s] => held[r] = Void

NoneHeldBut(S) == \A r \in Holders \ S : held[r] = Void

(* The calls that take, give back or free no checkpoint.                   *)
PlainCalls ==
  [op : {"enter"}, start : {0}, stop : {Horizon}]
    \cup [op : {"exit", "reset"}]
    \cup [op : {"set"}, pairs : Seq(Names \X {0, 1})]
    \cup [op : {"get"}, name : OutputNames]
    \cup [op : {"step"}, current : Int, size : {1, 2}]

(* Those that set one value, or read one.                                  *)
SetsOf(S) == [op : {"set"}, pairs : {<< <<n, v>> >> : n \in S, v \in {0, 1}}]

Reads == [op : {"get"}, name : OutputNames]

ReleaseOf(s) == [op |-> "release", holder |-> s]

(* Half way through a save or a restoration, one checkpoint is held.       *)
HalfWay(s, h) ==
  {Tail(SaveScript(s, h)), Tail(RestoreScript(s, h)), <<ReleaseOf(s)>>}

HostHolds ==
  host # "free" =>
    \/ NoneHeldBut({}) /\ todo \in Seq(PlainCalls)
    \/ \E s \in Holders, h \in Handles :
         \/ NoneHeldBut({}) /\ todo \in {SaveScript(s, h), RestoreScript(s, h)}
         \/ /\ NoneHeldBut({s}) /\ todo \in HalfWay(s, h)
            /\ held[s] = Void => todo = <<ReleaseOf(s)>>

(* A restoration is asked for only when a checkpoint is kept.              *)
RestoresBytes == todo # << >> /\ Head(todo).op \in {"deserialize", "restore"} => bytes # Void

HeldInv ==
  /\ Kept /\ RestoresBytes
  /\ point \in Int /\ (bytes # Void => bytes.point \in Int /\ IsView(bytes.view))
  /\ inputs \in [InputNames -> {0, 1}]
  /\ host = "free" => todo = << >>
  /\ HostHolds

-----------------------------------------------------------------------------
(* What a call makes of the instance.                                      *)

(* A call leaves the checkpoints alone, in each of its outcomes.           *)
Spares(u, os) == \A o \in os : IsInstance(o.unit) /\ o.unit.states = u.states

(* Either status, of an instance that keeps its checkpoints.               *)
LEMMA SparesPlain ==
  ASSUME NEW u, NEW v, IsInstance(v), v.states = u.states
  PROVE  Spares(u, Accepts(v)) /\ Spares(u, Refuses(v))
BY DEF Spares, Accepts, Refuses

(* An instance in error keeps its checkpoints.                             *)
LEMMA PoisonedFields ==
  ASSUME NEW u, IsInstance(u)
  PROVE  IsInstance(Poisoned(u)) /\ Poisoned(u).states = u.states
BY DEF Poisoned, IsInstance, UnitFields

(* An initialisation, whether the engine is built or not.                  *)
LEMMA StartSpares ==
  ASSUME NEW u, IsInstance(u), NEW start, NEW stop
  PROVE  Spares(u, Start(u, start, stop))
<1>1. Spares(u, Refuses(u))
  BY SparesPlain
<1>2. ASSUME NEW e
      PROVE  Spares(u, Accepts([u EXCEPT !.engine = e, !.start = start, !.stop = stop,
                                         !.phase = "initialization"]))
  <2> DEFINE v == [u EXCEPT !.engine = e, !.start = start, !.stop = stop,
                            !.phase = "initialization"]
  <2>1. IsInstance(v) /\ v.states = u.states
    BY DEF IsInstance, UnitFields
  <2> HIDE DEF v
  <2> QED BY <2>1, SparesPlain DEF v
<1> DEFINE os(e) == IF e = Void THEN Refuses(u)
                    ELSE Accepts([u EXCEPT !.engine = e, !.start = start, !.stop = stop,
                                           !.phase = "initialization"])
           built == Builds([u EXCEPT !.start = start, !.stop = stop])
<1>3. \A e : Spares(u, os(e))
  BY <1>1, <1>2
<1>4. Start(u, start, stop) = Refuses(u) \/ Start(u, start, stop) = UNION {os(e) : e \in built}
  BY DEF Start
<1> HIDE DEF os, built
<1> QED BY <1>1, <1>3, <1>4 DEF Spares

(* An initialisation again, or an instance in error.                       *)
LEMMA RebuildSpares ==
  ASSUME NEW u, IsInstance(u)
  PROVE  Spares(u, Rebuild(u))
<1> DEFINE v == [u EXCEPT !.engine = Void, !.phase = "instantiated"]
<1>1. IsInstance(v) /\ v.states = u.states
  BY DEF IsInstance, UnitFields
<1> HIDE DEF v
<1>2. Spares(u, Start(v, u.start, u.stop))
  BY <1>1, StartSpares DEF Spares
<1>3. ASSUME NEW o \in Start(v, u.start, u.stop)
      PROVE  Spares(u, IF o.ok THEN {o} ELSE Refuses(Poisoned(o.unit)))
  <2>1. IsInstance(o.unit) /\ o.unit.states = u.states
    BY <1>2 DEF Spares
  <2>2. Spares(u, Refuses(Poisoned(o.unit)))
    BY <2>1, PoisonedFields, SparesPlain
  <2> QED BY <2>1, <2>2 DEF Spares
<1> DEFINE os(o) == IF o.ok THEN {o} ELSE Refuses(Poisoned(o.unit))
<1>4. \A o \in Start(v, u.start, u.stop) : Spares(u, os(o))
  BY <1>3
<1>5. Rebuild(u) = UNION {os(o) : o \in Start(v, u.start, u.stop)}
  BY DEF Rebuild, v
<1> HIDE DEF os
<1> QED BY <1>4, <1>5 DEF Spares

(* What is noted for the next engine is no checkpoint.                     *)
LEMMA NotedFields ==
  ASSUME NEW u, IsInstance(u), NEW n \in Imported, NEW v \in {0, 1}
  PROVE  IsInstance(Noted(u, n, v)) /\ Noted(u, n, v).states = u.states
<1> DEFINE noted == [m \in DOMAIN u.pending \cup {n} |-> IF m = n THEN v ELSE u.pending[m]]
<1>1. noted \in Pendings
  <2>1. PICK S \in SUBSET Imported : u.pending \in [S -> {0, 1}]
    BY DEF IsInstance, Pendings
  <2>2. noted \in [S \cup {n} -> {0, 1}] /\ S \cup {n} \in SUBSET Imported
    BY <2>1
  <2> HIDE DEF noted
  <2> QED BY <2>2 DEF Pendings
<1>2. Noted(u, n, v) = u \/ Noted(u, n, v) = [u EXCEPT !.pending = noted]
  BY DEF Noted
<1> HIDE DEF noted
<1> QED BY <1>1, <1>2 DEF IsInstance, UnitFields

(* One value that is set, in each of its outcomes.                         *)
LEMMA SetSpares ==
  ASSUME NEW u, IsInstance(u), NEW n \in Names, NEW v \in {0, 1}
  PROVE  Spares(u, Set(u, n, v))
<1>1. Spares(u, Refuses(u))
  BY SparesPlain
<1>0. n \in OutputNames => Set(u, n, v) = Refuses(u)
  BY DEF Set
<1> SUFFICES ASSUME n \in Imported PROVE Spares(u, Set(u, n, v))
  BY <1>0, <1>1 DEF Names, Imported
<1>2. Spares(u, Rebuild(Noted(u, n, v)))
  BY NotedFields, RebuildSpares DEF Spares
<1>3. Spares(u, Accepts(Noted(u, n, v)))
  BY NotedFields, SparesPlain
<1>4. Spares(u, Refuses(Poisoned(u)))
  BY PoisonedFields, SparesPlain
<1>5. ASSUME NEW e
      PROVE  Spares(u, Accepts(Noted([u EXCEPT !.engine = e], n, v)))
  <2> DEFINE w == [u EXCEPT !.engine = e]
  <2>1. IsInstance(w) /\ w.states = u.states
    BY DEF IsInstance, UnitFields
  <2> HIDE DEF w
  <2> QED BY <2>1, NotedFields, SparesPlain DEF w
<1> QED BY <1>1, <1>2, <1>3, <1>4, <1>5 DEF Set

(* The outcomes after each element of an array: the recursion is well      *)
(* defined, and each outcome continues one of the element before.          *)
LEMMA SetAllSteps ==
  ASSUME NEW u, NEW X, NEW pairs \in Seq(X)
  PROVE  \E upTo : /\ upTo[0] = Accepts(u)
                   /\ \A k \in 1..Len(pairs) : upTo[k] = Continued(upTo[k - 1], pairs[k])
                   /\ SetAll(u, pairs) = upTo[Len(pairs)]
<1> DEFINE n == Len(pairs)
           at(m, f) == [k \in 0..m |-> IF k = 0 THEN Accepts(u)
                                       ELSE Continued(f[k - 1], pairs[k])]
           Missing == {m \in Nat : ~ \E f : f = at(m, f)}
           all == CHOOSE f : f = at(n, f)
<1>0. n \in Nat
  OBVIOUS
<1>1. Missing = {}
  <2> SUFFICES ASSUME Missing # {} PROVE FALSE
    OBVIOUS
  <2>1. PICK m \in Missing : \A q \in Missing : ~(<<q, m>> \in OpToRel(<, Nat))
    BY NatLessThanWellFounded, WFMin
  <2>2. m # 0
    <3> DEFINE f == [k \in 0..0 |-> Accepts(u)]
    <3>1. f = at(0, f)
      OBVIOUS
    <3>2. \E g : g = at(0, g)
      BY <3>1
    <3> HIDE DEF f, at
    <3> QED BY <2>1, <3>2
  <2>3. m - 1 \in Nat /\ <<m - 1, m>> \in OpToRel(<, Nat)
    BY <2>1, <2>2 DEF OpToRel
  <2>4. PICK f : f = at(m - 1, f)
    <3> HIDE DEF at
    <3> QED BY <2>1, <2>3
  <2> DEFINE g == [k \in 0..m |-> IF k <= m - 1 THEN f[k] ELSE Continued(f[m - 1], pairs[m])]
  <2>5. \A k \in 0..(m - 1) : f[k] = IF k = 0 THEN Accepts(u) ELSE Continued(f[k - 1], pairs[k])
    BY <2>4
  <2>6. \A k \in 0..m : g[k] = IF k = 0 THEN Accepts(u) ELSE Continued(g[k - 1], pairs[k])
    <3> SUFFICES ASSUME NEW k \in 0..m
                 PROVE  g[k] = IF k = 0 THEN Accepts(u) ELSE Continued(g[k - 1], pairs[k])
      OBVIOUS
    <3>1. m \in Nat /\ m # 0
      BY <2>1, <2>2
    <3>2. CASE k = m
      BY <3>1, <3>2
    <3>3. CASE k # m
      <4>1. k \in 0..(m - 1) /\ g[k] = f[k]
        BY <3>1, <3>3
      <4>2. k # 0 => g[k - 1] = f[k - 1]
        BY <3>1, <4>1
      <4> HIDE DEF g
      <4> QED BY <2>5, <4>1, <4>2
    <3> QED BY <3>2, <3>3
  <2>7. g = at(m, g)
    <3>1. g = [k \in 0..m |-> g[k]]
      OBVIOUS
    <3> HIDE DEF g
    <3> QED BY <2>6, <3>1
  <2>8. \E h : h = at(m, h)
    <3> HIDE DEF at, g
    <3> QED BY <2>7
  <2> HIDE DEF at, g
  <2> QED BY <2>1, <2>8
<1>2. all = at(n, all)
  <2>1. \E f : f = at(n, f)
    <3> HIDE DEF at
    <3> QED BY <1>0, <1>1
  <2> HIDE DEF at
  <2> QED BY <2>1
<1>3. SetAll(u, pairs) = all[n]
  BY DEF SetAll
<1>4. all[0] = Accepts(u) /\ \A k \in 1..n : all[k] = Continued(all[k - 1], pairs[k])
  <2> HIDE DEF all
  <2>1. \A k \in 0..n : all[k] = IF k = 0 THEN Accepts(u) ELSE Continued(all[k - 1], pairs[k])
    BY <1>0, <1>2
  <2> QED BY <1>0, <2>1
<1> HIDE DEF all
<1> QED BY <1>3, <1>4

(* An array of values, however far it got.                                 *)
LEMMA SetAllSpares ==
  ASSUME NEW u, IsInstance(u), NEW pairs \in Seq(Names \X {0, 1})
  PROVE  Spares(u, SetAll(u, pairs))
<1>1. PICK upTo : /\ upTo[0] = Accepts(u)
                  /\ \A k \in 1..Len(pairs) : upTo[k] = Continued(upTo[k - 1], pairs[k])
                  /\ SetAll(u, pairs) = upTo[Len(pairs)]
  BY SetAllSteps
<1> DEFINE Bad == {k \in 0..Len(pairs) : ~Spares(u, upTo[k])}
<1>2. Bad = {}
  <2> SUFFICES ASSUME Bad # {} PROVE FALSE
    OBVIOUS
  <2>1. Bad \subseteq Nat /\ Len(pairs) \in Nat
    OBVIOUS
  <2>2. PICK k \in Bad : \A q \in Bad : ~(<<q, k>> \in OpToRel(<, Nat))
    BY <2>1, NatLessThanWellFounded, WFMin
  <2>3. k # 0
    BY <1>1, <2>2, SparesPlain
  <2>4. Spares(u, upTo[k - 1])
    <3>1. k - 1 \in 0..Len(pairs) /\ <<k - 1, k>> \in OpToRel(<, Nat)
      BY <2>1, <2>2, <2>3 DEF OpToRel
    <3> QED BY <2>2, <3>1
  <2>5. upTo[k] = Continued(upTo[k - 1], pairs[k])
    <3>1. k \in 1..Len(pairs)
      BY <2>1, <2>3
    <3> HIDE DEF Bad
    <3> QED BY <1>1, <3>1
  <2>6. Spares(u, Continued(upTo[k - 1], pairs[k]))
    <3>1. ASSUME NEW o \in upTo[k - 1]
          PROVE  Spares(u, IF o.ok THEN Set(o.unit, pairs[k][1], pairs[k][2]) ELSE {o})
      <4>1. IsInstance(o.unit) /\ o.unit.states = u.states
        BY <2>4 DEF Spares
      <4>2. Spares(u, Set(o.unit, pairs[k][1], pairs[k][2]))
        <5>1. k \in 1..Len(pairs)
          BY <2>1, <2>3
        <5>2. pairs[k] \in Names \X {0, 1}
          BY <5>1
        <5>3. pairs[k][1] \in Names /\ pairs[k][2] \in {0, 1}
          BY <5>2
        <5> QED BY <4>1, <5>3, SetSpares DEF Spares
      <4> QED BY <4>1, <4>2 DEF Spares
    <3> DEFINE os(o) == IF o.ok THEN Set(o.unit, pairs[k][1], pairs[k][2]) ELSE {o}
    <3>2. \A o \in upTo[k - 1] : Spares(u, os(o))
      BY <3>1
    <3>3. Continued(upTo[k - 1], pairs[k]) = UNION {os(o) : o \in upTo[k - 1]}
      BY DEF Continued
    <3> HIDE DEF os
    <3> QED BY <3>2, <3>3 DEF Spares
  <2> QED BY <2>2, <2>5, <2>6
<1> QED BY <1>1, <1>2

(* Another seed.                                                           *)
LEMMA SetSeedSpares ==
  ASSUME NEW u, IsInstance(u), NEW seed
  PROVE  Spares(u, SetSeed(u, seed))
<1> DEFINE v == [u EXCEPT !.seed = seed]
<1>1. IsInstance(v) /\ v.states = u.states
  BY DEF IsInstance, UnitFields
<1> HIDE DEF v
<1>2. Spares(u, Rebuild(v)) /\ Spares(u, Accepts(v)) /\ Spares(u, Refuses(u))
  BY <1>1, RebuildSpares, SparesPlain DEF Spares
<1> QED BY <1>2 DEF SetSeed, v

(* A step, done, refused or failed.                                        *)
LEMMA DoStepSpares ==
  ASSUME NEW u, IsInstance(u), NEW current, NEW size
  PROVE  Spares(u, DoStep(u, current, size))
<1> DEFINE e == AdvancedTo(u.engine, current + size)
           v == [u EXCEPT !.engine = e]
<1>1. IsInstance(v) /\ v.states = u.states
  BY DEF IsInstance, UnitFields
<1> HIDE DEF e, v
<1>2. Spares(u, Accepts(v)) /\ Spares(u, Refuses(u)) /\ Spares(u, Refuses(Poisoned(u)))
  BY <1>1, PoisonedFields, SparesPlain
<1> QED BY <1>2 DEF DoStep, v, e

(* What is put back keeps the checkpoints of the instance.                 *)
LEMMA RestoreSpares ==
  ASSUME NEW u, IsInstance(u), NEW h
  PROVE  Spares(u, Restore(u, h))
<1> DEFINE v == Restored(u, u.states[h])
           os(e) == IF e = Void THEN Refuses(u) ELSE Accepts(v)
           built == Builds(u.states[h])
<1>0. Spares(u, Refuses(u))
  BY SparesPlain
<1> SUFFICES ASSUME h \in DOMAIN u.states PROVE Spares(u, Restore(u, h))
  BY <1>0 DEF Restore
<1>1. IsInstance(v) /\ v.states = u.states
  <2>1. IsView(u.states[h])
    BY DEF IsInstance
  <2>2. v.states = u.states /\ v.pending = u.states[h].pending /\ v = [x \in UnitFields |-> v[x]]
    BY DEF IsInstance, UnitFields, Restored
  <2> HIDE DEF v
  <2> QED BY <2>1, <2>2 DEF IsInstance, IsView
<1>2. Restore(u, h) = Refuses(u) \/ Restore(u, h) = UNION {os(e) : e \in built}
  BY DEF Restore
<1> HIDE DEF v, built
<1>3. \A e : Spares(u, os(e))
  BY <1>0, <1>1, SparesPlain
<1> HIDE DEF os
<1> QED BY <1>0, <1>2, <1>3 DEF Spares

(* The calls that take no checkpoint and free none leave them as they are. *)
SparingOps == {"enter", "exit", "set", "get", "seed", "step", "terminate", "reset", "restore",
               "serialize"}

LEMMA CalledSpares ==
  ASSUME NEW u, IsInstance(u), NEW c, c.op \in SparingOps,
         c.op = "set" => c.pairs \in Seq(Names \X {0, 1})
  PROVE  Spares(u, Called(u, c))
<1>1. Spares(u, Accepts(u)) /\ Spares(u, Refuses(u))
  BY SparesPlain
<1>2. CASE c.op = "enter"
  BY <1>2, StartSpares DEF Called
<1>3. CASE c.op = "set"
  BY <1>3, SetAllSpares DEF Called
<1>4. CASE c.op = "get"
  BY <1>1, <1>4 DEF Called
<1>5. CASE c.op = "seed"
  BY <1>5, SetSeedSpares DEF Called
<1>6. CASE c.op = "step"
  BY <1>6, DoStepSpares DEF Called
<1>7. CASE c.op \in {"exit", "terminate"}
  <2> DEFINE v(p) == [u EXCEPT !.phase = p]
  <2>1. \A p : IsInstance(v(p)) /\ v(p).states = u.states
    BY DEF IsInstance, UnitFields
  <2>2. Called(u, c) \in {Refuses(u), Accepts(v("step")), Accepts(v("terminated"))}
    BY <1>7 DEF Called
  <2> HIDE DEF v
  <2> QED BY <1>1, <2>1, <2>2, SparesPlain
<1>8. CASE c.op = "reset"
  <2>1. IsInstance(Reset(u)) /\ Reset(u).states = u.states
    <3>1. [n \in {} |-> 0] \in [{} -> {0, 1}] /\ {} \in SUBSET Imported
      OBVIOUS
    <3>2. [n \in {} |-> 0] \in Pendings
      BY <3>1 DEF Pendings
    <3>3. /\ Reset(u).states = u.states /\ Reset(u).pending = [n \in {} |-> 0]
          /\ Reset(u) = [x \in UnitFields |-> Reset(u)[x]]
      BY DEF UnitFields, Reset, Fresh
    <3> QED BY <3>2, <3>3 DEF IsInstance
  <2> QED BY <1>8, <2>1, SparesPlain DEF Called
<1>9. CASE c.op = "restore"
  BY <1>1, <1>9, RestoreSpares DEF Called
<1>10. CASE c.op = "serialize"
  BY <1>1, <1>10 DEF Called, Spares
<1> QED BY <1>2, <1>3, <1>4, <1>5, <1>6, <1>7, <1>8, <1>9, <1>10 DEF SparingOps

-----------------------------------------------------------------------------
(* What a call makes of the checkpoints that the caller holds.             *)

(* The caller then holds what it held.                                     *)
LEMMA SparingCall ==
  ASSUME Kept, NEW c, c.op \in SparingOps, c.op = "set" => c.pairs \in Seq(Names \X {0, 1}),
         NEW o \in Called(unit, c), Answer(c, o)
  PROVE  Kept' /\ held' = held
<1>1. IsInstance(o.unit) /\ o.unit.states = unit.states
  BY CalledSpares DEF Kept, Spares
<1>2. unit' = o.unit /\ held' = held
  BY DEF Answer, HeldAfter, SparingOps
<1>3. views' = views
  BY DEF Answer, ViewsAfter, SparingOps
<1> QED BY <1>1, <1>2, <1>3 DEF Kept, IsInstance

(* What is not touched is held still.                                      *)
LEMMA KeptAlone ==
  ASSUME Kept, UNCHANGED <<unit, held, views>>
  PROVE  Kept'
<1>1. IsInstance(unit)'
  BY DEF IsInstance, Kept
<1>2. unit' = unit /\ held' = held /\ views' = views
  OBVIOUS
<1> QED BY <1>1, <1>2 DEF Kept

(* One more checkpoint.                                                    *)
LEMMA HoldingFields ==
  ASSUME NEW u, IsInstance(u), NEW h, NEW view, IsView(view)
  PROVE  /\ IsInstance(Holding(u, h, view))
         /\ DOMAIN Holding(u, h, view).states = DOMAIN u.states \cup {h}
         /\ \A x \in DOMAIN u.states \cup {h} :
              Holding(u, h, view).states[x] = IF x = h THEN view ELSE u.states[x]
         /\ View(Holding(u, h, view)) = View(u)
<1> DEFINE new == [x \in DOMAIN u.states \cup {h} |-> IF x = h THEN view ELSE u.states[x]]
           v == [u EXCEPT !.states = new]
<1>1. Holding(u, h, view) = v
  BY DEF Holding
<1>2. \A x \in DOMAIN new : IsView(new[x])
  BY DEF IsInstance
<1>3. DOMAIN new = DOMAIN u.states \cup {h}
  OBVIOUS
<1>4. \A x \in DOMAIN u.states \cup {h} : new[x] = IF x = h THEN view ELSE u.states[x]
  OBVIOUS
<1> HIDE DEF new
<1>5. v.states = new /\ v.pending = u.pending /\ v = [x \in UnitFields |-> v[x]]
  BY DEF IsInstance, UnitFields
<1>6. View(v) = View(u)
  BY DEF View, IsInstance, UnitFields
<1> HIDE DEF v
<1> QED BY <1>1, <1>2, <1>3, <1>4, <1>5, <1>6 DEF IsInstance

(* One checkpoint less.                                                    *)
LEMMA FreedFields ==
  ASSUME NEW u, IsInstance(u), NEW h
  PROVE  /\ IsInstance(Freed(u, h)) /\ DOMAIN Freed(u, h).states = DOMAIN u.states \ {h}
         /\ \A x \in DOMAIN u.states \ {h} : Freed(u, h).states[x] = u.states[x]
         /\ View(Freed(u, h)) = View(u)
BY DEF Freed, View, IsInstance, UnitFields

(* What is saved of an instance.                                           *)
LEMMA ViewFields ==
  ASSUME NEW u, IsInstance(u)
  PROVE  /\ IsView(View(u))
         /\ \A x \in UnitFields \ {"states"} : View(u)[x] = u[x]
BY DEF View, IsView, IsInstance, UnitFields

(* A checkpoint that is taken replaces the one that was there.             *)
LEMMA TakingCall ==
  ASSUME Kept, NEW s \in Holders, NEW h \in Handles, NEW c,
         c.op \in {"save", "deserialize"}, c.holder = s, c.handle = h, Possible(c),
         c.op = "deserialize" => held[s] = Void /\ IsView(bytes.view),
         NEW o \in Called(unit, c), Answer(c, o)
  PROVE  /\ Kept' /\ held' = IF o.ok THEN [held EXCEPT ![s] = h] ELSE held
         /\ View(unit') = View(unit)
         /\ o.ok => /\ h \in DOMAIN unit'.states
                    /\ unit'.states[h] = IF c.op = "save" THEN View(unit) ELSE bytes.view
<1> DEFINE old == held[s]
           took == [held EXCEPT ![s] = h]
           view == IF c.op = "save" THEN View(unit) ELSE bytes.view
<1>0. IsView(view)
  BY ViewFields DEF Kept
<1>1. IsInstance(unit) /\ h \notin DOMAIN unit.states /\ h # Void
  BY ExportedAssumption DEF Kept, Possible
<1>2. /\ unit' = o.unit /\ held' = IF o.ok THEN took ELSE held
      /\ views' = IF o.ok THEN [views EXCEPT ![h] = view] ELSE views
  BY DEF Answer, HeldAfter, ViewsAfter
<1>3. /\ took \in [Holders -> Handles \cup {Void}]
      /\ \A r \in Holders : took[r] = IF r = s THEN h ELSE held[r]
  BY DEF Kept
<1>4. \A r \in Holders : held[r] # h
  BY <1>1 DEF Kept
<1>5. {took[r] : r \in Holders} \ {Void} = (DOMAIN unit.states \cup {h}) \ ({old} \ {Void})
  <2> HIDE DEF took
  <2> QED BY <1>1, <1>3, <1>4 DEF Kept
<1>6. \A r, t \in Holders : r # t /\ took[r] = took[t] => took[r] = Void
  <2> HIDE DEF took
  <2> QED BY <1>3, <1>4 DEF Kept
<1>7. /\ IsInstance(o.unit)
      /\ IF o.ok THEN DOMAIN o.unit.states = (DOMAIN unit.states \cup {h}) \ ({old} \ {Void})
                 ELSE o.unit.states = unit.states
      /\ View(o.unit) = View(unit)
      /\ o.ok => \A x \in DOMAIN o.unit.states :
                   o.unit.states[x] = IF x = h THEN view ELSE unit.states[x]
  <2>1. CASE c.op = "save"
    <3>1. o \in GetState(unit, old, h)
      BY <2>1 DEF Called
    <3> DEFINE v == Holding(unit, h, view)
    <3>2. /\ IsInstance(v) /\ DOMAIN v.states = DOMAIN unit.states \cup {h}
          /\ \A x \in DOMAIN unit.states \cup {h} :
               v.states[x] = IF x = h THEN view ELSE unit.states[x]
          /\ View(v) = View(unit)
      <4> HIDE DEF view
      <4> QED BY <1>0, <1>1, HoldingFields
    <3>3. /\ IsInstance(Freed(v, old))
          /\ DOMAIN Freed(v, old).states = (DOMAIN unit.states \cup {h}) \ {old}
          /\ \A x \in (DOMAIN unit.states \cup {h}) \ {old} :
               Freed(v, old).states[x] = IF x = h THEN view ELSE unit.states[x]
          /\ View(Freed(v, old)) = View(unit)
      <4> HIDE DEF v, old, view
      <4> QED BY <3>2, FreedFields
    <3>4. Snapshot(unit, h) \in {{[unit |-> unit, ok |-> FALSE]}, {[unit |-> v, ok |-> TRUE]}}
      BY <2>1 DEF Snapshot, Accepts, Refuses
    <3> HIDE DEF v, old, view
    <3>5. \/ o = [unit |-> unit, ok |-> FALSE]
          \/ old = Void /\ o = [unit |-> v, ok |-> TRUE]
          \/ old # Void /\ o = [unit |-> Freed(v, old), ok |-> TRUE]
      BY <3>1, <3>4 DEF GetState, Refuses
    <3> QED BY <1>1, <3>2, <3>3, <3>5
  <2>2. CASE c.op = "deserialize"
    <3> DEFINE v == Holding(unit, h, view)
    <3>1. /\ IsInstance(v) /\ DOMAIN v.states = DOMAIN unit.states \cup {h}
          /\ \A x \in DOMAIN unit.states \cup {h} :
               v.states[x] = IF x = h THEN view ELSE unit.states[x]
          /\ View(v) = View(unit)
      <4> HIDE DEF view
      <4> QED BY <1>0, <1>1, HoldingFields
    <3>2. o \in {[unit |-> v, ok |-> TRUE], [unit |-> unit, ok |-> FALSE]}
      BY <2>2 DEF Called, Accepts, Refuses
    <3> HIDE DEF v, view
    <3> QED BY <1>1, <2>2, <3>1, <3>2
  <2> QED BY <2>1, <2>2
<1>8. Kept'
  <2> HIDE DEF took, view
  <2>1. CASE o.ok
    <3>1. /\ held' = took /\ unit' = o.unit
          /\ DOMAIN o.unit.states = {took[r] : r \in Holders} \ {Void}
      BY <1>2, <1>5, <1>7, <2>1
    <3>2. IsInstance(unit)'
      BY <1>7, <3>1 DEF IsInstance
    <3>3. (held \in [Holders -> Handles \cup {Void}])'
      BY <1>3, <3>1
    <3>4. (DOMAIN unit.states = {held[r] : r \in Holders} \ {Void})'
      BY <3>1
    <3>5. (\A r, t \in Holders : r # t /\ held[r] = held[t] => held[r] = Void)'
      BY <1>6, <3>1
    <3>6. views' = [x \in Handles |-> IF x = h THEN view ELSE views[x]]
      BY <1>2, <2>1 DEF Kept
    <3>7. (\A x \in DOMAIN unit.states : unit.states[x] = views[x])'
      <4> SUFFICES ASSUME NEW x \in DOMAIN o.unit.states PROVE o.unit.states[x] = views'[x]
        BY <3>1
      <4>1. x \in DOMAIN unit.states \cup {h} /\ x \in Handles
        BY <1>7, <2>1 DEF Kept
      <4>2. o.unit.states[x] = IF x = h THEN view ELSE unit.states[x]
        BY <1>7, <2>1
      <4>3. views'[x] = IF x = h THEN view ELSE views[x]
        BY <3>6, <4>1
      <4> QED BY <4>1, <4>2, <4>3 DEF Kept
    <3>8. (views = [x \in Handles |-> views[x]])'
      BY <3>6
    <3> QED BY <3>2, <3>3, <3>4, <3>5, <3>7, <3>8 DEF Kept
  <2>2. CASE ~o.ok
    <3>1. held' = held /\ views' = views /\ unit' = o.unit /\ o.unit.states = unit.states
      BY <1>2, <1>7, <2>2
    <3>2. IsInstance(unit)'
      BY <1>7, <3>1 DEF IsInstance
    <3> QED BY <3>1, <3>2 DEF Kept
  <2> QED BY <2>1, <2>2
<1>9. o.ok => h \in DOMAIN o.unit.states /\ o.unit.states[h] = view
  <2> HIDE DEF view
  <2>1. h \notin {old} \ {Void}
    BY <1>4
  <2> QED BY <1>7, <2>1
<1> QED BY <1>2, <1>7, <1>8, <1>9

(* A checkpoint that is freed is not held any more.                        *)
LEMMA FreeingCall ==
  ASSUME Kept, NEW s \in Holders, NEW c, c.op = "release", c.holder = s,
         NEW o \in Called(unit, c), Answer(c, o)
  PROVE  /\ Kept' /\ o.ok /\ held' = [held EXCEPT ![s] = Void]
         /\ View(unit') = View(unit)
<1> DEFINE v == IF held[s] = Void THEN unit ELSE Freed(unit, held[s])
<1>1. o = [unit |-> v, ok |-> TRUE]
  BY DEF Called, Accepts
<1>2. held' = [held EXCEPT ![s] = Void] /\ unit' = v /\ views' = views
  BY <1>1 DEF Answer, HeldAfter, ViewsAfter
<1>3. /\ IsInstance(v) /\ DOMAIN v.states = DOMAIN unit.states \ ({held[s]} \ {Void})
      /\ \A x \in DOMAIN v.states : v.states[x] = unit.states[x]
      /\ View(v) = View(unit)
  <2>1. /\ IsInstance(unit)
        /\ IsInstance(Freed(unit, held[s]))
        /\ DOMAIN Freed(unit, held[s]).states = DOMAIN unit.states \ {held[s]}
        /\ \A x \in DOMAIN unit.states \ {held[s]} : Freed(unit, held[s]).states[x] = unit.states[x]
        /\ View(Freed(unit, held[s])) = View(unit)
    BY FreedFields DEF Kept
  <2> QED BY <2>1
<1> HIDE DEF v
<1>4. /\ held' \in [Holders -> Handles \cup {Void}]
      /\ \A r \in Holders : held'[r] = IF r = s THEN Void ELSE held[r]
  BY <1>2 DEF Kept
<1>5. {held'[r] : r \in Holders} \ {Void} = DOMAIN v.states
  BY <1>3, <1>4 DEF Kept
<1>6. IsInstance(unit)'
  BY <1>2, <1>3 DEF IsInstance
<1>7. (\A x \in DOMAIN unit.states : unit.states[x] = views[x])'
  BY <1>2, <1>3 DEF Kept
<1> QED BY <1>1, <1>2, <1>3, <1>4, <1>5, <1>6, <1>7 DEF Kept

-----------------------------------------------------------------------------
(* What the host has to call.                                              *)

(* A finite set in some order.                                             *)
LEMMA SetToSeqType ==
  ASSUME NEW S, IsFiniteSet(S)
  PROVE  SetToSeq(S) \in [1..Cardinality(S) -> S] /\ Cardinality(S) \in Nat
<1>1. Cardinality(S) \in Nat /\ ExistsBijection(1..Cardinality(S), S)
  BY FS_CardinalityType
<1>2. \E f \in [1..Cardinality(S) -> S] : IsInjective(f)
  BY <1>1 DEF ExistsBijection, Bijection, Injection
<1> QED BY <1>1, <1>2 DEF SetToSeq

(* What the host sets.                                                     *)
LEMMA SettingsType ==
  ASSUME NEW S \in {InputNames, ParameterNames}, NEW values,
         \A n \in S : values[n] \in {0, 1}
  PROVE  Settings(SetToSeq(S), values) \in Seq(SetsOf(S))
<1> DEFINE names == SetToSeq(S)
           call(k) == [op |-> "set", pairs |-> <<<<names[k], values[names[k]]>>>>]
<1>1. names \in [1..Cardinality(S) -> S] /\ Cardinality(S) \in Nat
  BY ExportedAssumption, SetToSeqType
<1> HIDE DEF names
<1>2. ASSUME NEW k \in 1..Cardinality(S) PROVE call(k) \in SetsOf(S)
  <2>1. names[k] \in S
    BY <1>1
  <2>2. values[names[k]] \in {0, 1}
    BY <2>1
  <2> QED BY <2>1, <2>2 DEF SetsOf
<1>3. [k \in 1..Cardinality(S) |-> call(k)] \in Seq(SetsOf(S))
  <2> HIDE DEF call
  <2> QED BY <1>1, <1>2, IsASeq
<1>4. DOMAIN names = 1..Cardinality(S)
  BY <1>1
<1> QED BY <1>3, <1>4 DEF Settings, names

(* What the host reads.                                                    *)
LEMMA ReadingsType == Readings \in Seq(Reads)
<1> DEFINE n == Cardinality(OutputNames)
           call(k) == [op |-> "get", name |-> SetToSeq(OutputNames)[k]]
<1>1. n \in Nat /\ SetToSeq(OutputNames) \in [1..n -> OutputNames]
  BY ExportedAssumption, SetToSeqType
<1>2. \A k \in 1..n : call(k) \in Reads
  BY <1>1 DEF Reads
<1>3. [k \in 1..n |-> call(k)] \in Seq(Reads)
  <2> HIDE DEF call
  <2> QED BY <1>1, <1>2, IsASeq
<1> QED BY <1>3 DEF Readings

(* What is left of a run or of a step frees nothing.                       *)
LEMMA PartsArePlain ==
  /\ \A S \in SUBSET Imported : Seq(SetsOf(S)) \subseteq Seq(PlainCalls)
  /\ Seq(Reads) \subseteq Seq(PlainCalls) /\ Initialize \in Seq(PlainCalls)
  /\ [op |-> "enter", start |-> 0, stop |-> Horizon] \in PlainCalls
  /\ [op |-> "exit"] \in PlainCalls /\ [op |-> "reset"] \in PlainCalls
  /\ \A p \in Int, size \in {1, 2} :
       [op |-> "step", current |-> p, size |-> size] \in PlainCalls
<1>1. ASSUME NEW S \in SUBSET Imported PROVE SetsOf(S) \subseteq PlainCalls
  <2>1. ASSUME NEW n \in S, NEW v \in {0, 1} PROVE << <<n, v>> >> \in Seq(Names \X {0, 1})
    <3>1. n \in Names
      BY DEF Imported, Names
    <3> QED BY <3>1
  <2>2. {<< <<n, v>> >> : n \in S, v \in {0, 1}} \subseteq Seq(Names \X {0, 1})
    <3> DEFINE one(n, v) == << <<n, v>> >>
    <3>1. \A n \in S, v \in {0, 1} : one(n, v) \in Seq(Names \X {0, 1})
      BY <2>1
    <3> HIDE DEF one
    <3>2. {one(n, v) : n \in S, v \in {0, 1}} \subseteq Seq(Names \X {0, 1})
      BY <3>1
    <3> QED BY <3>2 DEF one
  <2>3. ASSUME NEW c \in SetsOf(S)
        PROVE  c \in [op : {"set"}, pairs : Seq(Names \X {0, 1})]
    <3>1. \A P, Q : P \subseteq Q => [op : {"set"}, pairs : P] \subseteq [op : {"set"}, pairs : Q]
      OBVIOUS
    <3> QED BY <2>2, <3>1 DEF SetsOf
  <2> QED BY <2>3 DEF PlainCalls
<1>2. Reads \subseteq PlainCalls
  BY DEF Reads, PlainCalls
<1>3. \A P, Q : P \subseteq Q => Seq(P) \subseteq Seq(Q)
  OBVIOUS
<1>4. Initialize \in Seq(PlainCalls)
  BY DEF Initialize, PlainCalls
<1> QED BY <1>1, <1>2, <1>3, <1>4 DEF PlainCalls

(* A first run, a later one and a step.                                    *)
LEMMA ScriptsArePlain ==
  ASSUME inputs \in [InputNames -> {0, 1}], point \in Int
  PROVE  /\ Script \in Seq(PlainCalls) /\ <<[op |-> "reset"]>> \o Script \in Seq(PlainCalls)
         /\ << >> \o Script \in Seq(PlainCalls)
         /\ \A size \in {1, 2} : StepScript(size) \in Seq(PlainCalls)
<1>1. Settings(SetToSeq(InputNames), inputs) \in Seq(PlainCalls)
  BY SettingsType, PartsArePlain DEF Imported
<1>2. Settings(SetToSeq(ParameterNames), StartValues) \in Seq(PlainCalls)
  BY ExportedAssumption, SettingsType, PartsArePlain DEF Values, Names, Imported
<1>3. Initialize \in Seq(PlainCalls)
  BY PartsArePlain
<1>10. Readings \in Seq(PlainCalls)
  BY ReadingsType, PartsArePlain
<1>4. <<[op |-> "reset"]>> \in Seq(PlainCalls)
  BY DEF PlainCalls
<1>5. \A size \in {1, 2} : <<[op |-> "step", current |-> point, size |-> size]>> \in Seq(PlainCalls)
  BY DEF PlainCalls
<1>6. \A s, t \in Seq(PlainCalls) : s \o t \in Seq(PlainCalls)
  BY ConcatProperties
<1>7. Script \in Seq(PlainCalls)
  BY <1>1, <1>2, <1>3, <1>6, <1>10 DEF Script
<1>8. << >> \in Seq(PlainCalls)
  OBVIOUS
<1>9. ASSUME NEW size \in {1, 2} PROVE StepScript(size) \in Seq(PlainCalls)
  BY <1>1, <1>5, <1>6, <1>10 DEF StepScript
<1> QED BY <1>4, <1>6, <1>7, <1>8, <1>9

(* They leave the checkpoints alone.                                       *)
LEMMA PlainCallsSpare ==
  ASSUME NEW c \in PlainCalls
  PROVE  /\ c.op \in SparingOps \ {"restore", "serialize"}
         /\ c.op = "set" => c.pairs \in Seq(Names \X {0, 1})
         /\ c.op = "step" => c.current + c.size \in Int
BY DEF PlainCalls, SparingOps

(* Nothing is left of calls that free no checkpoint.                       *)
LEMMA PlainTail ==
  ASSUME NEW cs \in Seq(PlainCalls), cs # << >>
  PROVE  /\ Head(cs) \in PlainCalls /\ Tail(cs) \in Seq(PlainCalls)
         /\ LeftAfterFailure(Tail(cs)) = << >> /\ << >> \in Seq(PlainCalls)
<1>1. Head(cs) \in PlainCalls /\ Tail(cs) \in Seq(PlainCalls)
  BY HeadTailProperties
<1> DEFINE tl == Tail(cs)
<1>2. tl # << >> => tl[Len(tl)] \in PlainCalls
  <2> HIDE DEF tl
  <2>1. tl \in Seq(PlainCalls)
    BY <1>1 DEF tl
  <2>2. Len(tl) \in Nat /\ (Len(tl) = 0 => tl = << >>)
    BY <2>1
  <2> QED BY <2>1, <2>2
<1>3. tl # << >> => tl[Len(tl)].op # "release"
  BY <1>2, PlainCallsSpare DEF SparingOps
<1> HIDE DEF tl
<1>4. LeftAfterFailure(tl) = << >>
  BY <1>3 DEF LeftAfterFailure
<1>5. << >> \in Seq(PlainCalls)
  OBVIOUS
<1> QED BY <1>1, <1>4, <1>5 DEF tl

-----------------------------------------------------------------------------
(* A step keeps the invariant.                                             *)

(* What is left of short scripts.                                          *)
LEMMA ShortTails ==
  ASSUME NEW a, NEW b, NEW d
  PROVE  /\ Head(<<a, b, d>>) = a /\ Tail(<<a, b, d>>) = <<b, d>>
         /\ Head(<<b, d>>) = b /\ Tail(<<b, d>>) = <<d>>
         /\ Head(<<d>>) = d /\ Tail(<<d>>) = << >>
         /\ d.op = "release" => /\ LeftAfterFailure(<<b, d>>) = <<d>>
                                /\ LeftAfterFailure(<<d>>) = <<d>>
<1>1. <<b, d>> # << >> /\ Len(<<b, d>>) = 2 /\ <<d>> # << >> /\ Len(<<d>>) = 1
  OBVIOUS
<1>2. d.op = "release" => LeftAfterFailure(<<b, d>>) = <<d>> /\ LeftAfterFailure(<<d>>) = <<d>>
  BY <1>1 DEF LeftAfterFailure
<1> QED BY <1>2

(* The calls of a save or a restoration, one by one.                       *)
SecondOf(op, s) == IF op = "save" THEN [op |-> "serialize"] ELSE [op |-> "restore", holder |-> s]

LEMMA ScriptParts ==
  ASSUME NEW s, NEW h, NEW cs \in {SaveScript(s, h), RestoreScript(s, h)}
  PROVE  LET first == Head(cs)
         IN  /\ first.op = IF cs = SaveScript(s, h) THEN "save" ELSE "deserialize"
             /\ first.holder = s /\ first.handle = h
             /\ Tail(cs) = <<SecondOf(first.op, s), ReleaseOf(s)>>
             /\ LeftAfterFailure(Tail(cs)) = <<ReleaseOf(s)>>
<1> DEFINE a1 == [op |-> "save", holder |-> s, handle |-> h]
           a2 == [op |-> "deserialize", holder |-> s, handle |-> h]
           b1 == [op |-> "serialize"]
           b2 == [op |-> "restore", holder |-> s]
           d == ReleaseOf(s)
<1>1. SaveScript(s, h) = <<a1, b1, d>> /\ RestoreScript(s, h) = <<a2, b2, d>>
  BY DEF SaveScript, RestoreScript, ReleaseOf
<1>2. /\ a1.op = "save" /\ a2.op = "deserialize" /\ d.op = "release"
      /\ a1.holder = s /\ a2.holder = s /\ a1.handle = h /\ a2.handle = h
      /\ b1 = SecondOf("save", s) /\ b2 = SecondOf("deserialize", s)
  BY DEF ReleaseOf, SecondOf
<1>3. d = ReleaseOf(s)
  OBVIOUS
<1> HIDE DEF a1, a2, b1, b2, d
<1>4. /\ Head(SaveScript(s, h)) = a1 /\ Tail(SaveScript(s, h)) = <<b1, d>>
      /\ Head(RestoreScript(s, h)) = a2 /\ Tail(RestoreScript(s, h)) = <<b2, d>>
  BY <1>1, ShortTails
<1>5. LeftAfterFailure(<<b1, d>>) = <<d>> /\ LeftAfterFailure(<<b2, d>>) = <<d>>
  BY <1>2, ShortTails
<1>6. RestoreScript(s, h) # SaveScript(s, h)
  BY <1>2, <1>4
<1>7. CASE cs = SaveScript(s, h)
  BY <1>2, <1>3, <1>4, <1>5, <1>7
<1>8. CASE cs = RestoreScript(s, h)
  BY <1>2, <1>3, <1>4, <1>5, <1>6, <1>8
<1> QED BY <1>7, <1>8

(* Half way, two calls are left, or the release.                           *)
LEMMA HalfWayPairs ==
  ASSUME NEW s, NEW h, NEW cs \in HalfWay(s, h), cs # <<ReleaseOf(s)>>
  PROVE  \E op \in {"save", "deserialize"} :
           /\ cs = Tail(IF op = "save" THEN SaveScript(s, h) ELSE RestoreScript(s, h))
           /\ cs = <<SecondOf(op, s), ReleaseOf(s)>>
<1>1. CASE cs = Tail(SaveScript(s, h))
  <2>1. /\ Head(SaveScript(s, h)).op = "save"
        /\ Tail(SaveScript(s, h)) = <<SecondOf(Head(SaveScript(s, h)).op, s), ReleaseOf(s)>>
    BY ScriptParts
  <2> QED BY <1>1, <2>1
<1>2. CASE cs = Tail(RestoreScript(s, h))
  <2>1. /\ Head(RestoreScript(s, h)).op = "deserialize"
        /\ Tail(RestoreScript(s, h)) = <<SecondOf(Head(RestoreScript(s, h)).op, s), ReleaseOf(s)>>
    <3>1. SaveScript(s, h) # RestoreScript(s, h)
      BY DEF SaveScript, RestoreScript
    <3> QED BY <3>1, ScriptParts
  <2> QED BY <1>2, <2>1
<1> QED BY <1>1, <1>2 DEF HalfWay

(* Half way, what is left is the release, now or next.                     *)
LEMMA HalfWayParts ==
  ASSUME NEW s, NEW h, NEW cs \in HalfWay(s, h)
  PROVE  \/ cs = <<ReleaseOf(s)>>
         \/ /\ \E op \in {"save", "deserialize"} : Head(cs) = SecondOf(op, s)
            /\ Head(cs).op \in {"serialize", "restore"}
            /\ Tail(cs) = <<ReleaseOf(s)>> /\ LeftAfterFailure(Tail(cs)) = <<ReleaseOf(s)>>
<1>1. SUFFICES ASSUME cs # <<ReleaseOf(s)>>
               PROVE  /\ \E op \in {"save", "deserialize"} : Head(cs) = SecondOf(op, s)
                      /\ Tail(cs) = <<ReleaseOf(s)>>
                      /\ LeftAfterFailure(Tail(cs)) = <<ReleaseOf(s)>>
  BY DEF SecondOf
<1>2. PICK op \in {"save", "deserialize"} : cs = <<SecondOf(op, s), ReleaseOf(s)>>
  BY <1>1, HalfWayPairs
<1>3. ReleaseOf(s).op = "release"
  BY DEF ReleaseOf
<1> QED BY <1>2, <1>3, ShortTails

(* Between two calls of the engine its host holds no checkpoint.           *)
LEMMA IdleHoldsNothing ==
  ASSUME HostHolds, Idle
  PROVE  NoneHeldBut({})
<1>1. \A s, h : \A cs \in HalfWay(s, h) \cup {SaveScript(s, h), RestoreScript(s, h)} : cs # << >>
  BY DEF HalfWay, SaveScript, RestoreScript
<1> QED BY <1>1 DEF HostHolds, Idle

(* Any importer.                                                           *)
LEMMA FreeCallKeeps ==
  ASSUME HeldInv, NEW c \in FreeCalls, Call(c)
  PROVE  HeldInv'
<1>1. PICK o \in Called(unit, c) : Answer(c, o)
  BY DEF Call
<1>2. ASSUME c.op \notin {"save", "release"} PROVE Kept'
  <2>1. c.op \in SparingOps /\ (c.op = "set" => c.pairs \in Seq(Names \X {0, 1}))
    BY <1>2, ExportedAssumption DEF FreeCalls, SparingOps
  <2> QED BY <1>1, <2>1, SparingCall DEF HeldInv
<1>3. ASSUME c.op = "save" PROVE Kept'
  <2>1. c.holder \in Holders /\ c.handle \in Handles
    BY <1>3 DEF FreeCalls
  <2> QED BY <1>1, <1>3, <2>1, TakingCall DEF HeldInv, Call
<1>4. ASSUME c.op = "release" PROVE Kept'
  <2>1. c.holder \in Holders
    BY <1>4 DEF FreeCalls
  <2> QED BY <1>1, <1>4, <2>1, FreeingCall DEF HeldInv
<1>5. Kept'
  BY <1>2, <1>3, <1>4
<1> QED BY <1>5 DEF Call, HeldInv, HostHolds, RestoresBytes

(* A panic damages the engine, not the checkpoints.                        *)
LEMMA PanicKeeps ==
  ASSUME Kept, unit' \in Damaged(unit), UNCHANGED <<held, views>>
  PROVE  Kept'
<1>1. PICK w : unit' = [Poisoned(unit) EXCEPT !.engine = [unit.engine EXCEPT !.values = w]]
  BY DEF Damaged
<1>2. IsInstance(Poisoned(unit)) /\ Poisoned(unit).states = unit.states
  BY PoisonedFields DEF Kept
<1>3. IsInstance(unit)' /\ unit'.states = unit.states
  BY <1>1, <1>2 DEF IsInstance, UnitFields
<1> QED BY <1>3 DEF Kept

(* A call of the host, in each of its outcomes.                            *)
LEMMA HostCallKeeps ==
  ASSUME HeldInv, HostCall
  PROVE  HeldInv'
<1> DEFINE c == Head(todo)
<1>0. todo # << >> /\ host # "free" /\ Possible(c)
  BY DEF HeldInv, HostCall
<1>1. PICK o \in Called(unit, c) :
        /\ Answer(c, o)
        /\ todo' = IF o.ok THEN Tail(todo) ELSE LeftAfterFailure(Tail(todo))
        /\ host' \in {"failed", "running", host}
        /\ point' = CASE o.ok /\ c.op = "step" -> c.current + c.size
                      [] o.ok /\ c.op = "restore" -> bytes.point
                      [] OTHER -> point
        /\ bytes' = IF o.ok /\ c.op = "serialize"
                    THEN [view |-> unit.states[held[todo[2].holder]], point |-> point]
                    ELSE bytes
  BY DEF HostCall
<1> HIDE DEF c
<1>2. CASE NoneHeldBut({}) /\ todo \in Seq(PlainCalls)
  <2>1. c \in PlainCalls /\ todo' \in Seq(PlainCalls)
    BY <1>0, <1>1, <1>2, PlainTail DEF c
  <2>2. Kept' /\ held' = held
    BY <1>1, <2>1, PlainCallsSpare, SparingCall DEF HeldInv
  <2>3. HostHolds'
    BY <1>2, <2>1, <2>2 DEF HostHolds, NoneHeldBut
  <2>4. point' \in Int /\ bytes' = bytes
    BY <1>1, <2>1, PlainCallsSpare DEF HeldInv
  <2>5. RestoresBytes'
    BY <2>1, PlainTail, PlainCallsSpare DEF RestoresBytes, SparingOps
  <2> QED BY <1>0, <1>1, <2>2, <2>3, <2>4, <2>5 DEF HeldInv, HostCall
<1>3. ASSUME NEW s \in Holders, NEW h \in Handles, NoneHeldBut({}),
             todo \in {SaveScript(s, h), RestoreScript(s, h)}
      PROVE  HeldInv'
  <2>1. /\ c.op \in {"save", "deserialize"} /\ c.holder = s /\ c.handle = h
        /\ Tail(todo) \in HalfWay(s, h)
        /\ Tail(todo) = <<SecondOf(c.op, s), ReleaseOf(s)>>
        /\ LeftAfterFailure(Tail(todo)) = <<ReleaseOf(s)>>
    BY <1>3, ScriptParts DEF c, HalfWay
  <2>0. c.op = "deserialize" => held[s] = Void /\ IsView(bytes.view)
    BY <1>0, <1>3 DEF HeldInv, NoneHeldBut, RestoresBytes, c
  <2>2. Kept' /\ held' = IF o.ok THEN [held EXCEPT ![s] = h] ELSE held
    BY <1>0, <1>1, <2>0, <2>1, TakingCall DEF HeldInv
  <2>3. NoneHeldBut({s})'
    BY <1>3, <2>2 DEF NoneHeldBut
  <2>4. todo' \in HalfWay(s, h) /\ (held'[s] = Void => todo' = <<ReleaseOf(s)>>)
    BY <1>1, <2>1, <2>2, ExportedAssumption DEF HalfWay, HeldInv, Kept
  <2>5. point' = point /\ bytes' = bytes /\ inputs' = inputs
    BY <1>1, <2>1 DEF HostCall
  <2>6. RestoresBytes'
    <3>1. todo' \in {Tail(todo), <<ReleaseOf(s)>>}
      BY <1>1, <2>1
    <3>2. c.op = "deserialize" => bytes # Void
      BY <1>0 DEF HeldInv, RestoresBytes, c
    <3>3. /\ Head(<<SecondOf(c.op, s), ReleaseOf(s)>>) = SecondOf(c.op, s)
          /\ Head(<<ReleaseOf(s)>>).op = "release"
      BY ShortTails DEF ReleaseOf
    <3>4. c.op = "save" => SecondOf(c.op, s).op = "serialize"
      BY DEF SecondOf
    <3> QED BY <2>1, <2>5, <3>1, <3>2, <3>3, <3>4 DEF RestoresBytes
  <2> QED BY <1>0, <1>1, <2>2, <2>3, <2>4, <2>5, <2>6 DEF HeldInv, HostHolds
<1>4. ASSUME NEW s \in Holders, NEW h \in Handles, NoneHeldBut({s}), todo \in HalfWay(s, h),
             held[s] = Void => todo = <<ReleaseOf(s)>>
      PROVE  HeldInv'
  <2>1. CASE todo = <<ReleaseOf(s)>>
    <3>1. c.op = "release" /\ c.holder = s /\ Tail(todo) = << >>
      BY <2>1 DEF c, ReleaseOf
    <3>2. Kept' /\ o.ok /\ held' = [held EXCEPT ![s] = Void]
      BY <1>1, <3>1, FreeingCall DEF HeldInv
    <3>3. NoneHeldBut({})' /\ todo' \in Seq(PlainCalls)
      <4>1. NoneHeldBut({})'
        BY <1>4, <3>2 DEF NoneHeldBut, HeldInv, Kept
      <4>2. todo' = << >>
        BY <1>1, <3>1, <3>2
      <4> QED BY <4>1, <4>2
    <3>4. point' = point /\ bytes' = bytes /\ inputs' = inputs /\ todo' = << >>
      BY <1>1, <3>1, <3>2 DEF HostCall
    <3> QED BY <1>0, <1>1, <3>2, <3>3, <3>4 DEF HeldInv, HostHolds, RestoresBytes
  <2>2. CASE todo # <<ReleaseOf(s)>>
    <3>1. /\ c.op \in {"serialize", "restore"} /\ Tail(todo) = <<ReleaseOf(s)>>
          /\ LeftAfterFailure(Tail(todo)) = <<ReleaseOf(s)>>
      BY <1>4, <2>2, HalfWayParts DEF c
    <3>2. Kept' /\ held' = held
      BY <1>1, <3>1, SparingCall DEF HeldInv, SparingOps
    <3>3. NoneHeldBut({s})' /\ todo' \in HalfWay(s, h) /\ todo' = <<ReleaseOf(s)>>
      <4>1. todo' = <<ReleaseOf(s)>>
        BY <1>1, <3>1
      <4> QED BY <1>4, <3>2, <4>1 DEF NoneHeldBut, HalfWay
    <3>4. c.op = "restore" => bytes # Void
      BY <1>0 DEF HeldInv, RestoresBytes, c
    <3>5. /\ point' \in Int /\ inputs' = inputs
          /\ bytes' # Void => bytes'.point \in Int /\ IsView(bytes'.view)
      <4>1. held[s] \in DOMAIN unit.states
        BY <1>4, <2>2 DEF HeldInv, Kept
      <4>2. todo[2].holder = s
        <5>1. \A a, b : <<a, b>>[2] = b /\ Len(<<a, b>>) = 2
          OBVIOUS
        <5>2. \E a : todo = <<a, ReleaseOf(s)>>
          BY <1>4, <2>2, HalfWayPairs
        <5> QED BY <5>1, <5>2 DEF ReleaseOf
      <4>3. IsView(unit.states[held[todo[2].holder]])
        BY <4>1, <4>2 DEF HeldInv, Kept, IsInstance
      <4> QED BY <1>1, <3>1, <3>4, <4>3 DEF HostCall, HeldInv
    <3>6. RestoresBytes'
      <4>1. todo' = <<ReleaseOf(s)>> /\ Head(<<ReleaseOf(s)>>).op = "release"
        BY <1>1, <3>1 DEF ReleaseOf
      <4> QED BY <4>1 DEF RestoresBytes
    <3> QED BY <1>0, <1>1, <3>2, <3>3, <3>5, <3>6 DEF HeldInv, HostHolds
  <2> QED BY <2>1, <2>2
<1> QED BY <1>0, <1>2, <1>3, <1>4 DEF HeldInv, HostHolds

(* A panic ends the script, which held nothing then.                       *)
LEMMA HostPanicKeeps ==
  ASSUME HeldInv, HostPanic
  PROVE  HeldInv'
<1>1. todo # << >> /\ Head(todo).op \in {"set", "step"}
  BY DEF HostPanic, RunsTheEngine
<1>2. ASSUME NEW s, NEW h, todo \in HalfWay(s, h) \cup {SaveScript(s, h), RestoreScript(s, h)}
      PROVE  FALSE
  <2>1. todo = <<ReleaseOf(s)>> => Head(todo).op = "release"
    BY DEF ReleaseOf
  <2> QED BY <1>1, <1>2, <2>1, ScriptParts, HalfWayParts
<1>3. NoneHeldBut({})
  BY <1>1, <1>2 DEF HeldInv, HostHolds
<1>4. Kept' /\ NoneHeldBut({})' /\ todo' \in Seq(PlainCalls)
  BY <1>3, PanicKeeps DEF HostPanic, HeldInv, NoneHeldBut
<1> QED BY <1>4 DEF HostPanic, HeldInv, HostHolds, RestoresBytes

(* What the host may be left with once it began something.                 *)
Askable(script) ==
  \/ script \in Seq(PlainCalls)
  \/ \E s \in Holders, h \in Handles :
       script = SaveScript(s, h) \/ (bytes # Void /\ script = RestoreScript(s, h))

(* What the host may begin.                                                *)
LEMMA HostAsksKeeps ==
  ASSUME HeldInv, NEW script, Asks(script), point' \in Int, host' # "free", UNCHANGED unit,
         Askable(script)
  PROVE  HeldInv'
<1>1. NoneHeldBut({})
  BY IdleHoldsNothing DEF Asks, HeldInv
<1>2. UNCHANGED <<held, inputs, bytes>> /\ todo' = script
  BY DEF Asks
<1>3. Kept'
  BY KeptAlone DEF HeldInv, Asks
<1>4. NoneHeldBut({})'
  BY <1>1, <1>2 DEF NoneHeldBut
<1>5. HostHolds'
  BY <1>2, <1>4 DEF HostHolds, Askable
<1>6. RestoresBytes'
  <2>1. CASE script \in Seq(PlainCalls)
    BY <1>2, <2>1, PlainTail, PlainCallsSpare DEF RestoresBytes, SparingOps
  <2>2. CASE \E s \in Holders, h \in Handles :
               script = SaveScript(s, h) \/ (bytes # Void /\ script = RestoreScript(s, h))
    BY <1>2, <2>2, ScriptParts DEF RestoresBytes
  <2> QED BY <2>1, <2>2 DEF Askable
<1> QED BY <1>2, <1>3, <1>5, <1>6 DEF HeldInv

(* Initially there is no checkpoint.                                       *)
LEMMA HeldInit == XInit => HeldInv
<1> SUFFICES ASSUME XInit PROVE HeldInv
  OBVIOUS
<1>1. IsInstance(unit) /\ DOMAIN unit.states = {}
  <2>1. [n \in {} |-> 0] \in [{} -> {0, 1}] /\ {} \in SUBSET Imported
    OBVIOUS
  <2>2. [n \in {} |-> 0] \in Pendings
    BY <2>1 DEF Pendings
  <2>3. /\ unit.pending = [n \in {} |-> 0] /\ DOMAIN unit.states = {}
        /\ unit = [x \in UnitFields |-> unit[x]]
    BY DEF XInit, Fresh, UnitFields
  <2> QED BY <2>2, <2>3 DEF IsInstance
<1>2. /\ held = [s \in Holders |-> Void] /\ todo = << >> /\ point = 0 /\ bytes = Void
      /\ views = [h \in Handles |-> Void]
  BY DEF XInit
<1>3. Kept
  BY <1>1, <1>2 DEF Kept
<1>4. inputs \in [InputNames -> {0, 1}]
  BY ExportedAssumption DEF XInit, Values, Names
<1>5. HostHolds
  BY <1>2 DEF HostHolds, NoneHeldBut
<1> QED BY <1>2, <1>3, <1>4, <1>5 DEF HeldInv, RestoresBytes

(* Every step of an importer or of the host.                               *)
LEMMA HeldNext == HeldInv /\ [XNext]_xvars => HeldInv'
<1> SUFFICES ASSUME HeldInv, [XNext]_xvars PROVE HeldInv'
  OBVIOUS
<1>1. ASSUME NEW c \in FreeCalls, Call(c) \/ Panic(c) PROVE HeldInv'
  <2>1. CASE Panic(c)
    <3>1. Kept'
      BY <2>1, PanicKeeps DEF HeldInv, Panic
    <3> QED BY <2>1, <3>1 DEF Panic, HeldInv, HostHolds, RestoresBytes
  <2> QED BY <1>1, <2>1, FreeCallKeeps
<1>2. CASE HostStart
  <2>1. (IF host = "off" THEN << >> ELSE <<[op |-> "reset"]>>) \o Script \in Seq(PlainCalls)
    BY ScriptsArePlain DEF HeldInv
  <2>2. PICK script \in Seq(PlainCalls) : Asks(script)
    BY <1>2, <2>1 DEF HostStart
  <2> QED BY <1>2, <2>2, HostAsksKeeps DEF HostStart, Askable
<1>3. CASE HostCall
  BY <1>3, HostCallKeeps
<1>4. CASE HostPanic
  BY <1>4, HostPanicKeeps
<1>5. ASSUME NEW size \in {1, 2}, HostStep(size) PROVE HeldInv'
  <2>1. StepScript(size) \in Seq(PlainCalls)
    BY ScriptsArePlain DEF HeldInv
  <2> QED BY <1>5, <2>1, HostAsksKeeps DEF HostStep, HeldInv, Askable
<1>6. ASSUME NEW s \in Holders, NEW h \in Handles, HostSave(s, h) \/ HostRestore(s, h)
      PROVE  HeldInv'
  <2>1. CASE HostSave(s, h)
    <3>1. Asks(SaveScript(s, h)) /\ Askable(SaveScript(s, h))
      BY <2>1 DEF HostSave, Askable
    <3>2. point' \in Int /\ host' # "free" /\ UNCHANGED unit
      BY <2>1 DEF HostSave, HeldInv
    <3> QED BY <3>1, <3>2, HostAsksKeeps
  <2>2. CASE HostRestore(s, h)
    <3>1. Asks(RestoreScript(s, h)) /\ Askable(RestoreScript(s, h))
      BY <2>2 DEF HostRestore, Askable
    <3>2. point' \in Int /\ host' # "free" /\ UNCHANGED unit /\ bytes # Void
      BY <2>2 DEF HostRestore, HeldInv
    <3> QED BY <3>1, <3>2, HostAsksKeeps
  <2> QED BY <1>6, <2>1, <2>2
<1>7. ASSUME NEW n \in InputNames, HostInput(n) PROVE HeldInv'
  <2>1. inputs' \in [InputNames -> {0, 1}]
    BY <1>7 DEF HostInput, HeldInv
  <2>2. UNCHANGED <<unit, held, views, todo, host, point, bytes>>
    BY <1>7 DEF HostInput
  <2>3. Kept'
    BY <2>2, KeptAlone DEF HeldInv
  <2> QED BY <2>1, <2>2, <2>3 DEF HeldInv, HostHolds, NoneHeldBut, RestoresBytes
<1>8. CASE UNCHANGED xvars
  <2>1. UNCHANGED <<unit, held, views>>
    BY <1>8 DEF xvars
  <2>2. Kept'
    BY <2>1, KeptAlone DEF HeldInv
  <2>3. UNCHANGED <<held, todo, host, point, inputs, bytes>>
    BY <1>8 DEF xvars
  <2> QED BY <2>2, <2>3 DEF HeldInv, HostHolds, NoneHeldBut, RestoresBytes
<1> QED BY <1>1, <1>2, <1>3, <1>4, <1>5, <1>6, <1>7, <1>8 DEF XNext

(* The invariant says more than the property.                              *)
LEMMA HeldInvHolds == HeldInv => CheckpointsAreHeld
<1> SUFFICES ASSUME HeldInv PROVE CheckpointsAreHeld
  OBVIOUS
<1>1. Idle => NoneHeldBut({})
  BY IdleHoldsNothing DEF HeldInv
<1> QED BY <1>1 DEF HeldInv, Kept, NoneHeldBut, CheckpointsAreHeld

(* The caller holds the checkpoints that exist, each at one place, and its *)
(* host holds none between two calls: whatever any importer calls, in any  *)
(* order, and run after run of a host whose calls fail or panic half way   *)
(* (entry.rs:259-307, cosim.rs:280-447).                                   *)
THEOREM CheckpointsTheorem == XInit /\ [][XNext]_xvars => []CheckpointsAreHeld
<1>1. XInit /\ [][XNext]_xvars => []HeldInv
  BY HeldInit, HeldNext, PTL
<1> QED BY <1>1, HeldInvHolds, PTL

(* The engine after each of the values that are handed over once it is     *)
(* built: the recursion is well defined.                                   *)
LEMMA HandedSteps ==
  ASSUME NEW p, NEW X, NEW order \in Seq(X)
  PROVE  \E upTo : /\ upTo[0] = Initialised(p)
                   /\ \A k \in 1..Len(order) :
                        upTo[k] = Given(upTo[k - 1], order[k], p.pending[order[k]])
                   /\ Handed(p, order) = upTo[Len(order)]
<1> DEFINE n == Len(order)
           at(m, f) == [k \in 0..m |-> IF k = 0 THEN Initialised(p)
                                       ELSE Given(f[k - 1], order[k], p.pending[order[k]])]
           Missing == {m \in Nat : ~ \E f : f = at(m, f)}
           all == CHOOSE f : f = at(n, f)
<1>0. n \in Nat
  OBVIOUS
<1>1. Missing = {}
  <2> SUFFICES ASSUME Missing # {} PROVE FALSE
    OBVIOUS
  <2>1. PICK m \in Missing : \A q \in Missing : ~(<<q, m>> \in OpToRel(<, Nat))
    BY NatLessThanWellFounded, WFMin
  <2>2. m # 0
    <3> DEFINE f == [k \in 0..0 |-> Initialised(p)]
    <3>1. f = at(0, f)
      OBVIOUS
    <3>2. \E g : g = at(0, g)
      BY <3>1
    <3> HIDE DEF f, at
    <3> QED BY <2>1, <3>2
  <2>3. m - 1 \in Nat /\ <<m - 1, m>> \in OpToRel(<, Nat)
    BY <2>1, <2>2 DEF OpToRel
  <2>4. PICK f : f = at(m - 1, f)
    <3> HIDE DEF at
    <3> QED BY <2>1, <2>3
  <2> DEFINE g == [k \in 0..m |-> IF k <= m - 1 THEN f[k] ELSE Given(f[m - 1], order[m], p.pending[order[m]])]
  <2>5. \A k \in 0..(m - 1) : f[k] = IF k = 0 THEN Initialised(p) ELSE Given(f[k - 1], order[k], p.pending[order[k]])
    BY <2>4
  <2>6. \A k \in 0..m : g[k] = IF k = 0 THEN Initialised(p) ELSE Given(g[k - 1], order[k], p.pending[order[k]])
    <3> SUFFICES ASSUME NEW k \in 0..m
                 PROVE  g[k] = IF k = 0 THEN Initialised(p) ELSE Given(g[k - 1], order[k], p.pending[order[k]])
      OBVIOUS
    <3>1. m \in Nat /\ m # 0
      BY <2>1, <2>2
    <3>2. CASE k = m
      BY <3>1, <3>2
    <3>3. CASE k # m
      <4>1. k \in 0..(m - 1) /\ g[k] = f[k]
        BY <3>1, <3>3
      <4>2. k # 0 => g[k - 1] = f[k - 1]
        BY <3>1, <4>1
      <4> HIDE DEF g
      <4> QED BY <2>5, <4>1, <4>2
    <3> QED BY <3>2, <3>3
  <2>7. g = at(m, g)
    <3>1. g = [k \in 0..m |-> g[k]]
      OBVIOUS
    <3> HIDE DEF g
    <3> QED BY <2>6, <3>1
  <2>8. \E h : h = at(m, h)
    <3> HIDE DEF at, g
    <3> QED BY <2>7
  <2> HIDE DEF at, g
  <2> QED BY <2>1, <2>8
<1>2. all = at(n, all)
  <2>1. \E f : f = at(n, f)
    <3> HIDE DEF at
    <3> QED BY <1>0, <1>1
  <2> HIDE DEF at
  <2> QED BY <2>1
<1>3. Handed(p, order) = all[n]
  BY DEF Handed
<1>4. all[0] = Initialised(p) /\ \A k \in 1..n : all[k] = Given(all[k - 1], order[k], p.pending[order[k]])
  <2> HIDE DEF all
  <2>1. \A k \in 0..n : all[k] = IF k = 0 THEN Initialised(p) ELSE Given(all[k - 1], order[k], p.pending[order[k]])
    BY <1>0, <1>2
  <2> QED BY <1>0, <2>1
<1> HIDE DEF all
<1> QED BY <1>3, <1>4

(* The engine after each unit of time: the recursion is well defined.      *)
LEMMA AdvancedSteps ==
  ASSUME NEW e, NEW date, e # Void, ~(date > e.stop), date - e.now \in Nat
  PROVE  \E after : /\ after[0] = e
                    /\ \A k \in 1..(date - e.now) : after[k] = Passed(after[k - 1])
                    /\ AdvancedTo(e, date) = after[date - e.now]
<1> DEFINE n == date - e.now
           at(m, f) == [k \in 0..m |-> IF k = 0 THEN e
                                       ELSE Passed(f[k - 1])]
           Missing == {m \in Nat : ~ \E f : f = at(m, f)}
           all == CHOOSE f : f = at(n, f)
<1>0. n \in Nat
  OBVIOUS
<1>1. Missing = {}
  <2> SUFFICES ASSUME Missing # {} PROVE FALSE
    OBVIOUS
  <2>1. PICK m \in Missing : \A q \in Missing : ~(<<q, m>> \in OpToRel(<, Nat))
    BY NatLessThanWellFounded, WFMin
  <2>2. m # 0
    <3> DEFINE f == [k \in 0..0 |-> e]
    <3>1. f = at(0, f)
      OBVIOUS
    <3>2. \E g : g = at(0, g)
      BY <3>1
    <3> HIDE DEF f, at
    <3> QED BY <2>1, <3>2
  <2>3. m - 1 \in Nat /\ <<m - 1, m>> \in OpToRel(<, Nat)
    BY <2>1, <2>2 DEF OpToRel
  <2>4. PICK f : f = at(m - 1, f)
    <3> HIDE DEF at
    <3> QED BY <2>1, <2>3
  <2> DEFINE g == [k \in 0..m |-> IF k <= m - 1 THEN f[k] ELSE Passed(f[m - 1])]
  <2>5. \A k \in 0..(m - 1) : f[k] = IF k = 0 THEN e ELSE Passed(f[k - 1])
    BY <2>4
  <2>6. \A k \in 0..m : g[k] = IF k = 0 THEN e ELSE Passed(g[k - 1])
    <3> SUFFICES ASSUME NEW k \in 0..m
                 PROVE  g[k] = IF k = 0 THEN e ELSE Passed(g[k - 1])
      OBVIOUS
    <3>1. m \in Nat /\ m # 0
      BY <2>1, <2>2
    <3>2. CASE k = m
      BY <3>1, <3>2
    <3>3. CASE k # m
      <4>1. k \in 0..(m - 1) /\ g[k] = f[k]
        BY <3>1, <3>3
      <4>2. k # 0 => g[k - 1] = f[k - 1]
        BY <3>1, <4>1
      <4> HIDE DEF g
      <4> QED BY <2>5, <4>1, <4>2
    <3> QED BY <3>2, <3>3
  <2>7. g = at(m, g)
    <3>1. g = [k \in 0..m |-> g[k]]
      OBVIOUS
    <3> HIDE DEF g
    <3> QED BY <2>6, <3>1
  <2>8. \E h : h = at(m, h)
    <3> HIDE DEF at, g
    <3> QED BY <2>7
  <2> HIDE DEF at, g
  <2> QED BY <2>1, <2>8
<1>2. all = at(n, all)
  <2>1. \E f : f = at(n, f)
    <3> HIDE DEF at
    <3> QED BY <1>0, <1>1
  <2> HIDE DEF at
  <2> QED BY <2>1
<1>3. AdvancedTo(e, date) = all[n]
  BY DEF AdvancedTo
<1>4. all[0] = e /\ \A k \in 1..n : all[k] = Passed(all[k - 1])
  <2> HIDE DEF all
  <2>1. \A k \in 0..n : all[k] = IF k = 0 THEN e ELSE Passed(all[k - 1])
    BY <1>0, <1>2
  <2> QED BY <1>0, <2>1
<1> HIDE DEF all
<1> QED BY <1>3, <1>4

(* What an instance is initialised with is typed.                          *)
LEMMA PendingType ==
  ASSUME NEW q \in Pendings
  PROVE  /\ DOMAIN q \subseteq Imported /\ IsFiniteSet(DOMAIN q)
         /\ \A n \in DOMAIN q : q[n] \in {0, 1}
<1>1. PICK S \in SUBSET Imported : q \in [S -> {0, 1}]
  BY DEF Pendings
<1>2. IsFiniteSet(Imported)
  BY ExportedAssumption, FS_Union DEF Imported
<1> QED BY <1>1, <1>2, FS_Subset

(* What is put back is the whole of the view.                              *)
LEMMA RestoredView ==
  ASSUME NEW u, IsInstance(u), NEW s, IsView(s)
  PROVE  View(Restored(u, s)) = s
<1>1. DOMAIN u = UnitFields /\ DOMAIN s = UnitFields \ {"states"}
  BY DEF IsInstance, IsView
<1>2. View(Restored(u, s)) = [x \in UnitFields \ {"states"} |-> s[x]]
  BY <1>1 DEF View, Restored
<1> QED BY <1>2 DEF IsView

(* A restoration, by any importer or by the host: an engine was built for   *)
(* the checkpoint, or the instance is as it was.                            *)
LEMMA RestoringTakesBack ==
  ASSUME HeldInv, NEW h \in Handles, Restoring(h)
  PROVE  \/ View(unit') = views[h]
         \/ Void \in Builds(views[h]) /\ unit' = unit
<1>1. PICK s \in Holders :
        /\ held[s] = h /\ unit.phase \in {"initialization", "step", "error"}
        /\ \/ Call([op |-> "restore", holder |-> s])
           \/ HostCall /\ Head(todo) = [op |-> "restore", holder |-> s]
  BY DEF Restoring
<1> DEFINE c == [op |-> "restore", holder |-> s]
<1>2. PICK o \in Called(unit, c) : unit' = o.unit
  BY <1>1 DEF Call, HostCall, Answer
<1>3. h # Void /\ h \in DOMAIN unit.states
  BY <1>1, ExportedAssumption DEF HeldInv, Kept
<1>4. unit.states[h] = views[h] /\ IsView(views[h]) /\ IsInstance(unit)
  BY <1>3 DEF HeldInv, Kept, IsInstance
<1>5. o \in Restore(unit, h)
  BY <1>1, <1>2, <1>3 DEF Called
<1> HIDE DEF c
<1>6. PICK e \in Builds(views[h]) :
        o \in IF e = Void THEN Refuses(unit) ELSE Accepts(Restored(unit, views[h]))
  BY <1>1, <1>3, <1>4, <1>5 DEF Restore
<1>7. CASE e = Void
  BY <1>2, <1>6, <1>7 DEF Refuses
<1>8. CASE e # Void
  <2>1. o.unit = Restored(unit, views[h])
    BY <1>6, <1>8 DEF Accepts
  <2> QED BY <1>2, <1>4, <2>1, RestoredView
<1> QED BY <1>7, <1>8

(* A checkpoint that the caller holds is taken back whole, whatever it did  *)
(* meanwhile and in whatever order a hash map gives the pending values; if  *)
(* no engine can be built for it in one of the orders it may be refused,    *)
(* and nothing has changed (instance.rs:203-245, 301-343).                  *)
THEOREM TakenBackTheorem == XInit /\ [][XNext]_xvars => TakenBack
<1>1. HeldInv /\ [XNext]_xvars =>
        [\A h \in Handles : Restoring(h) =>
           \/ View(unit') = views[h]
           \/ Void \in Builds(views[h]) /\ unit' = unit]_xvars
  BY RestoringTakesBack
<1>2. XInit /\ [][XNext]_xvars => []HeldInv
  BY HeldInit, HeldNext, PTL
<1> QED BY <1>1, <1>2, PTL DEF TakenBack

-----------------------------------------------------------------------------
(* The calls of a host, one by one.  The inductive invariant: between two  *)
(* calls of the engine the unit is ready for a step from the host's point, *)
(* as is what the host saved, whenever it was; and in between, what is left *)
(* to call is what brings it there.                                        *)

Engines == [now : Nat, stop : {Horizon}, seed : {0}, values : Values]

Early(u) == u.phase = "instantiated" /\ u.engine = Void /\ u.seed = 0

Built(u, ph, now) ==
  u.phase = ph /\ u.engine \in Engines \ {Void} /\ u.engine.now = now /\ u.start = 0

Ready(u, p) == Built(u, "step", p)

Starting(cs) ==
  \E a \in Seq(SetsOf(Imported)), r \in Seq(Reads) : cs = a \o (Initialize \o r)

Stepping(cs) ==
  \E a \in Seq(SetsOf(InputNames)), r \in Seq(Reads), size \in {1, 2} :
    cs = a \o (<<[op |-> "step", current |-> point, size |-> size]>> \o r)

(* A run begins: what the last one left is reset, values are set, the unit *)
(* is initialised.                                                         *)
StartStage ==
  /\ point = 0
  /\ \/ \E cs : Starting(cs) /\ todo = <<[op |-> "reset"]>> \o cs
     \/ Starting(todo) /\ Early(unit)
     \/ \E r \in Seq(Reads) : /\ todo = <<[op |-> "exit"]>> \o r
                              /\ Built(unit, "initialization", 0)

(* A unit that is ready is stepped, read or saved.                         *)
ReadyStage ==
  \/ todo \in Seq(Reads) \/ Stepping(todo)
  \/ \E s \in Holders, h \in Handles :
       \/ todo = SaveScript(s, h) /\ held[s] = Void
       \/ todo = Tail(SaveScript(s, h)) /\ held[s] # Void /\ Ready(unit.states[held[s]], point)

(* What is saved is taken back.                                            *)
BackStage ==
  \/ todo = << >>
  \/ \E s \in Holders, h \in Handles :
       \/ todo = RestoreScript(s, h) /\ held[s] = Void
       \/ todo = Tail(RestoreScript(s, h)) /\ held[s] # Void /\ unit.states[held[s]] = bytes.view
       \/ todo = <<ReleaseOf(s)>>

HostPhases == {"instantiated", "initialization", "step", "error"}

HostStage ==
  \/ host = "off" /\ todo = << >> /\ Early(unit)
  \/ host = "running" /\ StartStage
  \/ host = "running" /\ Ready(unit, point) /\ (ReadyStage \/ BackStage)
  \/ host = "failed" /\ BackStage

HostInv ==
  /\ ~refused
  /\ host # "free" => /\ unit.phase \in HostPhases /\ HostStage
                      /\ bytes # Void => Ready(bytes.view, bytes.point)

-----------------------------------------------------------------------------
(* What a call makes of a unit that is ready for it.                       *)

(* What does not see the checkpoints.                                      *)
LEMMA SameBuilt ==
  ASSUME NEW u, NEW v, \A x \in UnitFields \ {"states"} : u[x] = v[x],
         NEW ph, NEW now, Built(u, ph, now)
  PROVE  Built(v, ph, now)
<1>1. u.phase = v.phase /\ u.engine = v.engine /\ u.start = v.start
  BY DEF UnitFields
<1> QED BY <1>1 DEF Built

(* A view is as ready as what it is of.                                    *)
LEMMA ReadyViews ==
  ASSUME NEW u, IsInstance(u), NEW p
  PROVE  /\ Ready(u, p) <=> Ready(View(u), p)
         /\ \A v : IsInstance(v) /\ View(v) = View(u) /\ Ready(u, p) => Ready(v, p)
<1>1. \A v : IsInstance(v) => \A x \in UnitFields \ {"states"} : View(v)[x] = v[x]
  BY ViewFields
<1>2. Ready(u, p) => Ready(View(u), p)
  BY <1>1, SameBuilt DEF Ready
<1>3. Ready(View(u), p) => Ready(u, p)
  BY <1>1, SameBuilt DEF Ready
<1>4. ASSUME NEW v, IsInstance(v), View(v) = View(u), Ready(u, p) PROVE Ready(v, p)
  <2>1. \A x \in UnitFields \ {"states"} : u[x] = v[x]
    BY <1>1, <1>4
  <2> QED BY <1>4, <2>1, SameBuilt DEF Ready
<1> QED BY <1>2, <1>3, <1>4

(* A value that is handed over to an engine.                               *)
LEMMA GivenType ==
  ASSUME NEW e \in Engines, NEW n \in Names, NEW v \in {0, 1}
  PROVE  Given(e, n, v) = Void \/ (Given(e, n, v) \in Engines /\ Given(e, n, v).now = e.now)
<1> DEFINE f == [e EXCEPT !.values[n] = v]
<1>1. f \in Engines /\ f.now = e.now /\ f.values \in Values
  BY DEF Engines, Values
<1>2. Reacting[f.values] \in Values \cup {Void}
  BY <1>1, ExportedAssumption
<1> HIDE DEF f
<1>3. Reacted(f) = Void \/ (Reacted(f) \in Engines /\ Reacted(f).now = f.now)
  BY <1>1, <1>2 DEF Reacted, Engines
<1> QED BY <1>1, <1>3 DEF Given, f

(* What an instance is given before it is initialised.                     *)
Setup(p) == p.pending \in Pendings /\ p.start = 0 /\ p.stop = Horizon /\ p.seed = 0

(* The engine begins at 0, or fails.                                       *)
LEMMA InitialisedType ==
  ASSUME NEW p, Setup(p)
  PROVE  Initialised(p) = Void \/ (Initialised(p) \in Engines /\ Initialised(p).now = 0)
<1> DEFINE w == [n \in Names |-> IF n \in DOMAIN p.pending THEN p.pending[n] ELSE StartValues[n]]
           e == [now |-> 0, stop |-> p.stop, seed |-> p.seed, values |-> w]
<1>1. w \in Values
  BY PendingType, ExportedAssumption DEF Values, Setup
<1>2. e \in Engines /\ e.now = 0 /\ e.values \in Values
  BY <1>1 DEF Engines, Setup
<1>3. Initialised(p) = Reacted(e)
  BY DEF Initialised
<1>4. Reacting[e.values] \in Values \cup {Void}
  BY <1>2, ExportedAssumption
<1> HIDE DEF e
<1> QED BY <1>2, <1>3, <1>4 DEF Reacted, Engines

(* So it does when the pending values are handed over, one by one.         *)
LEMMA HandedType ==
  ASSUME NEW p, Setup(p), NEW order \in Seq(DOMAIN p.pending)
  PROVE  Handed(p, order) = Void \/ (Handed(p, order) \in Engines /\ Handed(p, order).now = 0)
<1>0. p.pending \in Pendings
  BY DEF Setup
<1>1. PICK upTo : /\ upTo[0] = Initialised(p)
                  /\ \A k \in 1..Len(order) :
                       upTo[k] = Given(upTo[k - 1], order[k], p.pending[order[k]])
                  /\ Handed(p, order) = upTo[Len(order)]
  BY <1>0, HandedSteps
<1> DEFINE Good(k) == upTo[k] = Void \/ (upTo[k] \in Engines /\ upTo[k].now = 0)
           Bad == {k \in 0..Len(order) : ~Good(k)}
<1>2. Bad = {}
  <2> SUFFICES ASSUME Bad # {} PROVE FALSE
    OBVIOUS
  <2>1. Bad \subseteq Nat /\ Len(order) \in Nat
    OBVIOUS
  <2>2. PICK k \in Bad : \A q \in Bad : ~(<<q, k>> \in OpToRel(<, Nat))
    BY <2>1, NatLessThanWellFounded, WFMin
  <2>3. k # 0
    BY <1>1, <2>2, InitialisedType
  <2>4. Good(k - 1)
    <3>1. k - 1 \in 0..Len(order) /\ <<k - 1, k>> \in OpToRel(<, Nat)
      BY <2>1, <2>2, <2>3 DEF OpToRel
    <3> HIDE DEF Good
    <3> QED BY <2>2, <3>1
  <2>5. k \in 1..Len(order)
    <3>1. k \in 0..Len(order)
      BY <2>2
    <3> HIDE DEF Bad
    <3> QED BY <2>1, <2>3, <3>1
  <2>6. order[k] \in Names /\ p.pending[order[k]] \in {0, 1}
    <3>1. order[k] \in DOMAIN p.pending
      BY <2>5
    <3> QED BY <1>0, <3>1, PendingType DEF Imported, Names
  <2>7. upTo[k] = Given(upTo[k - 1], order[k], p.pending[order[k]])
    <3> HIDE DEF Bad
    <3> QED BY <1>1, <2>5
  <2>8. Good(k)
    <3>1. CASE upTo[k - 1] = Void
      BY <2>7, <3>1 DEF Given
    <3>2. CASE upTo[k - 1] # Void
      BY <2>4, <2>6, <2>7, <3>2, GivenType
    <3> QED BY <3>1, <3>2
  <2> HIDE DEF Good
  <2> QED BY <2>2, <2>8
<1>3. Len(order) \in 0..Len(order)
  OBVIOUS
<1> QED BY <1>1, <1>2, <1>3

(* And in whatever order they are.                                         *)
LEMMA BuildsType ==
  ASSUME NEW p, Setup(p), NEW e \in Builds(p)
  PROVE  e = Void \/ (e \in Engines /\ e.now = 0)
<1> DEFINE S == DOMAIN p.pending
<1>1. PICK order \in SetToSeqs(S) : e = Begun(Handed(p, order), p.start)
  BY DEF Builds
<1>2. order \in Seq(S)
  <2>1. IsFiniteSet(S)
    BY PendingType DEF Setup
  <2> HIDE DEF S
  <2>2. Cardinality(S) \in Nat /\ order \in [1..Cardinality(S) -> S]
    BY <2>1, FS_CardinalityType DEF SetToSeqs
  <2> QED BY <2>2
<1>3. e = Handed(p, order)
  BY <1>1 DEF Begun, Setup
<1> QED BY <1>2, <1>3, HandedType

(* A unit of time.                                                         *)
LEMMA PassedType ==
  ASSUME NEW e \in Engines
  PROVE  Passed(e) = Void \/ (Passed(e) \in Engines /\ Passed(e).now = e.now + 1)
<1>1. <<e.values, e.seed>> \in Values \X Seeds
  BY ExportedAssumption DEF Engines
<1>2. Passing[<<e.values, e.seed>>] \in Values \cup {Void}
  BY <1>1, ExportedAssumption
<1> DEFINE w == Passing[<<e.values, e.seed>>]
<1>3. e = [now |-> e.now, stop |-> e.stop, seed |-> e.seed, values |-> e.values] /\ e.now \in Nat
  BY DEF Engines
<1>4. \/ Passed(e) = Void
      \/ w # Void /\ Passed(e) = [now |-> e.now + 1, stop |-> e.stop, seed |-> e.seed, values |-> w]
  BY <1>3 DEF Passed
<1>5. w # Void => w \in Values
  BY <1>2
<1> HIDE DEF w
<1> QED BY <1>3, <1>4, <1>5 DEF Engines

(* An engine that does not fail is then at the date it was to go to.       *)
LEMMA AdvancedType ==
  ASSUME NEW e \in Engines, NEW date \in Int, date > e.now
  PROVE  \/ AdvancedTo(e, date) = Void
         \/ AdvancedTo(e, date) \in Engines /\ AdvancedTo(e, date).now = date
<1> SUFFICES ASSUME ~(e = Void \/ date > e.stop)
             PROVE  \/ AdvancedTo(e, date) = Void
                    \/ AdvancedTo(e, date) \in Engines /\ AdvancedTo(e, date).now = date
  BY DEF AdvancedTo
<1> DEFINE n == date - e.now
<1>0. e.now \in Nat /\ n \in Nat
  BY DEF Engines
<1>1. PICK after : /\ after[0] = e
                   /\ \A k \in 1..n : after[k] = Passed(after[k - 1])
                   /\ AdvancedTo(e, date) = after[n]
  BY <1>0, AdvancedSteps
<1> DEFINE Good(k) == after[k] = Void \/ (after[k] \in Engines /\ after[k].now = e.now + k)
           Bad == {k \in 0..n : ~Good(k)}
<1>2. Bad = {}
  <2> SUFFICES ASSUME Bad # {} PROVE FALSE
    OBVIOUS
  <2>1. Bad \subseteq Nat
    BY <1>0
  <2>2. PICK k \in Bad : \A q \in Bad : ~(<<q, k>> \in OpToRel(<, Nat))
    BY <2>1, NatLessThanWellFounded, WFMin
  <2>3. k # 0
    <3>1. Good(0)
      BY <1>0, <1>1
    <3> HIDE DEF Good
    <3> QED BY <2>2, <3>1
  <2>4. Good(k - 1)
    <3>1. k - 1 \in 0..n /\ <<k - 1, k>> \in OpToRel(<, Nat)
      BY <1>0, <2>2, <2>3 DEF OpToRel
    <3> HIDE DEF Good
    <3> QED BY <2>2, <3>1
  <2>5. after[k] = Passed(after[k - 1])
    <3>0. k \in 0..n
      BY <2>2
    <3>1. k \in 1..n
      <4> HIDE DEF Bad, n
      <4> QED BY <1>0, <2>3, <3>0
    <3> HIDE DEF Bad, n
    <3> QED BY <1>1, <3>1
  <2>6. k \in Nat
    BY <2>1, <2>2
  <2>7. Good(k)
    <3>1. CASE after[k - 1] = Void
      BY <2>5, <3>1 DEF Passed
    <3>2. CASE after[k - 1] # Void
      <4>1. after[k - 1] \in Engines /\ after[k - 1].now = e.now + (k - 1)
        BY <2>4, <3>2
      <4>2. \/ after[k] = Void
            \/ after[k] \in Engines /\ after[k].now = after[k - 1].now + 1
        BY <2>5, <4>1, PassedType
      <4> QED BY <1>0, <2>6, <4>1, <4>2
    <3> QED BY <3>1, <3>2
  <2> QED BY <2>2, <2>7
<1>3. Good(n)
  BY <1>0, <1>2
<1> QED BY <1>0, <1>1, <1>3

(* One value that is set.                                                  *)
LEMMA SetOne ==
  ASSUME NEW u, NEW n \in Names, NEW v \in {0, 1}
  PROVE  SetAll(u, << <<n, v>> >>) = Set(u, n, v)
<1> DEFINE pairs == << <<n, v>> >>
<1>1. pairs \in Seq(Names \X {0, 1}) /\ Len(pairs) = 1 /\ pairs[1] = <<n, v>>
  OBVIOUS
<1> HIDE DEF pairs
<1>2. PICK upTo : /\ upTo[0] = Accepts(u)
                  /\ \A k \in 1..Len(pairs) : upTo[k] = Continued(upTo[k - 1], pairs[k])
                  /\ SetAll(u, pairs) = upTo[Len(pairs)]
  BY <1>1, SetAllSteps
<1>3. upTo[1] = Continued(upTo[0], pairs[1])
  <2>1. 1 \in 1..Len(pairs) /\ 1 - 1 = 0
    BY <1>1
  <2> QED BY <1>2, <2>1
<1>4. SetAll(u, pairs) = Continued(Accepts(u), <<n, v>>)
  BY <1>1, <1>2, <1>3
<1>5. <<n, v>>[1] = n /\ <<n, v>>[2] = v
  OBVIOUS
<1>6. Continued(Accepts(u), <<n, v>>) = Set(u, n, v)
  BY <1>5 DEF Continued, Accepts
<1> QED BY <1>4, <1>6 DEF pairs

(* Before the initialisation values are only noted.                        *)
LEMMA EarlySet ==
  ASSUME NEW u, IsInstance(u), Early(u), NEW c \in SetsOf(Imported), NEW o \in Called(u, c)
  PROVE  o.ok /\ Early(o.unit)
<1>1. PICK n \in Imported, v \in {0, 1} : c.op = "set" /\ c.pairs = << <<n, v>> >>
  BY DEF SetsOf
<1>2. n \in Names /\ n \notin OutputNames
  BY ExportedAssumption DEF Names, Imported
<1>3. Called(u, c) = Set(u, n, v)
  BY <1>1, <1>2, SetOne DEF Called
<1>4. Set(u, n, v) = Accepts(Noted(u, n, v))
  BY <1>2 DEF Set, Early, EarlyPhases
<1>5. Early(Noted(u, n, v))
  BY DEF Noted, Early, IsInstance, UnitFields
<1> QED BY <1>3, <1>4, <1>5 DEF Accepts

(* While a unit is stepped its inputs are set at once, or its engine fails. *)
LEMMA StepSet ==
  ASSUME NEW u, IsInstance(u), NEW p, Ready(u, p), NEW c \in SetsOf(InputNames),
         NEW o \in Called(u, c)
  PROVE  IF o.ok THEN Ready(o.unit, p) ELSE o.unit.phase = "error"
<1>1. PICK n \in InputNames, v \in {0, 1} : c.op = "set" /\ c.pairs = << <<n, v>> >>
  BY DEF SetsOf
<1>2. n \in Names /\ n \notin OutputNames /\ n \notin ParameterNames
  BY ExportedAssumption DEF Names
<1>3. Called(u, c) = Set(u, n, v)
  BY <1>1, <1>2, SetOne DEF Called
<1>4. u.phase = "step" /\ u.engine \in Engines /\ u.engine.now = p
  BY DEF Ready, Built
<1> DEFINE e == Given(u.engine, n, v)
           w == [u EXCEPT !.engine = e]
<1>5. e = Void \/ (e \in Engines /\ e.now = p)
  BY <1>2, <1>4, GivenType
<1>6. CASE u.engine = Void \/ e # Void
  <2>1. Noted(u, n, v) = u /\ Noted(w, n, v) = w
    BY <1>4 DEF Noted, IsInstance, UnitFields
  <2>2. Set(u, n, v) = Accepts(u) \/ (e # Void /\ Set(u, n, v) = Accepts(w))
    BY <1>2, <1>4, <1>6, <2>1 DEF Set
  <2>3. e # Void => Ready(w, p)
    <3> SUFFICES ASSUME e # Void PROVE Ready(w, p)
      OBVIOUS
    <3>1. w.start = u.start /\ w.phase = "step" /\ w.engine = e
      BY <1>4 DEF IsInstance, UnitFields
    <3> HIDE DEF w, e
    <3> QED BY <1>5, <3>1 DEF Ready, Built
  <2> HIDE DEF w, e
  <2> QED BY <1>3, <2>2, <2>3 DEF Accepts
<1>7. CASE u.engine # Void /\ e = Void
  <2>1. Set(u, n, v) = Refuses(Poisoned(u))
    BY <1>2, <1>4, <1>7 DEF Set
  <2>2. Poisoned(u).phase = "error"
    BY DEF Poisoned, IsInstance, UnitFields
  <2> QED BY <1>3, <2>1, <2>2 DEF Refuses
<1> QED BY <1>6, <1>7

(* The initialisation: an engine is built, or one of the orders fails.     *)
LEMMA EnterCall ==
  ASSUME NEW u, IsInstance(u), Early(u),
         NEW c, c = [op |-> "enter", start |-> 0, stop |-> Horizon], NEW o \in Called(u, c)
  PROVE  IF o.ok THEN Built(o.unit, "initialization", 0)
                 ELSE /\ o.unit = u
                      /\ Void \in Builds([u EXCEPT !.start = c.start, !.stop = c.stop])
<1> DEFINE w == [u EXCEPT !.start = 0, !.stop = Horizon]
           v(e) == [u EXCEPT !.engine = e, !.start = 0, !.stop = Horizon, !.phase = "initialization"]
<1>1. c.op = "enter" /\ c.start = 0 /\ c.stop = Horizon /\ 0 < Horizon
  BY ExportedAssumption
<1>2. Called(u, c) = Start(u, 0, Horizon)
  BY <1>1 DEF Called
<1>3. Setup(w)
  BY DEF Early, IsInstance, UnitFields, Setup
<1>4. Start(u, 0, Horizon) = UNION {IF e = Void THEN Refuses(u) ELSE Accepts(v(e)) : e \in Builds(w)}
  <2>1. u.phase = "instantiated" /\ ~(Horizon <= 0)
    BY <1>1, ExportedAssumption DEF Early
  <2> QED BY <2>1 DEF Start
<1>5. \A e : v(e).phase = "initialization" /\ v(e).engine = e /\ v(e).start = 0
  BY DEF IsInstance, UnitFields
<1>6. w = [u EXCEPT !.start = c.start, !.stop = c.stop]
  BY <1>1
<1> HIDE DEF w, v
<1>7. PICK e \in Builds(w) : o \in IF e = Void THEN Refuses(u) ELSE Accepts(v(e))
  BY <1>2, <1>4
<1>8. CASE e = Void
  BY <1>6, <1>7, <1>8 DEF Refuses
<1>9. CASE e # Void
  <2>1. e \in Engines /\ e.now = 0
    BY <1>3, <1>7, <1>9, BuildsType
  <2>2. o.ok /\ o.unit = v(e)
    BY <1>7, <1>9 DEF Accepts
  <2> QED BY <1>5, <1>9, <2>1, <2>2 DEF Built
<1> QED BY <1>8, <1>9

(* The end of the initialisation.                                          *)
LEMMA ExitCall ==
  ASSUME NEW u, IsInstance(u), Built(u, "initialization", 0),
         NEW c, c = [op |-> "exit"], NEW o \in Called(u, c)
  PROVE  o.ok /\ Ready(o.unit, 0)
<1> DEFINE v == [u EXCEPT !.phase = "step"]
<1>1. Called(u, c) = Accepts(v)
  BY DEF Called, Built
<1>2. v.phase = "step" /\ v.engine = u.engine /\ v.start = u.start
  BY DEF IsInstance, UnitFields
<1> HIDE DEF v
<1>3. Ready(v, 0)
  BY <1>2 DEF Ready, Built
<1> QED BY <1>1, <1>3 DEF Accepts

(* A reading.                                                              *)
LEMMA GetCall ==
  ASSUME NEW u, NEW p, Ready(u, p), NEW c \in Reads, NEW o \in Called(u, c)
  PROVE  o.ok /\ o.unit = u
<1>1. c.op = "get" /\ c.name \in Names
  BY DEF Reads, Names
<1>2. u.engine \in Engines /\ u.engine # Void /\ u.phase = "step"
  BY DEF Ready, Built
<1>3. u.engine.values[c.name] \in {0, 1}
  BY <1>1, <1>2 DEF Engines, Values
<1>4. Get(u, c.name) = u.engine.values[c.name]
  BY <1>2 DEF Get
<1>5. Void \notin {0, 1}
  BY ExportedAssumption
<1>6. Called(u, c) = Accepts(u)
  BY <1>1, <1>3, <1>4, <1>5 DEF Called
<1> QED BY <1>6 DEF Accepts

(* A step from the date of the unit.                                       *)
LEMMA StepCall ==
  ASSUME NEW u, IsInstance(u), NEW p, Ready(u, p), NEW size \in {1, 2},
         NEW c, c = [op |-> "step", current |-> p, size |-> size], NEW o \in Called(u, c)
  PROVE  IF o.ok THEN Ready(o.unit, p + size) ELSE o.unit.phase = "error"
<1>1. c.op = "step" /\ c.current = p /\ c.size = size
  OBVIOUS
<1>2. u.phase = "step" /\ u.engine \in Engines /\ u.engine.now = p /\ p \in Nat /\ u.engine # Void
  BY DEF Ready, Built, Engines
<1> DEFINE e == AdvancedTo(u.engine, p + size)
           v == [u EXCEPT !.engine = e]
<1>3. Called(u, c) = IF e = Void THEN Refuses(Poisoned(u)) ELSE Accepts(v)
  BY <1>1, <1>2 DEF Called, DoStep
<1>4. e = Void \/ (e \in Engines /\ e.now = p + size)
  BY <1>2, AdvancedType
<1>5. v.phase = u.phase /\ v.engine = e /\ v.start = u.start
  BY DEF IsInstance, UnitFields
<1>6. Poisoned(u).phase = "error"
  BY DEF Poisoned, IsInstance, UnitFields
<1> HIDE DEF v, e
<1>7. e # Void => Ready(v, p + size)
  BY <1>4, <1>5 DEF Ready, Built
<1> QED BY <1>3, <1>6, <1>7 DEF Accepts, Refuses

-----------------------------------------------------------------------------
(* A call of the host in each stage.                                       *)

(* The first of what is left.                                              *)
LEMMA FirstOf ==
  ASSUME NEW S, NEW a \in Seq(S), NEW b \in Seq(S)
  PROVE  /\ a \o b \in Seq(S) /\ (a = << >> => a \o b = b)
         /\ a # << >> => /\ a \o b # << >> /\ Head(a) \in S /\ Tail(a) \in Seq(S)
                         /\ Head(a \o b) = Head(a) /\ Tail(a \o b) = Tail(a) \o b
         /\ \A x \in S : /\ <<x>> \o b # << >> /\ <<x>> \o b \in Seq(S)
                         /\ Head(<<x>> \o b) = x /\ Tail(<<x>> \o b) = b
OBVIOUS
(* A call that takes, gives back and frees nothing.                        *)
PlainAnswer(o) ==
  /\ unit' = o.unit /\ bytes' = bytes
  /\ IF o.ok
     THEN /\ todo' = Tail(todo) /\ host' = host /\ (refused' => refused)
          /\ point' = IF Head(todo).op = "step" THEN point + Head(todo).size ELSE point
     ELSE /\ todo' = << >> /\ host' = "failed"
          /\ refused' = (refused \/ ~EngineFails(Head(todo), o))

LEMMA PlainHostCall ==
  ASSUME HostCall, todo \in Seq(PlainCalls),
         Head(todo).op = "step" => Head(todo).current = point
  PROVE  \E o \in Called(unit, Head(todo)) : PlainAnswer(o)
<1> DEFINE c == Head(todo)
<1>1. todo # << >>
  BY DEF HostCall
<1>2. c.op \in SparingOps \ {"restore", "serialize"} /\ LeftAfterFailure(Tail(todo)) = << >>
  BY <1>1, PlainTail, PlainCallsSpare
<1>3. PICK o \in Called(unit, c) :
        /\ Answer(c, o)
        /\ todo' = IF o.ok THEN Tail(todo) ELSE LeftAfterFailure(Tail(todo))
        /\ host' = IF ~o.ok /\ c.op # "serialize" THEN "failed"
                   ELSE IF o.ok /\ c.op = "restore" THEN "running" ELSE host
        /\ point' = CASE o.ok /\ c.op = "step" -> c.current + c.size
                       [] o.ok /\ c.op = "restore" -> bytes.point
                       [] OTHER -> point
        /\ bytes' = IF o.ok /\ c.op = "serialize"
                    THEN [view |-> unit.states[held[todo[2].holder]], point |-> point]
                    ELSE bytes
        /\ refused' = (refused \/ (~o.ok /\ ~EngineFails(c, o)))
  BY DEF HostCall
<1>4. unit' = o.unit
  BY <1>3 DEF Answer
<1>7. c.op = "step" => c.current = point
  OBVIOUS
<1> HIDE DEF c
<1>5. CASE o.ok
  <2>1. c.op # "restore" /\ c.op # "serialize"
    BY <1>2
  <2>2. todo' = Tail(todo) /\ host' = host /\ bytes' = bytes /\ (refused' => refused)
    BY <1>3, <1>5, <2>1
  <2>3. point' = IF c.op = "step" THEN point + c.size ELSE point
    BY <1>3, <1>5, <1>7, <2>1
  <2> QED BY <1>4, <1>5, <2>2, <2>3 DEF PlainAnswer, c
<1>6. CASE ~o.ok
  <2>1. c.op # "serialize"
    BY <1>2
  <2>2. todo' = << >> /\ host' = "failed" /\ bytes' = bytes
    BY <1>2, <1>3, <1>6, <2>1
  <2>3. refused' = (refused \/ ~EngineFails(c, o))
    BY <1>3, <1>6
  <2> QED BY <1>4, <1>6, <2>2, <2>3 DEF PlainAnswer, c
<1> QED BY <1>3, <1>5, <1>6

(* An engine that failed: the host is told, and may take back.             *)
LEMMA AfterFailure ==
  ASSUME HostInv, host # "free", NEW o, PlainAnswer(o), ~o.ok, EngineFails(Head(todo), o),
         o.unit.phase \in HostPhases
  PROVE  HostInv'
BY DEF HostInv, HostStage, BackStage, PlainAnswer, HostPhases

(* The calls that begin a run.                                             *)
LEMMA StartStageCall ==
  ASSUME HeldInv, HostInv, HostCall, host = "running", StartStage
  PROVE  HostInv'
<1>0. IsInstance(unit) /\ todo # << >> /\ ~refused
  BY DEF HeldInv, Kept, HostCall, HostInv
<1>1. ASSUME NEW o, PlainAnswer(o), o.ok, o.unit.phase \in HostPhases, Head(todo).op # "step",
             \/ Starting(Tail(todo)) /\ Early(o.unit)
             \/ /\ \E r \in Seq(Reads) : Tail(todo) = <<[op |-> "exit"]>> \o r
                /\ Built(o.unit, "initialization", 0)
             \/ Tail(todo) \in Seq(Reads) /\ Ready(o.unit, 0)
      PROVE  HostInv'
  <2>1. /\ unit' = o.unit /\ bytes' = bytes /\ todo' = Tail(todo) /\ host' = "running"
        /\ ~refused' /\ point' = 0
    BY <1>0, <1>1 DEF PlainAnswer, StartStage
  <2>2. Starting(Tail(todo)) /\ Early(o.unit) => StartStage'
    BY <2>1 DEF StartStage, Starting
  <2>3. /\ \E r \in Seq(Reads) : Tail(todo) = <<[op |-> "exit"]>> \o r
        /\ Built(o.unit, "initialization", 0)
        => StartStage'
    BY <2>1 DEF StartStage
  <2>4. Tail(todo) \in Seq(Reads) /\ Ready(o.unit, 0) => Ready(unit', point') /\ ReadyStage'
    BY <2>1 DEF ReadyStage
  <2>5. HostStage'
    BY <1>1, <2>1, <2>2, <2>3, <2>4 DEF HostStage
  <2> QED BY <1>1, <2>1, <2>5 DEF HostInv
<1>2. CASE \E cs : Starting(cs) /\ todo = <<[op |-> "reset"]>> \o cs
  <2>1. PICK a \in Seq(SetsOf(Imported)), r \in Seq(Reads) :
          todo = <<[op |-> "reset"]>> \o (a \o (Initialize \o r))
    BY <1>2 DEF Starting
  <2> DEFINE cs == a \o (Initialize \o r)
  <2>2. a \in Seq(PlainCalls) /\ r \in Seq(PlainCalls)
    BY PartsArePlain
  <2>3. cs \in Seq(PlainCalls) /\ Starting(cs)
    <3>1. Initialize \o r \in Seq(PlainCalls)
      BY <2>2, PartsArePlain, FirstOf
    <3> QED BY <2>2, <3>1, FirstOf DEF Starting
  <2> HIDE DEF cs
  <2>4. todo \in Seq(PlainCalls) /\ Head(todo) = [op |-> "reset"] /\ Tail(todo) = cs
    BY <2>1, <2>3, PartsArePlain, FirstOf DEF cs
  <2>5. PICK o \in Called(unit, Head(todo)) : PlainAnswer(o)
    BY <2>4, PlainHostCall
  <2>6. o.ok /\ o.unit = Reset(unit)
    BY <2>4, <2>5 DEF Called, Accepts
  <2>7. Early(o.unit) /\ o.unit.phase \in HostPhases
    BY <2>6 DEF Early, Reset, Fresh, HostPhases
  <2>8. Head(todo).op # "step"
    BY <2>4
  <2> QED BY <1>1, <2>3, <2>4, <2>5, <2>6, <2>7, <2>8
<1>3. CASE Starting(todo) /\ Early(unit)
  <2>1. PICK a \in Seq(SetsOf(Imported)), r \in Seq(Reads) : todo = a \o (Initialize \o r)
    BY <1>3 DEF Starting
  <2>2. a \in Seq(PlainCalls) /\ r \in Seq(PlainCalls) /\ Initialize \o r \in Seq(PlainCalls)
    BY PartsArePlain, FirstOf
  <2>3. todo \in Seq(PlainCalls)
    BY <2>1, <2>2, FirstOf
  <2>4. CASE a # << >>
    <3>1. Head(a) \in SetsOf(Imported) /\ Tail(a) \in Seq(SetsOf(Imported))
      BY <2>4, HeadTailProperties
    <3>2. Head(todo) = Head(a) /\ Tail(todo) = Tail(a) \o (Initialize \o r)
      BY <2>1, <2>2, <2>4, FirstOf
    <3>3. Head(todo).op = "set"
      BY <3>1, <3>2 DEF SetsOf
    <3>4. PICK o \in Called(unit, Head(todo)) : PlainAnswer(o)
      BY <2>3, <3>3, PlainHostCall
    <3>5. o.ok /\ Early(o.unit)
      BY <1>0, <1>3, <3>1, <3>2, <3>4, EarlySet
    <3>6. Starting(Tail(todo)) /\ o.unit.phase \in HostPhases
      BY <3>1, <3>2, <3>5 DEF Starting, Early, HostPhases
    <3> QED BY <1>1, <3>3, <3>4, <3>5, <3>6
  <2>5. CASE a = << >>
    <3> DEFINE enter == [op |-> "enter", start |-> 0, stop |-> Horizon]
               exit == [op |-> "exit"]
    <3>1. Initialize \o r = <<enter>> \o (<<exit>> \o r) /\ <<exit>> \o r \in Seq(PlainCalls)
      <4>1. ASSUME NEW x \in PlainCalls, NEW y \in PlainCalls PROVE <<x, y>> = <<x>> \o <<y>>
        <5>1. <<x>> \in Seq(PlainCalls) /\ <<y>> \in Seq(PlainCalls)
          OBVIOUS
        <5> DEFINE t == <<x>> \o <<y>>
                   s == <<x, y>>
        <5>2. Len(<<x>>) = 1 /\ <<x>>[1] = x /\ Len(<<y>>) = 1 /\ <<y>>[1] = y
          OBVIOUS
        <5>3. t \in Seq(PlainCalls) /\ Len(t) = 2 /\ t[1] = x /\ t[2] = y
          BY <5>1, <5>2, ConcatProperties
        <5>4. s \in Seq(PlainCalls) /\ Len(s) = 2 /\ s[1] = x /\ s[2] = y
          OBVIOUS
        <5> HIDE DEF s, t
        <5>5. \A i \in 1..Len(s) : s[i] = t[i]
          BY <5>3, <5>4
        <5>6. s = t
          BY <5>3, <5>4, <5>5, SeqEqual
        <5> QED BY <5>6 DEF s, t
      <4>2. Initialize = <<enter>> \o <<exit>>
        BY <4>1, PartsArePlain DEF Initialize
      <4>3. <<enter>> \in Seq(PlainCalls) /\ <<exit>> \in Seq(PlainCalls)
        BY PartsArePlain
      <4> HIDE DEF enter, exit
      <4>4. (<<enter>> \o <<exit>>) \o r = <<enter>> \o (<<exit>> \o r)
        BY <2>2, <4>3, ConcatAssociative
      <4>5. <<exit>> \o r \in Seq(PlainCalls)
        BY <2>2, <4>3, FirstOf
      <4> QED BY <4>2, <4>4, <4>5
    <3>2. todo = <<enter>> \o (<<exit>> \o r)
      BY <2>1, <2>2, <2>5, <3>1, FirstOf
    <3>3. Head(todo) = enter /\ Tail(todo) = <<exit>> \o r
      <4> HIDE DEF enter
      <4>1. enter \in PlainCalls
        BY PartsArePlain DEF enter
      <4> QED BY <3>1, <3>2, <4>1, FirstOf
    <3>4. PICK o \in Called(unit, Head(todo)) : PlainAnswer(o)
      BY <2>3, <3>3, PlainHostCall
    <3>5. IF o.ok THEN Built(o.unit, "initialization", 0)
                  ELSE /\ o.unit = unit
                       /\ Void \in Builds([unit EXCEPT !.start = Head(todo).start,
                                                       !.stop = Head(todo).stop])
      BY <1>0, <1>3, <3>3, <3>4, EnterCall
    <3>6. CASE o.ok
      <4>1. o.unit.phase \in HostPhases /\ Head(todo).op # "step"
        BY <3>3, <3>5, <3>6 DEF Built, HostPhases
      <4> HIDE DEF enter
      <4> QED BY <1>1, <3>3, <3>4, <3>5, <3>6, <4>1
    <3>7. CASE ~o.ok
      <4>1. EngineFails(Head(todo), o) /\ o.unit.phase \in HostPhases
        BY <1>3, <3>3, <3>5, <3>7 DEF EngineFails, Early, HostPhases
      <4> QED BY <3>4, <3>7, <4>1, AfterFailure
    <3> QED BY <3>6, <3>7
  <2> QED BY <2>4, <2>5
<1>4. ASSUME NEW r \in Seq(Reads), todo = <<[op |-> "exit"]>> \o r, Built(unit, "initialization", 0)
      PROVE  HostInv'
  <2> DEFINE exit == [op |-> "exit"]
  <2>1. r \in Seq(PlainCalls) /\ exit \in PlainCalls
    BY PartsArePlain
  <2>2. todo \in Seq(PlainCalls) /\ Head(todo) = exit /\ Tail(todo) = r
    <3> HIDE DEF exit
    <3>1. todo = <<exit>> \o r
      BY <1>4 DEF exit
    <3> QED BY <2>1, <3>1, FirstOf
  <2>3. PICK o \in Called(unit, Head(todo)) : PlainAnswer(o)
    BY <2>2, PlainHostCall
  <2>4. o.ok /\ Ready(o.unit, 0)
    BY <1>0, <1>4, <2>2, <2>3, ExitCall
  <2>5. o.unit.phase \in HostPhases /\ Head(todo).op # "step"
    BY <2>2, <2>4 DEF Ready, Built, HostPhases
  <2> QED BY <1>1, <2>2, <2>3, <2>4, <2>5
<1> QED BY <1>2, <1>3, <1>4 DEF StartStage

(* The calls of a step.                                                    *)
LEMMA SteppingCall ==
  ASSUME HeldInv, HostInv, HostCall, host = "running", Ready(unit, point),
         todo \in Seq(Reads) \/ Stepping(todo)
  PROVE  HostInv'
<1>0. IsInstance(unit) /\ todo # << >> /\ ~refused /\ point \in Int
  BY DEF HeldInv, Kept, HostCall, HostInv
<1>1. ASSUME NEW o, PlainAnswer(o), o.ok, Ready(o.unit, point'),
             Tail(todo) \in Seq(Reads) \/ (Stepping(Tail(todo)) /\ point' = point)
      PROVE  HostInv'
  <2>1. unit' = o.unit /\ bytes' = bytes /\ todo' = Tail(todo) /\ host' = "running" /\ ~refused'
    BY <1>0, <1>1 DEF PlainAnswer
  <2>2. ReadyStage'
    BY <1>1, <2>1 DEF ReadyStage, Stepping
  <2>3. unit'.phase \in HostPhases
    BY <1>1, <2>1 DEF Ready, Built, HostPhases
  <2> QED BY <1>1, <2>1, <2>2, <2>3 DEF HostInv, HostStage
<1>2. ASSUME NEW o, PlainAnswer(o), ~o.ok, o.unit.phase = "error" PROVE HostInv'
  BY <1>2, AfterFailure DEF EngineFails, HostPhases
<1>3. CASE todo \in Seq(Reads)
  <2>1. todo \in Seq(PlainCalls) /\ Head(todo) \in Reads /\ Tail(todo) \in Seq(Reads)
    BY <1>0, <1>3, PartsArePlain, HeadTailProperties
  <2>2. Head(todo).op # "step"
    BY <2>1 DEF Reads
  <2>3. PICK o \in Called(unit, Head(todo)) : PlainAnswer(o)
    BY <2>1, <2>2, PlainHostCall
  <2>4. o.ok /\ o.unit = unit
    BY <2>1, <2>3, GetCall
  <2>5. point' = point
    BY <2>2, <2>3, <2>4 DEF PlainAnswer
  <2> QED BY <1>1, <2>1, <2>3, <2>4, <2>5
<1>4. CASE Stepping(todo)
  <2>1. PICK a \in Seq(SetsOf(InputNames)), r \in Seq(Reads), size \in {1, 2} :
          todo = a \o (<<[op |-> "step", current |-> point, size |-> size]>> \o r)
    BY <1>4 DEF Stepping
  <2> DEFINE step == [op |-> "step", current |-> point, size |-> size]
             rest == <<step>> \o r
  <2>2. a \in Seq(PlainCalls) /\ r \in Seq(PlainCalls) /\ step \in PlainCalls
    BY <1>0, PartsArePlain DEF Imported
  <2>3. step.op = "step" /\ step.current = point /\ step.size = size
    OBVIOUS
  <2> HIDE DEF step
  <2>4. rest \in Seq(PlainCalls) /\ Head(rest) = step /\ Tail(rest) = r
    BY <2>2, FirstOf
  <2> HIDE DEF rest
  <2>5. todo = a \o rest /\ todo \in Seq(PlainCalls)
    <3>1. todo = a \o rest
      BY <2>1 DEF step, rest
    <3> QED BY <2>2, <2>4, <3>1, FirstOf
  <2>6. CASE a # << >>
    <3>1. Head(a) \in SetsOf(InputNames) /\ Tail(a) \in Seq(SetsOf(InputNames))
      BY <2>6, HeadTailProperties
    <3>2. Head(todo) = Head(a) /\ Tail(todo) = Tail(a) \o rest
      BY <2>2, <2>4, <2>5, <2>6, FirstOf
    <3>3. Head(todo).op = "set"
      BY <3>1, <3>2 DEF SetsOf
    <3>4. PICK o \in Called(unit, Head(todo)) : PlainAnswer(o)
      BY <2>5, <3>3, PlainHostCall
    <3>5. IF o.ok THEN Ready(o.unit, point) ELSE o.unit.phase = "error"
      BY <1>0, <3>1, <3>2, <3>4, StepSet
    <3>6. Stepping(Tail(todo))
      BY <3>1, <3>2 DEF Stepping, rest, step
    <3>7. o.ok => point' = point
      BY <3>3, <3>4 DEF PlainAnswer
    <3> QED BY <1>1, <1>2, <3>4, <3>5, <3>6, <3>7
  <2>7. CASE a = << >>
    <3>1. todo = rest
      BY <2>2, <2>4, <2>5, <2>7, FirstOf
    <3>2. Head(todo) = step /\ Tail(todo) = r
      BY <2>4, <3>1
    <3>3. PICK o \in Called(unit, Head(todo)) : PlainAnswer(o)
      BY <2>3, <2>5, <3>2, PlainHostCall
    <3>4. IF o.ok THEN Ready(o.unit, point + size) ELSE o.unit.phase = "error"
      BY <1>0, <3>2, <3>3, StepCall DEF step
    <3>5. o.ok => point' = point + size
      BY <2>3, <3>2, <3>3 DEF PlainAnswer
    <3> QED BY <1>1, <1>2, <3>2, <3>3, <3>4, <3>5
  <2> QED BY <2>6, <2>7
<1> QED BY <1>3, <1>4

(* What is left of a save or a restoration.                                *)
LEMMA CheckpointScripts ==
  ASSUME NEW s, NEW h
  PROVE  /\ SaveScript(s, h) # << >> /\ RestoreScript(s, h) # << >>
         /\ Head(SaveScript(s, h)) = [op |-> "save", holder |-> s, handle |-> h]
         /\ Head(RestoreScript(s, h)) = [op |-> "deserialize", holder |-> s, handle |-> h]
         /\ Tail(SaveScript(s, h)) = <<[op |-> "serialize"], ReleaseOf(s)>>
         /\ Tail(RestoreScript(s, h)) = <<[op |-> "restore", holder |-> s], ReleaseOf(s)>>
         /\ LeftAfterFailure(Tail(SaveScript(s, h))) = <<ReleaseOf(s)>>
         /\ LeftAfterFailure(Tail(RestoreScript(s, h))) = <<ReleaseOf(s)>>
<1>1. ReleaseOf(s).op = "release"
  BY DEF ReleaseOf
<1>2. /\ SaveScript(s, h) # << >> /\ RestoreScript(s, h) # << >>
      /\ Head(SaveScript(s, h)) = [op |-> "save", holder |-> s, handle |-> h]
      /\ Head(RestoreScript(s, h)) = [op |-> "deserialize", holder |-> s, handle |-> h]
      /\ Tail(SaveScript(s, h)) = <<[op |-> "serialize"], ReleaseOf(s)>>
      /\ Tail(RestoreScript(s, h)) = <<[op |-> "restore", holder |-> s], ReleaseOf(s)>>
  BY DEF SaveScript, RestoreScript, ReleaseOf
<1>3. \A x : LeftAfterFailure(<<x, ReleaseOf(s)>>) = <<ReleaseOf(s)>>
  BY <1>1 DEF LeftAfterFailure
<1> QED BY <1>2, <1>3

(* A unit whose checkpoints alone changed is as ready as it was.           *)
LEMMA ReadyStays ==
  ASSUME IsInstance(unit), IsInstance(unit'), View(unit') = View(unit), NEW p
  PROVE  /\ Ready(unit, p) => Ready(unit', p)
         /\ unit'.phase = unit.phase
<1>1. Ready(unit, p) => Ready(unit', p)
  BY ReadyViews
<1>2. View(unit).phase = unit.phase /\ View(unit').phase = unit'.phase
  BY ViewFields DEF UnitFields
<1> QED BY <1>1, <1>2

(* The first call of a save: a checkpoint is taken of a unit that is ready. *)
LEMMA SaveCall ==
  ASSUME HeldInv, HostInv, HostCall, host = "running", Ready(unit, point),
         NEW s \in Holders, NEW h \in Handles, todo = SaveScript(s, h), held[s] = Void
  PROVE  HostInv'
<1> DEFINE c == [op |-> "save", holder |-> s, handle |-> h]
<1>1. Head(todo) = c /\ Tail(todo) = Tail(SaveScript(s, h))
  BY CheckpointScripts
<1>2. c.op = "save" /\ c.holder = s /\ c.handle = h
  OBVIOUS
<1>3. Called(unit, c) = Accepts(Holding(unit, h, View(unit)))
  <2>1. unit.phase = "step" /\ unit.engine # Void
    BY DEF Ready, Built
  <2>2. GetState(unit, Void, h) = Snapshot(unit, h)
    <3>1. GetState(unit, Void, h) = {o : o \in Snapshot(unit, h)}
      BY DEF GetState
    <3> QED BY <3>1
  <2> QED BY <1>2, <2>1, <2>2 DEF Called, Snapshot
<1> HIDE DEF c
<1>4. PICK o \in Called(unit, c) :
        /\ Answer(c, o) /\ todo' = IF o.ok THEN Tail(todo) ELSE LeftAfterFailure(Tail(todo))
        /\ host' = IF ~o.ok /\ c.op # "serialize" THEN "failed"
                   ELSE IF o.ok /\ c.op = "restore" THEN "running" ELSE host
        /\ point' = CASE o.ok /\ c.op = "step" -> c.current + c.size
                       [] o.ok /\ c.op = "restore" -> bytes.point
                       [] OTHER -> point
        /\ bytes' = IF o.ok /\ c.op = "serialize"
                    THEN [view |-> unit.states[held[todo[2].holder]], point |-> point]
                    ELSE bytes
        /\ refused' = (refused \/ (~o.ok /\ ~EngineFails(c, o)))
  BY <1>1 DEF HostCall
<1>5. o.ok
  BY <1>3, <1>4 DEF Accepts
<1>6. /\ todo' = Tail(SaveScript(s, h)) /\ host' = "running" /\ point' = point /\ bytes' = bytes
      /\ ~refused'
  BY <1>1, <1>2, <1>4, <1>5 DEF HostInv
<1>7. Possible(c)
  BY <1>1 DEF HostCall
<1>8. /\ Kept' /\ held' = [held EXCEPT ![s] = h] /\ View(unit') = View(unit)
      /\ unit'.states[h] = View(unit)
  BY <1>2, <1>4, <1>5, <1>7, TakingCall DEF HeldInv
<1>9. IsInstance(unit) /\ IsInstance(unit') /\ held'[s] = h /\ h # Void
  BY <1>8, ExportedAssumption DEF HeldInv, Kept
<1>10. Ready(unit', point) /\ Ready(View(unit), point) /\ unit'.phase \in HostPhases
  BY <1>8, <1>9, ReadyStays, ReadyViews DEF HostInv
<1>11. Ready(unit'.states[held'[s]], point')
  BY <1>6, <1>8, <1>9, <1>10
<1>12. ReadyStage'
  BY <1>6, <1>9, <1>11 DEF ReadyStage
<1> QED BY <1>6, <1>10, <1>12 DEF HostInv, HostStage

(* Then it is serialised, or is not.                                       *)
LEMMA SerializeCall ==
  ASSUME HeldInv, HostInv, HostCall, host = "running", Ready(unit, point),
         NEW s \in Holders, NEW h \in Handles, todo = Tail(SaveScript(s, h)),
         Ready(unit.states[held[s]], point)
  PROVE  HostInv'
<1> DEFINE c == [op |-> "serialize"]
<1>1. /\ todo = <<c, ReleaseOf(s)>> /\ Head(todo) = c /\ Tail(todo) = <<ReleaseOf(s)>>
      /\ LeftAfterFailure(Tail(todo)) = <<ReleaseOf(s)>> /\ todo[2].holder = s
  <2>1. todo = <<c, ReleaseOf(s)>>
    BY CheckpointScripts
  <2>2. ReleaseOf(s).op = "release" /\ ReleaseOf(s).holder = s
    BY DEF ReleaseOf
  <2>3. \A x, y : <<x, y>>[2] = y
    OBVIOUS
  <2> DEFINE r == ReleaseOf(s)
  <2> HIDE DEF c, r
  <2>4. /\ Head(<<c, r>>) = c /\ Tail(<<c, r>>) = <<r>>
        /\ r.op = "release" => LeftAfterFailure(<<r>>) = <<r>>
    BY ShortTails
  <2> QED BY <2>1, <2>2, <2>3, <2>4 DEF r
<1>2. c.op = "serialize"
  OBVIOUS
<1>3. Called(unit, c) = Accepts(unit) \cup Refuses(unit)
  BY <1>2 DEF Called
<1> HIDE DEF c
<1>4. PICK o \in Called(unit, c) :
        /\ Answer(c, o) /\ todo' = IF o.ok THEN Tail(todo) ELSE LeftAfterFailure(Tail(todo))
        /\ host' = IF ~o.ok /\ c.op # "serialize" THEN "failed"
                   ELSE IF o.ok /\ c.op = "restore" THEN "running" ELSE host
        /\ point' = CASE o.ok /\ c.op = "step" -> c.current + c.size
                       [] o.ok /\ c.op = "restore" -> bytes.point
                       [] OTHER -> point
        /\ bytes' = IF o.ok /\ c.op = "serialize"
                    THEN [view |-> unit.states[held[todo[2].holder]], point |-> point]
                    ELSE bytes
        /\ refused' = (refused \/ (~o.ok /\ ~EngineFails(c, o)))
  BY <1>1 DEF HostCall
<1>5. unit' = unit
  BY <1>3, <1>4 DEF Accepts, Refuses, Answer
<1>6. todo' = <<ReleaseOf(s)>> /\ host' = "running" /\ point' = point /\ ~refused'
  BY <1>1, <1>2, <1>4 DEF HostInv, EngineFails
<1>7. bytes' = bytes \/ bytes' = [view |-> unit.states[held[s]], point |-> point]
  BY <1>1, <1>4
<1>8. bytes' # Void => Ready(bytes'.view, bytes'.point)
  BY <1>7 DEF HostInv
<1>9. BackStage'
  BY <1>6, Zenon DEF BackStage
<1> QED BY <1>5, <1>6, <1>8, <1>9 DEF HostInv, HostStage

(* A checkpoint is given back: the unit is as it was.                      *)
LEMMA ReleaseCall ==
  ASSUME HeldInv, HostInv, HostCall, NEW s \in Holders, todo = <<ReleaseOf(s)>>,
         \/ host = "running" /\ Ready(unit, point)
         \/ host = "failed"
  PROVE  HostInv'
<1> DEFINE c == ReleaseOf(s)
<1>1. Head(todo) = c /\ Tail(todo) = << >> /\ c.op = "release" /\ c.holder = s
  BY DEF ReleaseOf
<1> HIDE DEF c
<1>2. PICK o \in Called(unit, c) :
        /\ Answer(c, o) /\ todo' = IF o.ok THEN Tail(todo) ELSE LeftAfterFailure(Tail(todo))
        /\ host' = IF ~o.ok /\ c.op # "serialize" THEN "failed"
                   ELSE IF o.ok /\ c.op = "restore" THEN "running" ELSE host
        /\ point' = CASE o.ok /\ c.op = "step" -> c.current + c.size
                       [] o.ok /\ c.op = "restore" -> bytes.point
                       [] OTHER -> point
        /\ bytes' = IF o.ok /\ c.op = "serialize"
                    THEN [view |-> unit.states[held[todo[2].holder]], point |-> point]
                    ELSE bytes
        /\ refused' = (refused \/ (~o.ok /\ ~EngineFails(c, o)))
  BY <1>1 DEF HostCall
<1>3. Kept' /\ o.ok /\ View(unit') = View(unit)
  BY <1>1, <1>2, FreeingCall DEF HeldInv
<1>4. todo' = << >> /\ host' = host /\ point' = point /\ bytes' = bytes /\ ~refused'
  BY <1>1, <1>2, <1>3 DEF HostInv
<1>5. IsInstance(unit) /\ IsInstance(unit')
  BY <1>3 DEF HeldInv, Kept
<1>6. (Ready(unit, point) => Ready(unit', point)) /\ unit'.phase = unit.phase
  BY <1>3, <1>5, ReadyStays
<1>7. BackStage'
  BY <1>4 DEF BackStage
<1> QED BY <1>4, <1>6, <1>7 DEF HostInv, HostStage

(* What was saved is put where the unit can take it back.                  *)
LEMMA DeserializeCall ==
  ASSUME HeldInv, HostInv, HostCall, NEW s \in Holders, NEW h \in Handles,
         todo = RestoreScript(s, h), held[s] = Void,
         \/ host = "running" /\ Ready(unit, point)
         \/ host = "failed"
  PROVE  HostInv'
<1> DEFINE c == [op |-> "deserialize", holder |-> s, handle |-> h]
<1>1. /\ Head(todo) = c /\ Tail(todo) = Tail(RestoreScript(s, h))
      /\ LeftAfterFailure(Tail(todo)) = <<ReleaseOf(s)>>
  BY CheckpointScripts
<1>2. c.op = "deserialize" /\ c.holder = s /\ c.handle = h
  OBVIOUS
<1> HIDE DEF c
<1>3. PICK o \in Called(unit, c) :
        /\ Answer(c, o) /\ todo' = IF o.ok THEN Tail(todo) ELSE LeftAfterFailure(Tail(todo))
        /\ host' = IF ~o.ok /\ c.op # "serialize" THEN "failed"
                   ELSE IF o.ok /\ c.op = "restore" THEN "running" ELSE host
        /\ point' = CASE o.ok /\ c.op = "step" -> c.current + c.size
                       [] o.ok /\ c.op = "restore" -> bytes.point
                       [] OTHER -> point
        /\ bytes' = IF o.ok /\ c.op = "serialize"
                    THEN [view |-> unit.states[held[todo[2].holder]], point |-> point]
                    ELSE bytes
        /\ refused' = (refused \/ (~o.ok /\ ~EngineFails(c, o)))
  BY <1>1 DEF HostCall
<1>4. point' = point /\ bytes' = bytes /\ ~refused'
  BY <1>2, <1>3 DEF HostInv, EngineFails
<1>5. Possible(c) /\ bytes # Void /\ todo # << >>
  BY <1>1, <1>2, CheckpointScripts DEF HostCall, HeldInv, RestoresBytes
<1>6. /\ Kept' /\ held' = (IF o.ok THEN [held EXCEPT ![s] = h] ELSE held)
      /\ View(unit') = View(unit)
      /\ o.ok => unit'.states[h] = bytes.view
  BY <1>2, <1>3, <1>5, TakingCall DEF HeldInv
<1>7. IsInstance(unit) /\ IsInstance(unit') /\ (o.ok => held'[s] = h) /\ h # Void
  BY <1>6, ExportedAssumption DEF HeldInv, Kept
<1>8. (Ready(unit, point) => Ready(unit', point)) /\ unit'.phase = unit.phase
  BY <1>6, <1>7, ReadyStays
<1>9. CASE o.ok
  <2>1. todo' = Tail(RestoreScript(s, h)) /\ host' = host
    BY <1>1, <1>2, <1>3, <1>9
  <2>2. held'[s] # Void /\ unit'.states[held'[s]] = bytes'.view
    BY <1>4, <1>6, <1>7, <1>9
  <2>3. BackStage'
    BY <2>1, <2>2 DEF BackStage
  <2> QED BY <1>4, <1>8, <2>1, <2>3 DEF HostInv, HostStage
<1>10. CASE ~o.ok
  <2>1. todo' = <<ReleaseOf(s)>> /\ host' = "failed"
    BY <1>1, <1>2, <1>3, <1>10
  <2>2. BackStage'
    BY <2>1, Zenon DEF BackStage
  <2> QED BY <1>4, <1>8, <2>1, <2>2 DEF HostInv, HostStage
<1> QED BY <1>9, <1>10

(* It is taken back, whole, unless no engine is built for it.              *)
LEMMA RestoreCall ==
  ASSUME HeldInv, HostInv, HostCall, NEW s \in Holders, NEW h \in Handles,
         todo = Tail(RestoreScript(s, h)), held[s] # Void, unit.states[held[s]] = bytes.view,
         \/ host = "running" /\ Ready(unit, point)
         \/ host = "failed"
  PROVE  HostInv'
<1> DEFINE c == [op |-> "restore", holder |-> s]
<1>1. /\ Head(todo) = c /\ Tail(todo) = <<ReleaseOf(s)>>
      /\ LeftAfterFailure(Tail(todo)) = <<ReleaseOf(s)>>
  <2>1. todo = <<c, ReleaseOf(s)>>
    BY CheckpointScripts
  <2>2. ReleaseOf(s).op = "release"
    BY DEF ReleaseOf
  <2> DEFINE r == ReleaseOf(s)
  <2> HIDE DEF c, r
  <2>3. /\ Head(<<c, r>>) = c /\ Tail(<<c, r>>) = <<r>>
        /\ r.op = "release" => LeftAfterFailure(<<r>>) = <<r>>
    BY ShortTails
  <2> QED BY <2>1, <2>2, <2>3 DEF r
<1>2. c.op = "restore" /\ c.holder = s
  OBVIOUS
<1> HIDE DEF c
<1>3. PICK o \in Called(unit, c) :
        /\ Answer(c, o) /\ todo' = IF o.ok THEN Tail(todo) ELSE LeftAfterFailure(Tail(todo))
        /\ host' = IF ~o.ok /\ c.op # "serialize" THEN "failed"
                   ELSE IF o.ok /\ c.op = "restore" THEN "running" ELSE host
        /\ point' = CASE o.ok /\ c.op = "step" -> c.current + c.size
                       [] o.ok /\ c.op = "restore" -> bytes.point
                       [] OTHER -> point
        /\ bytes' = IF o.ok /\ c.op = "serialize"
                    THEN [view |-> unit.states[held[todo[2].holder]], point |-> point]
                    ELSE bytes
        /\ refused' = (refused \/ (~o.ok /\ ~EngineFails(c, o)))
  BY <1>1 DEF HostCall
<1>4. todo' = <<ReleaseOf(s)>> /\ bytes' = bytes
  BY <1>1, <1>2, <1>3
<1>5. bytes # Void /\ todo # << >> /\ host # "free" /\ ~refused
  BY <1>1, <1>2 DEF HostCall, HeldInv, RestoresBytes, HostInv
<1>6. IsView(bytes.view) /\ Ready(bytes.view, bytes.point) /\ IsInstance(unit)
  BY <1>5 DEF HeldInv, HostInv, Kept
<1>7. held[s] \in DOMAIN unit.states
  BY DEF HeldInv, Kept
<1>8. Kept'
  BY <1>2, <1>3, SparingCall DEF HeldInv, SparingOps
<1>9. BackStage'
  BY <1>4, Zenon DEF BackStage
<1>10. Called(unit, c) = Restore(unit, held[s])
  BY <1>2 DEF Called
<1>11. ASSUME o = [unit |-> unit, ok |-> FALSE], EngineFails(c, o) PROVE HostInv'
  <2>1. unit' = unit /\ host' = "failed" /\ ~refused'
    BY <1>2, <1>3, <1>5, <1>11 DEF Answer
  <2> QED BY <1>4, <1>5, <1>9, <2>1 DEF HostInv, HostStage
<1>12. CASE unit.phase = "instantiated"
  <2>1. o = [unit |-> unit, ok |-> FALSE]
    BY <1>3, <1>10, <1>12 DEF Restore, Refuses
  <2> QED BY <1>2, <1>11, <1>12, <2>1 DEF EngineFails
<1>13. CASE unit.phase # "instantiated"
  <2>1. unit.phase \in {"initialization", "step", "error"}
    BY <1>5, <1>13 DEF HostInv, HostPhases
  <2> DEFINE v == bytes.view
  <2>2. PICK e \in Builds(v) : o \in IF e = Void THEN Refuses(unit) ELSE Accepts(Restored(unit, v))
    BY <1>3, <1>7, <1>10, <2>1 DEF Restore
  <2>3. CASE e = Void
    <3>1. o = [unit |-> unit, ok |-> FALSE] /\ Void \in Builds(unit.states[held[c.holder]])
      BY <1>2, <2>2, <2>3 DEF Refuses
    <3> QED BY <1>2, <1>11, <3>1 DEF EngineFails
  <2>4. CASE e # Void
    <3>1. o.ok /\ o.unit = Restored(unit, v)
      BY <2>2, <2>4 DEF Accepts
    <3>2. View(unit') = v
      BY <1>3, <1>6, <3>1, RestoredView DEF Answer
    <3>3. host' = "running" /\ point' = bytes.point /\ ~refused'
      BY <1>2, <1>3, <1>5, <3>1
    <3>4. Ready(unit', point')
      <4>1. IsInstance(unit')
        BY <1>8 DEF Kept
      <4>2. Ready(View(unit'), bytes.point)
        BY <1>6, <3>2
      <4> QED BY <3>3, <4>1, <4>2, ReadyViews
    <3>5. unit'.phase \in HostPhases
      BY <3>4 DEF Ready, Built, HostPhases
    <3> QED BY <1>4, <1>5, <1>6, <1>9, <3>3, <3>4, <3>5 DEF HostInv, HostStage
  <2> QED BY <2>3, <2>4
<1> QED BY <1>12, <1>13

(* Every call that a host has left to make.                                *)
LEMMA HostCallIsDue ==
  ASSUME HeldInv, HostInv, HostCall
  PROVE  HostInv'
<1>1. host # "free" /\ todo # << >>
  BY DEF HostCall, HeldInv
<1>2. CASE host = "running" /\ StartStage
  BY <1>2, StartStageCall
<1>3. CASE host = "running" /\ Ready(unit, point) /\ ReadyStage
  <2>1. CASE todo \in Seq(Reads) \/ Stepping(todo)
    BY <1>3, <2>1, SteppingCall
  <2>2. CASE ~(todo \in Seq(Reads) \/ Stepping(todo))
    <3>1. PICK s \in Holders, h \in Handles :
             \/ todo = SaveScript(s, h) /\ held[s] = Void
             \/ /\ todo = Tail(SaveScript(s, h)) /\ held[s] # Void
                /\ Ready(unit.states[held[s]], point)
      BY <1>3, <2>2 DEF ReadyStage
    <3> QED BY <1>3, <3>1, SaveCall, SerializeCall
  <2> QED BY <2>1, <2>2
<1>4. CASE BackStage /\ (host = "failed" \/ (host = "running" /\ Ready(unit, point)))
  <2>1. PICK s \in Holders, h \in Handles :
           \/ todo = RestoreScript(s, h) /\ held[s] = Void
           \/ /\ todo = Tail(RestoreScript(s, h)) /\ held[s] # Void
              /\ unit.states[held[s]] = bytes.view
           \/ todo = <<ReleaseOf(s)>>
    BY <1>1, <1>4 DEF BackStage
  <2> QED BY <1>4, <2>1, DeserializeCall, RestoreCall, ReleaseCall
<1> QED BY <1>1, <1>2, <1>3, <1>4 DEF HostInv, HostStage

(* A host that has nothing left to call has a unit that is ready.          *)
LEMMA IdleIsReady ==
  ASSUME HostInv, host = "running", todo = << >>
  PROVE  Ready(unit, point)
<1>1. ASSUME Starting(todo) PROVE FALSE
  <2>1. PICK a \in Seq(SetsOf(Imported)), r \in Seq(Reads) : << >> = a \o (Initialize \o r)
    BY <1>1 DEF Starting
  <2>2. a \in Seq(PlainCalls) /\ r \in Seq(PlainCalls) /\ Initialize \in Seq(PlainCalls)
    BY PartsArePlain
  <2>3. Len(Initialize) = 2
    BY DEF Initialize
  <2>4. Initialize \o r \in Seq(PlainCalls) /\ Len(Initialize \o r) = 2 + Len(r)
    <3>1. Initialize \o r \in Seq(PlainCalls) /\ Len(Initialize \o r) = Len(Initialize) + Len(r)
      BY <2>2, ConcatProperties
    <3> QED BY <2>3, <3>1
  <2>5. Len(a \o (Initialize \o r)) = Len(a) + (2 + Len(r))
    BY <2>2, <2>4, ConcatProperties
  <2>6. Len(a) \in Nat /\ Len(r) \in Nat /\ Len(<< >>) = 0
    BY <2>2
  <2> QED BY <2>1, <2>5, <2>6
<1>2. ASSUME NEW cs, Starting(cs), todo = <<[op |-> "reset"]>> \o cs PROVE FALSE
  <2>1. cs \in Seq(PlainCalls)
    BY <1>2, PartsArePlain, FirstOf DEF Starting
  <2> DEFINE reset == [op |-> "reset"]
  <2>2. reset \in PlainCalls /\ todo = <<reset>> \o cs
    BY <1>2, PartsArePlain
  <2> HIDE DEF reset
  <2>3. <<reset>> \o cs # << >>
    BY <2>1, <2>2, FirstOf
  <2> QED BY <2>2, <2>3
<1>3. ASSUME NEW r \in Seq(Reads), todo = <<[op |-> "exit"]>> \o r PROVE FALSE
  <2> DEFINE exit == [op |-> "exit"]
  <2>1. r \in Seq(PlainCalls) /\ exit \in PlainCalls /\ todo = <<exit>> \o r
    BY <1>3, PartsArePlain
  <2> HIDE DEF exit
  <2>2. <<exit>> \o r # << >>
    BY <2>1, FirstOf
  <2> QED BY <2>1, <2>2
<1> QED BY <1>1, <1>2, <1>3 DEF HostInv, HostStage, StartStage

(* A run that begins.                                                      *)
LEMMA HostStarts ==
  ASSUME HeldInv, HostInv, HostStart
  PROVE  HostInv'
<1>1. /\ host # "free" /\ todo = << >> /\ unit' = unit /\ held' = held /\ host' = "running"
      /\ point' = 0 /\ bytes' = bytes /\ refused' = refused
      /\ todo' = (IF host = "off" THEN << >> ELSE <<[op |-> "reset"]>>) \o Script
  BY DEF HostStart, Asks, Idle
<1> DEFINE a == Settings(SetToSeq(ParameterNames), StartValues)
           b == Settings(SetToSeq(InputNames), inputs)
<1>2. a \in Seq(SetsOf(Imported)) /\ b \in Seq(SetsOf(Imported)) /\ Readings \in Seq(Reads)
  <2>1. a \in Seq(SetsOf(ParameterNames))
    BY ExportedAssumption, SettingsType DEF Values, Names
  <2>2. b \in Seq(SetsOf(InputNames))
    BY SettingsType DEF HeldInv
  <2>3. \A S \in {InputNames, ParameterNames} : SetsOf(S) \subseteq SetsOf(Imported)
    BY DEF SetsOf, Imported
  <2>4. \A P, Q : P \subseteq Q => Seq(P) \subseteq Seq(Q)
    OBVIOUS
  <2> HIDE DEF a, b
  <2> QED BY <2>1, <2>2, <2>3, <2>4, ReadingsType
<1>3. Script \in Seq(PlainCalls) /\ Starting(Script)
  <2>1. Script = ((a \o b) \o Initialize) \o Readings
    BY DEF Script
  <2> HIDE DEF a, b
  <2>2. a \in Seq(PlainCalls) /\ b \in Seq(PlainCalls) /\ Initialize \in Seq(PlainCalls)
        /\ Readings \in Seq(PlainCalls)
    BY <1>2, PartsArePlain
  <2>3. a \o b \in Seq(SetsOf(Imported)) /\ a \o b \in Seq(PlainCalls)
    <3>1. a \o b \in Seq(SetsOf(Imported))
      BY <1>2, ConcatProperties
    <3>2. a \o b \in Seq(PlainCalls)
      BY <2>2, ConcatProperties
    <3> QED BY <3>1, <3>2
  <2>4. Script = (a \o b) \o (Initialize \o Readings)
    <3> DEFINE ab == a \o b
    <3>1. ab \in Seq(PlainCalls) /\ Script = (ab \o Initialize) \o Readings
      BY <2>1, <2>3
    <3> HIDE DEF ab
    <3>2. (ab \o Initialize) \o Readings = ab \o (Initialize \o Readings)
      <4>1. \A x, y, z \in Seq(PlainCalls) : (x \o y) \o z = x \o (y \o z)
        BY ConcatAssociative
      <4> QED BY <2>2, <3>1, <4>1, Zenon
    <3> QED BY <3>1, <3>2 DEF ab
  <2>5. Script \in Seq(PlainCalls)
    BY <2>2, <2>3, <2>4, FirstOf
  <2> QED BY <1>2, <2>3, <2>4, <2>5 DEF Starting
<1>4. CASE host = "off"
  <2>1. Early(unit) /\ todo' = Script
    <3>1. << >> \o Script = Script
      BY <1>3
    <3> QED BY <1>1, <1>4, <3>1 DEF HostInv, HostStage
  <2>2. StartStage'
    BY <1>1, <1>3, <2>1 DEF StartStage, Starting, Early
  <2> QED BY <1>1, <2>2 DEF HostInv, HostStage
<1>5. CASE host # "off"
  <2>1. todo' = <<[op |-> "reset"]>> \o Script
    BY <1>1, <1>5
  <2>2. StartStage'
    BY <1>1, <1>3, <2>1 DEF StartStage, Starting
  <2> QED BY <1>1, <2>2 DEF HostInv, HostStage
<1> QED BY <1>4, <1>5

(* A step, from the date of the unit.                                      *)
LEMMA HostSteps ==
  ASSUME HeldInv, HostInv, NEW size \in {1, 2}, HostStep(size)
  PROVE  HostInv'
<1>1. /\ host = "running" /\ todo = << >> /\ todo' = StepScript(size)
      /\ UNCHANGED <<unit, host, point, held, bytes, refused>>
  BY DEF HostStep, Asks, Idle
<1>2. Ready(unit, point)
  BY <1>1, IdleIsReady
<1> DEFINE b == Settings(SetToSeq(InputNames), inputs)
           step == [op |-> "step", current |-> point, size |-> size]
<1>3. b \in Seq(SetsOf(InputNames)) /\ Readings \in Seq(Reads)
  BY SettingsType, ReadingsType DEF HeldInv
<1>4. StepScript(size) = (b \o <<step>>) \o Readings
  BY DEF StepScript
<1>5. step \in PlainCalls
  BY PartsArePlain DEF HeldInv
<1>6. StepScript(size) = b \o (<<step>> \o Readings)
  <2> HIDE DEF b, step
  <2>1. b \in Seq(PlainCalls) /\ Readings \in Seq(PlainCalls) /\ <<step>> \in Seq(PlainCalls)
    BY <1>3, <1>5, PartsArePlain DEF Imported
  <2> QED BY <1>4, <2>1, ConcatAssociative
<1>7. ReadyStage'
  <2>1. todo' = b \o (<<step>> \o Readings)
    BY <1>1, <1>6
  <2>2. step = [op |-> "step", current |-> point', size |-> size]
    BY <1>1
  <2> HIDE DEF b, step
  <2> QED BY <1>3, <2>1, <2>2 DEF ReadyStage, Stepping
<1> QED BY <1>1, <1>2, <1>7 DEF HostInv, HostStage

(* A snapshot, or one that is taken back.                                  *)
LEMMA HostKeeps ==
  ASSUME HeldInv, HostInv, NEW s \in Holders, NEW h \in Handles,
         HostSave(s, h) \/ HostRestore(s, h)
  PROVE  HostInv'
<1>1. Idle /\ UNCHANGED <<unit, host, point, held, bytes, refused>> /\ host \in {"running", "failed"}
  BY DEF HostSave, HostRestore, Asks
<1>2. held[s] = Void /\ held'[s] = Void
  BY <1>1, IdleHoldsNothing DEF HeldInv, NoneHeldBut
<1>3. host = "running" => Ready(unit, point)
  BY <1>1, IdleIsReady DEF Idle
<1>4. CASE HostSave(s, h)
  <2>1. host = "running" /\ todo' = SaveScript(s, h)
    BY <1>4 DEF HostSave, Asks
  <2>2. ReadyStage'
    BY <1>2, <2>1 DEF ReadyStage
  <2> QED BY <1>1, <1>3, <2>1, <2>2 DEF HostInv, HostStage
<1>5. CASE HostRestore(s, h)
  <2>1. todo' = RestoreScript(s, h)
    BY <1>5 DEF HostRestore, Asks
  <2>2. BackStage'
    BY <1>2, <2>1 DEF BackStage
  <2> QED BY <1>1, <1>3, <2>2 DEF HostInv, HostStage
<1> QED BY <1>4, <1>5

(* The code of the unit that panics.                                       *)
LEMMA HostPanics ==
  ASSUME HeldInv, HostInv, HostPanic
  PROVE  HostInv'
<1>1. IsInstance(unit) /\ host # "free"
  BY DEF HostPanic, HeldInv, Kept
<1>2. unit'.phase = "error"
  <2>1. PICK w : unit' = [Poisoned(unit) EXCEPT !.engine = [unit.engine EXCEPT !.values = w]]
    BY DEF HostPanic, Damaged
  <2> QED BY <1>1, <2>1 DEF Poisoned, IsInstance, UnitFields
<1>3. todo' = << >> /\ host' = "failed" /\ bytes' = bytes /\ refused' = refused
  BY DEF HostPanic
<1> QED BY <1>1, <1>2, <1>3 DEF HostInv, HostStage, BackStage, HostPhases

(* Every step of an importer or of the host.                               *)
LEMMA HostNext == HeldInv /\ HostInv /\ [XNext]_xvars => HostInv'
<1> SUFFICES ASSUME HeldInv, HostInv, [XNext]_xvars PROVE HostInv'
  OBVIOUS
<1>1. ASSUME NEW c \in FreeCalls, Call(c) \/ Panic(c) PROVE HostInv'
  BY <1>1 DEF Call, Panic, HostInv
<1>2. CASE HostStart
  BY <1>2, HostStarts
<1>3. CASE HostCall
  BY <1>3, HostCallIsDue
<1>4. CASE HostPanic
  BY <1>4, HostPanics
<1>5. ASSUME NEW size \in {1, 2}, HostStep(size) PROVE HostInv'
  BY <1>5, HostSteps
<1>6. ASSUME NEW s \in Holders, NEW h \in Handles, HostSave(s, h) \/ HostRestore(s, h)
      PROVE  HostInv'
  BY <1>6, HostKeeps
<1>7. ASSUME NEW n \in InputNames, HostInput(n) PROVE HostInv'
  <2>1. UNCHANGED <<unit, held, todo, host, point, bytes, refused>>
    BY <1>7 DEF HostInput
  <2> QED BY <2>1 DEF HostInv, HostStage, StartStage, Starting, ReadyStage, Stepping, BackStage,
                      Ready, Built, Early
<1>8. CASE UNCHANGED xvars
  <2>1. UNCHANGED <<unit, held, todo, host, point, bytes, refused>>
    BY <1>8 DEF xvars
  <2> QED BY <2>1 DEF HostInv, HostStage, StartStage, Starting, ReadyStage, Stepping, BackStage,
                      Ready, Built, Early
<1> QED BY <1>1, <1>2, <1>3, <1>4, <1>5, <1>6, <1>7, <1>8 DEF XNext

(* A host that has begun no run.                                           *)
LEMMA HostInit == XInit => HostInv
<1> SUFFICES ASSUME XInit PROVE HostInv
  OBVIOUS
<1>1. Early(unit)
  BY DEF XInit, Fresh, Early
<1> QED BY <1>1 DEF XInit, HostInv, HostStage, Early, HostPhases

(* The host of an engine never makes a call that the unit refuses for being *)
(* out of place or at another date: run after run, whatever the units of    *)
(* the model compute, and after errors, panics and snapshots taken back     *)
(* (cosim.rs:280-447).                                                      *)
THEOREM HostTheorem == XInit /\ [][XNext]_xvars => []HostIsNeverRefused
<1>1. XInit => HeldInv /\ HostInv
  BY HeldInit, HostInit
<1>2. HeldInv /\ HostInv /\ [XNext]_xvars => (HeldInv /\ HostInv)'
  BY HeldNext, HostNext
<1>3. HeldInv /\ HostInv => HostIsNeverRefused
  BY DEF HostInv, HostIsNeverRefused
<1> QED BY <1>1, <1>2, <1>3, PTL
=============================================================================
