----------------------------- MODULE Deferred -----------------------------
(***************************************************************************)
(* The engine when the dates of stochastic transitions are not drawn:      *)
(* crates/raichu-core/src/engine/deferred.rs (`refresh_deferred`,          *)
(* `probe_inner`), the operator's dates of interactive.rs                  *)
(* (`refresh_operator_date`), and what run.rs and schedule.rs do in the    *)
(* two modes.  No imported unit, no continuous evolution.                  *)
(*                                                                         *)
(* An engine is a value, and what the code does to it an operator: module  *)
(* Operator drives one engine, module Explore one for each of its workers. *)
(* The mode is the one of the model's configuration: "deferred", "held"    *)
(* (deferred, random choices included) or "operator".                      *)
(***************************************************************************)
EXTENDS Integers, Sequences, FiniteSets

CONSTANTS
  Loc, Value,   \* automata and attributes, their states and values
  NTrans,       \* transitions, numbered in the compiled order
  None,         \* the absent value of an option
  ModelOf,      \* the compiled models considered, a function from names to them
  TMax,         \* EngineConfig::t_max, finite
  WatchedLimit, \* watched firings allowed at one instant (1000 in the code)
  MaxFirings    \* EngineConfig::max_transition_firings

Store  == [Loc -> Value]
Trans  == 1..NTrans
Models == DOMAIN ModelOf

(* `probs` are the weights of the branches of an "inst", `delay` the delay  *)
(* of a "delay", `rate` the rate of a "clock"; the age of a clock is all    *)
(* that its law needs, so one law stands for every stochastic one.          *)
IsTransition(d) ==
  /\ d.aut \in Loc /\ d.source \in Value /\ d.targets \in Seq(Value) \ {<< >>}
  /\ d.law \in {"delay", "inst", "watched", "clock"}
  /\ d.probs \in [1..Len(d.targets) -> Nat] /\ d.delay \in Nat
  /\ \E b \in 1..Len(d.targets) : d.probs[b] > 0
  /\ \A s \in Store : d.rate[s] \in Nat
  /\ d.guard \subseteq Store /\ d.policy \in {"reset", "resume", "continue"}
  /\ d.observer \in BOOLEAN /\ d.failure \in BOOLEAN
  /\ \A l \in DOMAIN d.writes : l \in Loc /\ d.writes[l] \in Value

(* The books of a clock: its age, its hazard; and a date of the operator.   *)
AgeBook    == [armedAt : Int, banked : Int, since : Int, running : BOOLEAN]
HazardBook == [accumulated : Int, rate : Nat, since : Int]
PlannedAt  == [active : BOOLEAN, at : Int]

(* The variants of `EngineError` a call here may end in.                    *)
ErrorNames == {"TransitionChattering", "WatchedLoop", "OperatorChoice", "AdvanceTimeInvalid"}

ASSUME DeferredAssumption ==
  /\ None \notin Int \cup AgeBook \cup HazardBook \cup PlannedAt \cup ErrorNames
  /\ NTrans \in Nat \ {0} /\ TMax \in Nat
  /\ WatchedLimit \in Nat \ {0} /\ MaxFirings \in Nat \ {0}
  /\ \A m \in Models :
       /\ \A t \in Trans : IsTransition(ModelOf[m].trans[t])
       /\ ModelOf[m].init \in Store
       /\ ModelOf[m].goals \in Seq(Loc \X Value)
       /\ ModelOf[m].mode \in {"deferred", "held", "operator"}

VARIABLE model  \* which model; never changes

T(t)  == ModelOf[model].trans[t]
Mode  == ModelOf[model].mode

Watched(t)     == T(t).law = "watched"
InSource(t, s) == s[T(t).aut] = T(t).source
Enabled(t, s)  == s \in T(t).guard

(* `operator_choice` and `held_choice`.  Only an "inst" has branches.       *)
Branches(t) == IF T(t).law # "inst" THEN {1}
               ELSE {b \in DOMAIN T(t).targets : T(t).probs[b] > 0}
Choice(t)   == T(t).law = "inst" /\ Cardinality(Branches(t)) > 1
Held(t)     == Mode = "held" /\ Choice(t)

Later(a, b) == IF a < b THEN b ELSE a

-----------------------------------------------------------------------------
(* What a clock has lived, by definition: the history against which the    *)
(* books of the engine are checked.  A clock starts when its source is      *)
(* active and its guard holds, runs while its policy lets it, and starts    *)
(* over when it fires, leaves its source, or is interrupted under `reset`.  *)

Unborn == [started |-> FALSE, age |-> 0, hazard |-> 0, left |-> None]

Runs(e, t) == e.lived[t].started /\ (Enabled(t, e.store) \/ T(t).policy = "continue")

(* Time passes; `left` is what remains of a duration the operator set.      *)
Aged(e, span) ==
  [t \in Trans |->
     IF ~Runs(e, t) THEN e.lived[t]
     ELSE [e.lived[t] EXCEPT !.age = @ + span,
                             !.hazard = @ + T(t).rate[e.store] * span,
                             !.left = IF @ = None THEN None ELSE Later(@ - span, 0)]]

(* The state changes.                                                       *)
Begun(lived, s) ==
  [t \in Trans |->
     IF InSource(t, s) /\ (Enabled(t, s) \/ (lived[t].started /\ T(t).policy # "reset"))
     THEN [lived[t] EXCEPT !.started = TRUE] ELSE Unborn]

-----------------------------------------------------------------------------
(* `refresh_deferred`: the age of a clock, and the hazard of a rate        *)

Age(age, now) == age.banked + (IF age.running THEN now - age.since ELSE 0)

Banked(h, now) == [h EXCEPT !.accumulated = @ + h.rate * (now - h.since), !.since = now]

NoClock == [age |-> None, hazard |-> None]

Fresh(t, s, now) ==
  [age |-> [armedAt |-> now, banked |-> 0, since |-> now, running |-> TRUE],
   hazard |-> IF T(t).law = "clock"
              THEN [accumulated |-> 0, rate |-> T(t).rate[s], since |-> now] ELSE None]

Paused(c, now) ==
  [age |-> [c.age EXCEPT !.banked = Age(c.age, now), !.since = now, !.running = FALSE],
   hazard |-> IF c.hazard = None THEN None ELSE Banked(c.hazard, now)]

(* The stretch of the pause is not lived.                                   *)
ResumedSincePause(c, t, s, now) ==
  [age |-> [c.age EXCEPT !.running = TRUE],
   hazard |-> IF c.hazard = None THEN None
              ELSE [c.hazard EXCEPT !.rate = T(t).rate[s], !.since = now]]

Resumed(c, t, s, now) ==
  [age |-> [c.age EXCEPT !.since = now, !.running = TRUE],
   hazard |-> IF c.hazard = None THEN None
              ELSE [c.hazard EXCEPT !.rate = T(t).rate[s], !.since = now]]

(* A running rate that changed: what it accrued is banked at the last one.  *)
Rerated(c, t, s, now) ==
  IF c.hazard = None \/ T(t).rate[s] = c.hazard.rate THEN c
  ELSE [c EXCEPT !.hazard = [Banked(c.hazard, now) EXCEPT !.rate = T(t).rate[s]]]

RefreshedClock(c, t, s, now) ==
  LET rides == Enabled(t, s) \/ T(t).policy = "continue"
  IN  CASE ~InSource(t, s)                                -> NoClock
        [] InSource(t, s) /\ c.age = None ->
             IF Enabled(t, s) THEN Fresh(t, s, now) ELSE c
        [] InSource(t, s) /\ c.age # None /\ ~rides ->
             IF ~c.age.running THEN c
             ELSE IF T(t).policy = "resume" THEN Paused(c, now) ELSE NoClock
        [] OTHER -> IF c.age.running THEN Rerated(c, t, s, now)
                    ELSE Resumed(c, t, s, now)

-----------------------------------------------------------------------------
(* `refresh_operator_date`, and the rest of `refresh_transition`           *)

Programmed(at)   == [active |-> TRUE, at |-> at]
Suspended(lasts) == [active |-> FALSE, at |-> lasts]

RefreshedDate(d, t, s, now) ==
  CASE d = None -> None
    [] d # None /\ (~InSource(t, s) \/ (~Enabled(t, s) /\ T(t).policy = "reset")) -> None
    [] d # None /\ InSource(t, s) /\ ~Enabled(t, s) /\ T(t).policy = "resume" /\ d.active ->
         Suspended(Later(d.at - now, 0))
    [] d # None /\ InSource(t, s) /\ Enabled(t, s) /\ ~d.active -> Programmed(now + d.at)
    [] OTHER -> d

Arm(slot, date, w) ==
  [slot EXCEPT !.date = date, !.frozen = None,
               !.wave = IF slot.date = None THEN w ELSE @]

Left(slot) == [slot EXCEPT !.date = None, !.frozen = None]

(* A delay or an instant transition the engine dates itself.                *)
RefreshedSlot(slot, t, s, now, w) ==
  LET rides == Enabled(t, s) \/ T(t).policy = "continue"
  IN  CASE ~InSource(t, s) -> Left(slot)
        [] InSource(t, s) /\ slot.date # None /\ ~rides ->
             [slot EXCEPT !.date = None,
                          !.frozen = IF T(t).policy = "resume" THEN slot.date - now ELSE @]
        [] InSource(t, s) /\ slot.date = None /\ Enabled(t, s) ->
             Arm(slot, now + (IF slot.frozen # None THEN slot.frozen ELSE T(t).delay), w)
        [] OTHER -> slot

(* A held choice is due at the instant it is armed.                         *)
HeldSlot(slot, t, s, now, w) ==
  IF ~(InSource(t, s) /\ Enabled(t, s)) THEN Left(slot)
  ELSE IF slot.date = None THEN Arm(slot, now, w) ELSE slot

HasAge(t) == T(t).law = "clock" \/ Held(t)

(* `refresh_schedule`.                                                      *)
Refreshed(e) ==
  LET clock == [t \in Trans |->
                  IF HasAge(t)
                  THEN RefreshedClock([age |-> e.ages[t], hazard |-> e.hazards[t]],
                                      t, e.store, e.time)
                  ELSE NoClock]
  IN  [e EXCEPT
        !.ages    = [t \in Trans |-> clock[t].age],
        !.hazards = [t \in Trans |-> clock[t].hazard],
        !.slots   = [t \in Trans |->
                       CASE Watched(t) -> @[t]
                         [] Held(t) -> HeldSlot(@[t], t, e.store, e.time, e.wave)
                         [] T(t).law = "clock" ->
                              IF InSource(t, e.store) THEN @[t] ELSE Left(@[t])
                         [] OTHER -> RefreshedSlot(@[t], t, e.store, e.time, e.wave)],
        !.dates   = [t \in Trans |->
                       IF Watched(t) \/ Held(t) THEN @[t]
                       ELSE RefreshedDate(@[t], t, e.store, e.time)],
        !.lived   = Begun(@, e.store)]

-----------------------------------------------------------------------------
(* What is due                                                             *)

(* `scheduled_date`: the operator's date, even suspended, hides the other.  *)
DateOf(e, t) ==
  IF e.dates[t] = None THEN e.slots[t].date
  ELSE IF e.dates[t].active THEN e.dates[t].at ELSE None

Dated(e) == {t \in Trans : DateOf(e, t) # None}

Rank(e, t) == <<DateOf(e, t), e.slots[t].wave, IF T(t).observer THEN 0 ELSE 1, t>>

Before(a, b) == \E k \in 1..4 : a[k] < b[k] /\ \A j \in 1..(k - 1) : a[j] = b[j]

(* `next_pending`.                                                          *)
NextDated(e) ==
  IF Dated(e) = {} THEN None
  ELSE CHOOSE t \in Dated(e) : \A u \in Dated(e) \ {t} : Before(Rank(e, t), Rank(e, u))

DueBy(e, date) == NextDated(e) # None /\ DateOf(e, NextDated(e)) <= date

(* `immediate_watched`.                                                     *)
Ready(e) == {t \in Trans : Watched(t) /\ InSource(t, e.store) /\ Enabled(t, e.store)}
FirstReady(e) == CHOOSE t \in Ready(e) : \A u \in Ready(e) : t <= u

(* `is_armed`.                                                              *)
Running(e, t) == e.ages[t] # None /\ e.ages[t].running
Armed(e, t)   == e.slots[t].date # None \/ Running(e, t)

-----------------------------------------------------------------------------
(* Time, and one firing                                                    *)

MovedTo(e, date) == [e EXCEPT !.lived = Aged(e, date - e.time), !.time = date]

RestartedAt(e, date) == [MovedTo(e, date) EXCEPT !.streak = [at |-> date, count |-> 0]]

(* `check_targets`.                                                         *)
Latched(e) ==
  LET goals  == ModelOf[model].goals
      active == {g \in DOMAIN goals : e.store[goals[g][1]] = goals[g][2]}
  IN  IF e.seqEnd # None \/ active = {} THEN e
      ELSE [e EXCEPT !.seqEnd =
              [cause |-> CHOOSE g \in active : \A h \in active : g <= h, at |-> e.time]]

Written(t, s) ==
  [l \in Loc |-> IF l \in DOMAIN T(t).writes THEN T(t).writes[l] ELSE s[l]]

FiredDatesKept(e, t, to) ==
  [e EXCEPT
    !.slots[t] = Left(@), !.ages[t] = None, !.hazards[t] = None,
    !.lived[t] = Unborn,
    !.wave = @ + 1, !.firings[t] = @ + 1, !.store[T(t).aut] = to]

(* `fire`, up to the budget of firings.                                     *)
Moved(e, t, to) ==
  [e EXCEPT
    !.dates[t] = None, !.slots[t] = Left(@), !.ages[t] = None, !.hazards[t] = None,
    !.lived[t] = Unborn,
    !.wave = @ + 1, !.firings[t] = @ + 1, !.store[T(t).aut] = to]

Settled(moved, t) ==
  IF moved.firings[t] >= MaxFirings THEN [moved EXCEPT !.error = "TransitionChattering"]
  ELSE Latched(Refreshed([moved EXCEPT !.store = Written(t, @)]))

FiredTo(e, t, to) == Settled(Moved(e, t, to), t)

(* `fire`: to the branch asked for, to the only one, or to one drawn.       *)
Fired(e, t, branch) ==
  LET drawing == branch = None /\ Choice(t)
  IN  IF drawing /\ Mode = "operator" THEN {[e EXCEPT !.error = "OperatorChoice"]}
      ELSE {FiredTo([e EXCEPT !.drawn = @ \/ drawing], t, T(t).targets[b]) :
              b \in IF branch = None THEN Branches(t) ELSE {branch}}

(* `note_watched_firing`, then the firing.                                  *)
WatchedFired(e, t, branch) ==
  LET count == IF e.streak.at = e.time THEN e.streak.count + 1 ELSE 1
      noted == [e EXCEPT !.streak = [at |-> e.time, count |-> count]]
  IN  IF count > WatchedLimit THEN {[noted EXCEPT !.error = "WatchedLoop"]}
      ELSE Fired(noted, t, branch)

(* `probe_inner`: up to the first event at or before `limit`, unfired.      *)
Probed(e, limit) ==
  LET to(date, why, t) == [engine |-> IF date > e.time THEN MovedTo(e, date) ELSE e,
                           why |-> why, event |-> t]
  IN  CASE Ready(e) # {} -> to(e.time, "watched", FirstReady(e))
        [] Ready(e) = {} /\ DueBy(e, limit) /\ DueBy(e, TMax) ->
             to(Later(DateOf(e, NextDated(e)), e.time), "dated", NextDated(e))
        [] OTHER -> to(IF TMax < limit THEN Later(TMax, e.time) ELSE limit,
                       IF TMax < limit THEN "horizon" ELSE "limit", None)

-----------------------------------------------------------------------------
(* `Engine::new`: nothing scheduled yet, then `initialize`.                 *)
Built ==
  Latched(Refreshed(
    [store |-> ModelOf[model].init, time |-> 0, wave |-> 0,
     slots |-> [t \in Trans |-> [date |-> None, wave |-> 0, frozen |-> None]],
     ages |-> [t \in Trans |-> None], hazards |-> [t \in Trans |-> None],
     dates |-> [t \in Trans |-> None], streak |-> [at |-> 0, count |-> 0],
     firings |-> [t \in Trans |-> 0], seqEnd |-> None, error |-> None,
     drawn |-> FALSE, lived |-> [t \in Trans |-> Unborn]]))
=============================================================================
