----------------------------- MODULE Scheduler -----------------------------
(***************************************************************************)
(* The event loop of the engine in drawn mode, without imported units and  *)
(* without continuous evolution: crates/raichu-core/src/engine/run.rs      *)
(* (`step`, `run`, `fire`, `next_pending`), schedule.rs                    *)
(* (`refresh_transition`) and notes.rs (the two guards on runaway firing). *)
(*                                                                         *)
(* Time is a natural number.  The store holds the states of the automata   *)
(* and the attributes that carry memory; whatever the fixpoint derives     *)
(* from them is a function of the store (module Fixpoint), so a guard is a *)
(* set of stores and a state-dependent rate a function of the store.  An   *)
(* action is one call of `step` as `run` makes it, firing included.        *)
(***************************************************************************)
EXTENDS Integers, Sequences, FiniteSets

CONSTANTS
  Loc,          \* automata, and attributes written by firings
  Value,        \* states of automata, and values of attributes
  NTrans,       \* transitions, numbered in the compiled order
  None,         \* the absent value of an option
  ModelOf,      \* the compiled models considered, a function from names to them
  TMax,         \* EngineConfig::t_max, finite
  Never,        \* the infinite date
  WatchedLimit, \* watched firings allowed at one instant (1000 in the code)
  MaxFirings    \* EngineConfig::max_transition_firings, 0 for no cap

Store == [Loc -> Value]
Trans == 1..NTrans

(* A transition.  `writes` are its edge effects; a dated law draws its      *)
(* delay from `draws` (one value for `delay`, {0} for `inst`), a rate law   *)
(* draws the threshold its cumulated hazard must reach.                     *)
TransDef == [aut : Loc, source : Value, targets : SUBSET Value \ {{}},
             law : {"dated", "rate", "watched"},
             draws : SUBSET Nat \ {{}}, rate : [Store -> Nat],
             guard : SUBSET Store, policy : {"reset", "resume", "continue"},
             observer : BOOLEAN, writes : UNION {[L -> Value] : L \in SUBSET Loc}]

(* `goals` are the targets that stop a run, in declaration order; empty     *)
(* when `stop_at_targets` is off.                                           *)
Model == [trans : [Trans -> TransDef], init : Store, goals : Seq(Loc \X Value)]

Models == DOMAIN ModelOf

ASSUME SchedulerAssumption ==
  /\ NTrans \in Nat \ {0}
  /\ ModelOf \in [Models -> Model]
  /\ TMax \in Nat /\ Never \in Nat /\ TMax < Never
  /\ WatchedLimit \in Nat \ {0} /\ MaxFirings \in Nat
  /\ None \notin Int /\ None \notin [cause : Nat, at : Nat]
  /\ None \notin [threshold : Nat, accumulated : Int, rate : Nat, since : Nat]

VARIABLES
  model,        \* which model is run; never changes
  store,        \* Engine::states, and the attributes
  time,         \* Engine::time
  slots,        \* Engine::{pending, armed_wave, frozen, hazards}, by transition
  wave,         \* Engine::wave: firings so far, the rank of what they arm
  streak,       \* Engine::watched_streak
  firings,      \* Engine::{firings, first_firing}, by transition
  seqEnd,       \* Engine::seq_end: the target reached, and when
  status        \* "running", "ended", or the error the run returned

vars == <<model, store, time, slots, wave, streak, firings, seqEnd, status>>

-----------------------------------------------------------------------------
(* The schedule of one transition                                          *)

Hazard == [threshold : Nat, accumulated : Int, rate : Nat, since : Nat]
Slot   == [date : Int \cup {None}, wave : Nat, frozen : Int \cup {None},
           hazard : Hazard \cup {None}]

T(t) == ModelOf[model].trans[t]

InSource(t, s) == s[T(t).aut] = T(t).source
Enabled(t, s)  == s \in T(t).guard
Watched(t)     == T(t).law = "watched"

(* The date at which a hazard reaches its threshold, if its rate stays.     *)
HazardDate(h, now) ==
  IF h.rate > 0 THEN now + ((h.threshold - h.accumulated) \div h.rate) ELSE Never

BankNothing(h, now) == [h EXCEPT !.since = now]

(* The hazard with the stretch at its last rate added.                      *)
Bank(h, now) ==
  [h EXCEPT !.accumulated = h.accumulated + h.rate * (now - h.since), !.since = now]

(* `arm`: a re-dated transition keeps the wave it was armed in.             *)
Arm(slot, date, w) ==
  [slot EXCEPT !.date = date, !.wave = IF slot.date = None THEN w ELSE slot.wave]

SourceLeft(slot) == [slot EXCEPT !.date = None, !.frozen = None, !.hazard = None]

(* `drop_disabled` on a guard that stopped holding.                         *)
Interrupted(t, slot, now) ==
  CASE T(t).policy # "resume" -> [slot EXCEPT !.date = None, !.hazard = None]
    [] T(t).policy = "resume" /\ slot.hazard # None ->
         [slot EXCEPT !.date = None, !.hazard = Bank(slot.hazard, now)]
    [] OTHER -> [slot EXCEPT !.date = None, !.frozen = slot.date - now]

(* `reschedule_modifiable`: the rate of a running hazard changed.           *)
Rescheduled(t, slot, s, now, w) ==
  IF slot.hazard = None \/ T(t).rate[s] = slot.hazard.rate THEN slot
  ELSE LET h == [Bank(slot.hazard, now) EXCEPT !.rate = T(t).rate[s]]
       IN  Arm([slot EXCEPT !.hazard = h], HazardDate(h, now), w)

(* `schedule_deterministic` and `schedule_stochastic`: arm with a fresh     *)
(* draw `d`, or with what an interruption left.                             *)
Armed(t, slot, s, now, w, d) ==
  CASE T(t).law = "rate" ->
         LET fresh == [threshold |-> d, accumulated |-> 0,
                       rate |-> T(t).rate[s], since |-> now]
             h == IF slot.hazard = None THEN fresh
                  ELSE [slot.hazard EXCEPT !.rate = T(t).rate[s], !.since = now]
         IN  Arm([slot EXCEPT !.hazard = h], HazardDate(h, now), w)
    [] T(t).law = "dated" /\ slot.frozen # None ->
         Arm([slot EXCEPT !.frozen = None], now + slot.frozen, w)
    [] OTHER -> Arm(slot, now + d, w)

(* `refresh_transition`.                                                    *)
Refreshed(t, slot, s, now, w, d) ==
  LET runs == Enabled(t, s) \/ T(t).policy = "continue"
  IN  CASE Watched(t) -> slot
        [] ~Watched(t) /\ ~InSource(t, s) -> SourceLeft(slot)
        [] ~Watched(t) /\ InSource(t, s) /\ slot.date # None /\ ~runs ->
             Interrupted(t, slot, now)
        [] ~Watched(t) /\ InSource(t, s) /\ slot.date # None /\ runs ->
             Rescheduled(t, slot, s, now, w)
        [] ~Watched(t) /\ InSource(t, s) /\ slot.date = None /\ Enabled(t, s) ->
             Armed(t, slot, s, now, w, d)
        [] OTHER -> slot

(* One draw for every transition; only those that arm afresh use theirs.    *)
DrawsOf ==
  [m \in Models |->
     LET def == ModelOf[m].trans
     IN  {d \in [Trans -> UNION {def[t].draws : t \in Trans}] :
            \A t \in Trans : d[t] \in def[t].draws}]

Draws == DrawsOf[model]

RefreshSchedule(old, s, now, w, d) ==
  [t \in Trans |-> Refreshed(t, old[t], s, now, w, d[t])]

-----------------------------------------------------------------------------
(* What `step` selects                                                     *)

(* `immediate_watched`: watched transitions whose guard already holds; the  *)
(* first one fires.                                                         *)
Immediate == {t \in Trans : Watched(t) /\ InSource(t, store) /\ Enabled(t, store)}

RankByPosition(t) == <<slots[t].wave, 1, t>>

Rank(t) == <<slots[t].wave, IF T(t).observer THEN 0 ELSE 1, t>>

RankBefore(a, b) ==
  \/ a[1] < b[1]
  \/ a[1] = b[1] /\ a[2] < b[2]
  \/ a[1] = b[1] /\ a[2] = b[2] /\ a[3] < b[3]

Scheduled == {t \in Trans : slots[t].date # None}

IsNextByWave(t) ==
  t \in Scheduled /\ \A u \in Scheduled \ {t} : RankBefore(Rank(t), Rank(u))

(* `next_pending`: earliest date, then arming wave, observers, position.    *)
IsNext(t) ==
  /\ t \in Scheduled
  /\ \A u \in Scheduled \ {t} :
       \/ slots[t].date < slots[u].date
       \/ slots[t].date = slots[u].date /\ RankBefore(Rank(t), Rank(u))

-----------------------------------------------------------------------------
(* One firing                                                              *)

Unfired == [count |-> 0, first |-> 0]

Counted(t, now) ==
  [firings EXCEPT ![t] = [count |-> @.count + 1,
                          first |-> IF @.count = 0 THEN now ELSE @.first]]

(* `note_firing`: the firing that exhausts the budget fails.                *)
Chatters(t) == MaxFirings > 0 /\ firings[t].count + 1 >= MaxFirings

Moved(t, to, s) == [s EXCEPT ![T(t).aut] = to]

Written(t, s) ==
  [l \in Loc |-> IF l \in DOMAIN T(t).writes THEN T(t).writes[l] ELSE s[l]]

(* `check_targets`: the first target active latches, once.                  *)
Active(s) == {g \in 1..Len(ModelOf[model].goals) :
                s[ModelOf[model].goals[g][1]] = ModelOf[model].goals[g][2]}

Latched(s, now, end) ==
  IF end # None \/ Active(s) = {} THEN {end}
  ELSE {[cause |-> g, at |-> now] : g \in {g \in Active(s) : \A h \in Active(s) : g <= h}}

(* `fire` at `now`.  The firing that exhausts the budget has moved its      *)
(* automaton, and stops before its own writes and before any refresh.       *)
Fire(t, now) ==
  /\ wave' = wave + 1
  /\ firings' = IF MaxFirings > 0 THEN Counted(t, now) ELSE firings
  /\ \E to \in T(t).targets :
       LET cleared == [slots EXCEPT ![t] = SourceLeft(@)]
           after   == Written(t, Moved(t, to, store))
       IN  IF Chatters(t)
           THEN /\ store' = Moved(t, to, store)
                /\ slots' = cleared
                /\ status' = "TransitionChattering"
                /\ UNCHANGED seqEnd
           ELSE /\ store' = after
                /\ \E d \in Draws :
                     slots' = RefreshSchedule(cleared, after, now, wave + 1, d)
                /\ seqEnd' \in Latched(after, now, seqEnd)
                /\ UNCHANGED status

(* `note_watched_firing`.                                                   *)
NextStreak ==
  IF streak.at = time THEN [streak EXCEPT !.count = @ + 1]
  ELSE [at |-> time, count |-> 1]

-----------------------------------------------------------------------------
(* `step`                                                                  *)

(* A watched transition fires where it stands, unless the streak is spent.  *)
WatchedFiring(t) ==
  /\ streak' = NextStreak
  /\ UNCHANGED <<model, time>>
  /\ IF NextStreak.count > WatchedLimit
     THEN /\ status' = "WatchedLoop"
          /\ UNCHANGED <<store, slots, wave, firings, seqEnd>>
     ELSE Fire(t, time)

FireWatched(t) == /\ t \in Immediate /\ \A u \in Immediate : t <= u
                  /\ WatchedFiring(t)

Later(a, b) == IF a < b THEN b ELSE a

(* A dated transition fires at its date, or now when it is overdue.         *)
FireDated(t, horizon) ==
  /\ Immediate = {}
  /\ IsNext(t) /\ slots[t].date <= horizon
  /\ time' = Later(slots[t].date, time)
  /\ streak' = [at |-> time', count |-> 0]
  /\ UNCHANGED model
  /\ Fire(t, time')

NothingScheduled(horizon) == Immediate = {} /\ Scheduled = {}

(* `step` returns nothing.                                                  *)
NothingWithin(horizon) == Immediate = {} /\ \A t \in Scheduled : slots[t].date > horizon

-----------------------------------------------------------------------------
(* `run`                                                                   *)

StillDueInHorizon == \E t \in Scheduled : slots[t].date <= TMax

(* A reached target stops the run once nothing is due at its instant.       *)
StillDue == \E t \in Scheduled : slots[t].date <= seqEnd.at

MayStep == status = "running" /\ (seqEnd # None => StillDue)

StepWatched(t) == MayStep /\ FireWatched(t)
StepDated(t)   == MayStep /\ FireDated(t, TMax)

(* Nothing left within the horizon, or the target's instant is complete.    *)
EndRun ==
  /\ status = "running"
  /\ NothingWithin(TMax) \/ (seqEnd # None /\ ~StillDue)
  /\ status' = "ended"
  /\ time' = IF seqEnd # None THEN seqEnd.at ELSE TMax
  /\ UNCHANGED <<model, store, slots, wave, streak, firings, seqEnd>>

-----------------------------------------------------------------------------
Blank == [date |-> None, wave |-> 0, frozen |-> None, hazard |-> None]

(* `initialize`, on a fresh engine.                                         *)
Init ==
  /\ model \in Models
  /\ store = ModelOf[model].init
  /\ time = 0
  /\ \E d \in Draws : slots = RefreshSchedule([t \in Trans |-> Blank], store, 0, 0, d)
  /\ wave = 0
  /\ streak = [at |-> 0, count |-> 0]
  /\ firings = [t \in Trans |-> Unfired]
  /\ seqEnd \in Latched(store, 0, None)
  /\ status = "running"

Step == \E t \in Trans : StepWatched(t) \/ StepDated(t)

Next == Step \/ EndRun

Spec == Init /\ [][Next]_vars

(* `run` loops on one thread until it returns: it always takes its next     *)
(* step.                                                                    *)
FairSpec == Spec /\ WF_vars(Next)

-----------------------------------------------------------------------------
(* Properties                                                              *)

Statuses == {"running", "ended", "WatchedLoop", "TransitionChattering"}

(* Every variable keeps its type, and the clock stays within the horizon.   *)
TypeOK ==
  /\ model \in Models /\ store \in Store /\ time \in 0..TMax
  /\ slots \in [Trans -> Slot] /\ wave \in Nat
  /\ streak \in [at : Nat, count : 0..(WatchedLimit + 1)]
  /\ firings \in [Trans -> [count : Nat, first : Nat]]
  /\ seqEnd \in [cause : Nat, at : 0..TMax] \cup {None}
  /\ status \in Statuses

(* The comment of `step`: "in a step-driven run every scheduled date is >=  *)
(* the current time", so its `max` is a no-op and no countdown is stretched *)
(* by an event that overtook it.                                            *)
NoOverdue ==
  status = "running" => \A t \in Scheduled : slots[t].date >= time

(* The schedule agrees with the state whenever the engine is between two    *)
(* steps: what is enabled has a date; what has a date is in its source, its *)
(* guard holding unless the policy rides through; what left its source has  *)
(* neither countdown nor hazard left; a paused countdown belongs to a       *)
(* `resume` transition whose guard is false.  A slot left stale by one of   *)
(* the branches of `refresh_transition` fires or resumes something the      *)
(* state no longer allows.                                                  *)
ScheduleMatchesState ==
  status \in {"running", "ended"} =>
    \A t \in Trans : LET slot == slots[t] IN
      /\ slot.date # None => /\ ~Watched(t) /\ InSource(t, store)
                             /\ Enabled(t, store) \/ T(t).policy = "continue"
      /\ ~Watched(t) /\ InSource(t, store) /\ Enabled(t, store) => slot.date # None
      /\ ~InSource(t, store) => slot.frozen = None /\ slot.hazard = None
      /\ slot.frozen # None => /\ slot.date = None /\ T(t).policy = "resume"
                               /\ ~Enabled(t, store)
      /\ slot.hazard # None /\ slot.date = None => T(t).policy = "resume"
      /\ slot.date # None => (slot.hazard # None <=> T(t).law = "rate")

(* A one-shot observer: nothing brings its automaton back to its source,    *)
(* and its guard asks for one state of another automaton, which is not an   *)
(* observer's, and nothing else.                                            *)
Observes(o, t) ==
  /\ T(o).observer /\ ~T(t).observer /\ T(o).law = "dated" /\ T(o).draws = {0}
  /\ T(o).aut # T(t).aut
  /\ T(o).guard = {s \in Store : InSource(t, s)}
  /\ \A u \in Trans : /\ T(u).aut = T(o).aut => T(o).source \notin T(u).targets
                      /\ T(o).aut \notin DOMAIN T(u).writes

(* `next_pending`: "a state reached and left within one instant is still    *)
(* observed".  A dated transition never takes an automaton out of a state   *)
(* while a one-shot observer of that state waits to fire, though both are   *)
(* due at the same instant and the observer may be declared last.           *)
ObservedBeforeLeft ==
  [][\A t, o \in Trans :
       (StepDated(t) /\ Observes(o, t) /\ slots[o].date # None)
         => slots[o].date > time']_vars

(* A reached target stops the clock: while the run finishes the instant of  *)
(* the target nothing advances time, and the run ends at that instant, with *)
(* nothing scheduled at it any more.                                        *)
TargetStopsClock ==
  seqEnd # None =>
    /\ status \in {"running", "ended"} => time = seqEnd.at
    /\ status = "ended" => ~StillDue

(* `run` returns: with the two guards on, no model keeps it going for ever, *)
(* and none leaves it without a step to take before it has returned.        *)
RunReturns == <>(status # "running")

-----------------------------------------------------------------------------
(* The scheduler implements the race of lifetimes: dates, frozen            *)
(* countdowns and banked hazards are three encodings of what is left.       *)

(* What is left of a hazard at the present time: only a dated one runs.     *)
HazardLeft(slot) ==
  LET h == IF slot.date = None THEN slot.hazard ELSE Bank(slot.hazard, time)
  IN  h.threshold - h.accumulated

Left(t) ==
  LET slot == slots[t]
  IN  IF slot.hazard # None THEN HazardLeft(slot)
      ELSE IF slot.date # None THEN slot.date - time
      ELSE slot.frozen

Abstract == INSTANCE Race WITH
  now    <- time,
  left   <- [t \in Trans |-> Left(t)],
  halted <- status # "running"

(* The instants of the code are reals, those of the model whole: a hazard   *)
(* reaches its threshold at its date and not between two instants.          *)
DatesAreExact ==
  status = "running" =>
    \A t \in Trans : LET slot == slots[t] IN
      slot.date # None /\ slot.hazard # None /\ slot.hazard.rate > 0 =>
        slot.hazard.rate * (slot.date - slot.hazard.since)
          = slot.hazard.threshold - slot.hazard.accumulated

(* Every run of the scheduler is a run of the race: a transition fires      *)
(* after exactly the lifetime drawn when it was enabled, spent at the rates *)
(* it met and not while it was interrupted, however often it was paused or  *)
(* re-dated on the way, and no event in between was overrun.                *)
ImplementsRace == Abstract!Spec
=============================================================================
