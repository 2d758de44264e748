---------------------------- MODULE Interactive ----------------------------
(***************************************************************************)
(* The engine driven by a caller, in drawn mode and without imported       *)
(* units: crates/raichu-core/src/engine/interactive.rs.  The caller mixes  *)
(* `step`, `step_until`, `advance_to`, `set_input`, `set_date`,            *)
(* `fire_idx`, `fire_now`, `snapshot`, `restore` and `reset` in any order, *)
(* and may hand what is left to `run`.                                     *)
(*                                                                         *)
(* A call is one action, except `advance_to` (and the reaction `set_input` *)
(* ends with), which takes one action per step it makes and during which   *)
(* the caller waits.  A caller that meets an error resets or restores.     *)
(***************************************************************************)
EXTENDS Scheduler

CONSTANTS
  Inputs,    \* attributes declared as inputs
  MaxCalls   \* bound of the exploration: calls the caller makes

ASSUME InteractiveAssumption == Inputs \subseteq Loc /\ MaxCalls \in Nat

VARIABLES
  bound,     \* the date of the `advance_to` in progress, None between calls
  saved,     \* the snapshot the caller holds, None before the first
  consumed,  \* the engine was handed to `run`
  calls,     \* calls made so far
  passedOver, \* history: a `fire_idx` went past a date that was due before
  overruled  \* history: a `set_date` moved the date of a running hazard

engine == <<store, time, slots, wave, streak, firings, seqEnd, status>>
caller == <<bound, saved, consumed, calls, passedOver, overruled>>
ivars  == <<model, engine, caller>>

Ready == status = "running" /\ bound = None /\ ~consumed

Call == calls < MaxCalls /\ calls' = calls + 1

(* `step`, one event or nothing.                                            *)
StepWithin(horizon) == \E t \in Trans : FireWatched(t) \/ FireDated(t, horizon)

StepCall ==
  /\ Ready /\ Call
  /\ StepWithin(TMax)
  /\ UNCHANGED <<bound, saved, consumed, passedOver, overruled>>

(* The clock alone moves, up to `date`.                                     *)
MoveClock(date) ==
  /\ time' = Later(time, date)
  /\ streak' = IF time < date THEN [at |-> date, count |-> 0] ELSE streak
  /\ UNCHANGED <<model, store, slots, wave, firings, seqEnd, status>>

StepUntil(date) ==
  /\ Ready /\ Call
  /\ time <= date /\ date <= TMax
  /\ StepWithin(date) \/ (NothingWithin(date) /\ MoveClock(date))
  /\ UNCHANGED <<bound, saved, consumed, passedOver, overruled>>

(* `advance_to`: `while self.step()?.is_some() {}` under the bound, which   *)
(* an error abandons, then the clock is left at the date.                   *)
AdvanceTo(date) ==
  /\ Ready /\ Call
  /\ time <= date /\ date <= TMax
  /\ bound' = date
  /\ UNCHANGED <<model, engine, saved, consumed, passedOver, overruled>>

AdvanceStep ==
  /\ bound # None /\ status = "running"
  /\ StepWithin(bound)
  /\ bound' = IF status' = "running" THEN bound ELSE None
  /\ UNCHANGED <<saved, consumed, calls, passedOver, overruled>>

AdvanceReturnIdle ==
  /\ bound # None /\ status = "running"
  /\ NothingScheduled(bound) /\ MoveClock(bound)
  /\ bound' = None
  /\ UNCHANGED <<saved, consumed, calls, passedOver, overruled>>

AdvanceReturn ==
  /\ bound # None /\ status = "running"
  /\ NothingWithin(bound) /\ MoveClock(bound)
  /\ bound' = None
  /\ UNCHANGED <<saved, consumed, calls, passedOver, overruled>>

(* `set_input_inner`, up to the `advance_to` the present time it ends with, *)
(* which is refused past the horizon: the input stays written.              *)
Reaction == IF time <= TMax THEN time ELSE None

SetInputUnpropagated(l, v) ==
  /\ Ready /\ Call
  /\ store[l] # v
  /\ store' = [store EXCEPT ![l] = v]
  /\ UNCHANGED slots
  /\ seqEnd' \in Latched(store', time, seqEnd)
  /\ bound' = Reaction
  /\ UNCHANGED <<model, time, wave, streak, firings, status,
                 saved, consumed, passedOver, overruled>>

SetInput(l, v) ==
  /\ Ready /\ Call
  /\ store[l] # v
  /\ store' = [store EXCEPT ![l] = v]
  /\ \E d \in Draws : slots' = RefreshSchedule(slots, store', time, wave, d)
  /\ seqEnd' \in Latched(store', time, seqEnd)
  /\ bound' = Reaction
  /\ UNCHANGED <<model, time, wave, streak, firings, status,
                 saved, consumed, passedOver, overruled>>

(* `set_date_idx`: the date of an armed transition, its hazard untouched.   *)
SetDateAnywhere(t, date) ==
  /\ Ready /\ Call
  /\ t \in Scheduled /\ slots[t].date # date
  /\ slots' = [slots EXCEPT ![t].date = date]
  /\ overruled' = (overruled \/ slots[t].hazard # None)
  /\ UNCHANGED <<model, store, time, wave, streak, firings, seqEnd, status,
                 bound, saved, consumed, passedOver>>

SetDate(t, date) ==
  /\ Ready /\ Call
  /\ time <= date /\ t \in Scheduled /\ slots[t].date # date
  /\ slots' = [slots EXCEPT ![t].date = date]
  /\ overruled' = (overruled \/ slots[t].hazard # None)
  /\ UNCHANGED <<model, store, time, wave, streak, firings, seqEnd, status,
                 bound, saved, consumed, passedOver>>

(* `fire_idx_unchecked`, whatever the branch, drawn or forced: the chosen   *)
(* transition fires at its date, past the dates before it, when that date   *)
(* is finite: what lies at Never or beyond stands for an infinite one.      *)
FireIdxDated(t) ==
  /\ t \in Scheduled /\ slots[t].date < Never
  /\ time' = Later(slots[t].date, time)
  /\ streak' = [at |-> time', count |-> 0]
  /\ passedOver' = (passedOver \/ \E u \in Scheduled \ {t} : slots[u].date < time')
  /\ UNCHANGED model
  /\ Fire(t, time')

FireIdx(t) ==
  /\ Ready /\ Call
  /\ FireIdxDated(t) \/ (t \in Immediate /\ WatchedFiring(t) /\ UNCHANGED passedOver)
  /\ UNCHANGED <<bound, saved, consumed, overruled>>

(* `fire_now_inner`: an armed transition fires where the clock stands.      *)
FireNow(t) ==
  /\ Ready /\ Call
  /\ \/ t \in Scheduled /\ Fire(t, time) /\ UNCHANGED <<model, time, streak>>
     \/ t \in Immediate /\ WatchedFiring(t)
  /\ UNCHANGED <<bound, saved, consumed, passedOver, overruled>>

(* `snapshot` and `restore`: the trajectory, its schedule and its budgets.  *)
Snapshot ==
  /\ Ready /\ Call
  /\ saved' = [store |-> store, time |-> time, slots |-> slots, wave |-> wave,
               streak |-> streak, firings |-> firings, seqEnd |-> seqEnd,
               passedOver |-> passedOver, overruled |-> overruled]
  /\ UNCHANGED <<model, engine, bound, consumed, passedOver, overruled>>

Failed == status \in {"WatchedLoop", "TransitionChattering"} /\ ~consumed

Restore ==
  /\ (Ready \/ Failed) /\ Call
  /\ saved # None
  /\ store' = saved.store /\ time' = saved.time
  /\ slots' = saved.slots /\ wave' = saved.wave
  /\ streak' = saved.streak /\ firings' = saved.firings
  /\ seqEnd' = saved.seqEnd
  /\ status' = "running"
  /\ passedOver' = saved.passedOver /\ overruled' = saved.overruled
  /\ UNCHANGED <<model, bound, saved, consumed>>

(* `reset_inner` in drawn mode: everything `Engine::new` sets up, except    *)
(* that the budgets of fired transitions are cleared in operator mode only. *)
Reset ==
  /\ (Ready \/ Failed) /\ Call
  /\ store' = ModelOf[model].init
  /\ time' = 0 /\ wave' = 0
  /\ streak' = [at |-> 0, count |-> 0]
  /\ \E d \in Draws :
       slots' = RefreshSchedule([t \in Trans |-> Blank], store', 0, 0, d)
  /\ seqEnd' \in Latched(store', 0, None)
  /\ status' = "running"
  /\ passedOver' = FALSE /\ overruled' = FALSE
  /\ UNCHANGED <<model, firings, bound, saved, consumed>>

(* `run` takes the engine over: from here on only its own steps.            *)
HandOver ==
  /\ Ready /\ Call
  /\ consumed' = TRUE
  /\ UNCHANGED <<model, engine, bound, saved, passedOver, overruled>>

RunOn == consumed /\ Next /\ UNCHANGED caller

IInit ==
  /\ Init
  /\ bound = None /\ saved = None /\ consumed = FALSE /\ calls = 0
  /\ passedOver = FALSE /\ overruled = FALSE

Dates == 0..(TMax + 1)   \* the dates a caller asks for, one beyond the horizon

Advancing == AdvanceStep \/ AdvanceReturn

Calling ==
  \/ StepCall \/ Snapshot \/ Restore \/ Reset \/ HandOver
  \/ \E date \in Dates : StepUntil(date) \/ AdvanceTo(date)
  \/ \E l \in Inputs, v \in Value : SetInput(l, v)
  \/ \E t \in Trans : FireIdx(t) \/ FireNow(t) \/ \E date \in Dates : SetDate(t, date)

INext == Calling \/ Advancing \/ RunOn

ISpec == IInit /\ [][INext]_ivars

(* The engine runs on the caller's thread: a call that has begun goes on    *)
(* until it returns.  Nothing obliges the caller to call.                   *)
IFairSpec == ISpec /\ WF_ivars(Advancing)

-----------------------------------------------------------------------------
(* Properties                                                              *)

(* A date lies in the past only where a `fire_idx` went past it, or where a *)
(* `set_date` postponed a state-dependent rate and the hazard it went on    *)
(* accumulating outgrew its threshold; no sequence of other calls, whatever *)
(* is paused, resumed, re-dated, saved and restored, leaves one behind.     *)
(* (The comment of `step` knows of the `fire_idx` only.)                    *)
OverdueOnlyByCaller ==
  status = "running" /\ ~passedOver /\ ~overruled =>
    \A t \in Scheduled : slots[t].date >= time

(* The doc of `reset`: "as freshly built", and a run restarted from there   *)
(* "is identical to a fresh Engine::new".                                   *)
Fresh ==
  /\ store = ModelOf[model].init /\ time = 0 /\ wave = 0
  /\ streak = [at |-> 0, count |-> 0]
  /\ firings = [t \in Trans |-> Unfired]
  /\ status = "running"
ResetIsFresh == [][Reset => Fresh']_ivars

(* The calls that take several steps return: `advance_to`, and `set_input`, *)
(* which completes "its discrete reaction before returning".                *)
AdvanceReturns == bound # None ~> bound = None \/ status # "running"
=============================================================================
