----------------------------- MODULE Operator -----------------------------
(***************************************************************************)
(* A caller and an engine whose stochastic dates are not drawn:            *)
(* crates/raichu-core/src/engine/interactive.rs in the modes other than    *)
(* the drawn one, and the calls of deferred.rs.  In the mode "operator"    *)
(* each command is a transaction: one that fails on its way restores a     *)
(* snapshot.  A call refused before it has changed anything is a stutter,  *)
(* and left out.                                                           *)
(***************************************************************************)
EXTENDS Deferred

CONSTANTS
  Inputs,    \* attributes declared as inputs
  Budgets,   \* values of `max_events` the caller passes
  MaxCalls   \* bound of the exploration: calls the caller makes

Stops == {"target", "event", "choice", "incomplete", "refused"}   \* of `advance_operator_to`

ASSUME OperatorAssumption ==
  /\ Inputs \subseteq Loc /\ Budgets \subseteq Nat /\ MaxCalls \in Nat
  /\ None \notin Stops

VARIABLES
  e,      \* the engine
  bound,  \* the date of the `advance_to` in progress, None between calls
  saved,  \* the snapshot the caller holds, None before the first
  calls,  \* calls made so far
  did     \* history: the last call, how it ended, the instants it fired at

ovars == <<model, e, bound, saved, calls, did>>

Says(call, stop, instants) == did' = [call |-> call, stop |-> stop, instants |-> instants]

Dates == 0..(TMax + 1)   \* the dates a caller asks for, one beyond the horizon

Call == e.error = None /\ bound = None /\ calls < MaxCalls /\ calls' = calls + 1

Automatic == Mode # "operator"

-----------------------------------------------------------------------------
(* Snapshots and transactions                                              *)

(* `restore_rust_snapshot`, field by field.                                 *)
RestoredAllButFirings(now, snap) ==
  [now EXCEPT !.store = snap.store, !.time = snap.time, !.slots = snap.slots,
              !.wave = snap.wave, !.ages = snap.ages, !.hazards = snap.hazards,
              !.dates = snap.dates,
              !.streak = snap.streak,
              !.seqEnd = snap.seqEnd, !.drawn = snap.drawn, !.lived = snap.lived,
              !.error = None]

Restored(now, snap) ==
  [now EXCEPT !.store = snap.store, !.time = snap.time, !.slots = snap.slots,
              !.wave = snap.wave, !.ages = snap.ages, !.hazards = snap.hazards,
              !.dates = snap.dates,
              !.streak = snap.streak, !.firings = snap.firings,
              !.seqEnd = snap.seqEnd, !.drawn = snap.drawn, !.lived = snap.lived,
              !.error = None]

(* `operator_transaction`: an error restores what the command began with.   *)
Outcome(after) ==
  e' = IF after.error # None /\ Mode = "operator" THEN Restored(after, e) ELSE after

Ending(after) == IF after.error = None THEN "done" ELSE "refused"

Command(call, after) ==
  /\ Call
  /\ Outcome(after)
  /\ Says(call, Ending(after), {after.time})
  /\ UNCHANGED <<model, bound, saved>>

-----------------------------------------------------------------------------
(* Automatic calls                                                         *)

(* `step` under a horizon: the watched transitions, the earliest date, or   *)
(* nothing.  A held choice is not fired: the clock stops at its instant.    *)
Steps(horizon) ==
  IF Ready(e) # {} THEN WatchedFired(e, FirstReady(e), None)
  ELSE IF ~DueBy(e, horizon) \/ Held(NextDated(e)) THEN {}
  ELSE LET t == NextDated(e)
       IN  Fired(RestartedAt(e, Later(DateOf(e, t), e.time)), t, None)

StopsAtHeld(horizon) == Ready(e) = {} /\ DueBy(e, horizon) /\ Held(NextDated(e))

AtHeld == RestartedAt(e, Later(DateOf(e, NextDated(e)), e.time))

NothingWithin(horizon) == Ready(e) = {} /\ ~DueBy(e, horizon)

ClockAt(date) == IF e.time < date THEN RestartedAt(e, date) ELSE e

(* `step_until`; `step` is the same without a date to go to.                *)
StepUntil(date) ==
  /\ Automatic /\ e.time <= date /\ date <= TMax
  /\ \E after \in Steps(date)
        \cup (IF StopsAtHeld(date) THEN {AtHeld} ELSE {})
        \cup (IF NothingWithin(date) THEN {ClockAt(date)} ELSE {}) :
       Command("step", after)

(* `advance_to` takes an action for each step it makes.                     *)
AdvanceTo(date) ==
  /\ Call /\ Automatic /\ e.time <= date /\ date <= TMax
  /\ bound' = date
  /\ Says("advance", "going", {})
  /\ UNCHANGED <<model, e, saved>>

AdvanceStep ==
  /\ bound # None
  /\ \E after \in Steps(bound) :
       /\ e' = after
       /\ bound' = IF after.error = None THEN bound ELSE None
  /\ UNCHANGED <<model, saved, calls, did>>

AdvanceReturn ==
  /\ bound # None
  /\ \/ NothingWithin(bound) /\ e' = ClockAt(bound)
     \/ StopsAtHeld(bound) /\ e' = AtHeld
  /\ bound' = None
  /\ UNCHANGED <<model, saved, calls, did>>

(* `probe_deferred` leaves the engine at the stop instant.                  *)
ProbeDeferred(limit) ==
  /\ Automatic /\ e.time <= limit
  /\ Command("probe", Probed(e, limit).engine)

-----------------------------------------------------------------------------
(* `advance_operator_to`                                                   *)

(* `advance_operator_inner`: the engine it is at, the instant it fired at   *)
(* (None before the first firing), where it fired, and why it stopped.      *)
UpToDate(date, instant) == date
UpTo(date, instant) == IF instant = None THEN date ELSE instant

Firings(probe) ==
  IF probe.why = "watched" THEN WatchedFired(probe.engine, probe.event, None)
  ELSE Fired(probe.engine, probe.event, None)

AfterFiring(loop, after) ==
  IF after.error # None THEN [engine |-> after, instant |-> None, at |-> {}, stop |-> "refused"]
  ELSE [engine |-> after, instant |-> after.time, at |-> loop.at \cup {after.time}, stop |-> None]

Stopped(loop, probe, why) == [loop EXCEPT !.engine = probe.engine, !.stop = why]

TurnOn(loop, probe) ==
  CASE probe.event = None -> Stopped(loop, probe, IF loop.instant = None THEN "target" ELSE "event")
    [] probe.event # None /\ Choice(probe.event) -> Stopped(loop, probe, "choice")
    [] OTHER -> AfterFiring(loop, CHOOSE x \in Firings(probe) : TRUE)

Turn(loop, date) ==
  IF loop.stop # None THEN loop
  ELSE TurnOn(loop, Probed(loop.engine, UpTo(date, loop.instant)))

Advanced(en, date, events) ==
  LET after[k \in 0..events] ==
        IF k = 0 THEN [engine |-> en, instant |-> None, at |-> {}, stop |-> None]
        ELSE Turn(after[k - 1], date)
  IN  [after[events] EXCEPT !.stop = IF @ = None THEN "incomplete" ELSE @]

(* No budget: the firing budget of the transitions ends the loop.           *)
Unlimited == NTrans * MaxFirings

Operated(done) == Outcome(done.engine) /\ Says("operate", done.stop, done.at)

AdvanceOperatorTo(date, events) ==
  /\ Call /\ ~Automatic /\ e.time <= date /\ date <= TMax
  /\ Operated(Advanced(e, date, events))
  /\ UNCHANGED <<model, bound, saved>>

-----------------------------------------------------------------------------
(* Firing by hand                                                          *)

BranchOrNone(t) == {None} \cup DOMAIN T(t).targets

(* `fire_deferred_inner`: at a date no event comes before.                  *)
FireDeferredAt(t, date, branch) ==
  /\ Running(e, t)
  /\ branch = None => ~Held(t)
  /\ e.time <= date /\ date <= TMax
  /\ NextDated(e) # None => date <= DateOf(e, NextDated(e))
  /\ e.time < date => Ready(e) = {}
  /\ \E after \in Fired(ClockAt(date), t, branch) : Command("fire_deferred", after)

(* `held_choice_due_before`.                                                *)
HeldBefore(t, date) == \E h \in Trans \ {t} :
  Held(h) /\ e.slots[h].date # None /\ e.slots[h].date < date

(* The operator's date, the engine's, or now for a clock without either.    *)
DateToFire(t) ==
  IF e.dates[t] # None /\ e.dates[t].active THEN e.dates[t].at
  ELSE IF e.slots[t].date # None THEN e.slots[t].date
  ELSE IF Mode = "operator" /\ Running(e, t) THEN e.time ELSE None

FireIdxPastHeld(t, branch) ==
  /\ branch = None => ~Held(t)
  /\ \/ /\ DateToFire(t) # None
        /\ LET date == Later(DateToFire(t), e.time)
           IN  \E after \in Fired(RestartedAt(e, date), t, branch) : Command("fire_idx", after)
     \/ /\ DateToFire(t) = None /\ t \in Ready(e)
        /\ \E after \in WatchedFired(e, t, branch) : Command("fire_idx", after)

(* `fire_idx_unchecked`: at its own date, past the dates before it, held    *)
(* choices excepted.                                                        *)
FireIdx(t, branch) ==
  /\ branch = None => ~Held(t)
  /\ \/ /\ DateToFire(t) # None
        /\ LET date == Later(DateToFire(t), e.time)
           IN  /\ ~HeldBefore(t, date)
               /\ \E after \in Fired(RestartedAt(e, date), t, branch) : Command("fire_idx", after)
     \/ /\ DateToFire(t) = None /\ t \in Ready(e)
        /\ \E after \in WatchedFired(e, t, branch) : Command("fire_idx", after)

(* `fire_now_inner`: where the clock stands.                                *)
FireNow(t, branch) ==
  \/ Armed(e, t) /\ \E after \in Fired(e, t, branch) : Command("fire_now", after)
  \/ /\ ~Armed(e, t) /\ t \in Ready(e)
     /\ \E after \in WatchedFired(e, t, branch) : Command("fire_now", after)

-----------------------------------------------------------------------------
(* Dates and inputs                                                        *)

(* `set_date_idx`: a date of the operator's, or the engine's own replaced.  *)
SetDate(t, date) ==
  /\ e.time <= date
  /\ \/ /\ Mode = "operator" /\ date <= TMax /\ Armed(e, t)
        /\ Command("set_date", [e EXCEPT !.dates[t] = Programmed(date),
                                         !.lived[t].left = date - e.time])
     \/ /\ Automatic /\ e.ages[t] = None /\ e.slots[t].date # None
        /\ Command("set_date", [e EXCEPT !.slots[t].date = date])

Propagated(l, v) == Latched(Refreshed([e EXCEPT !.store[l] = v]))

Reacted(done) ==
  Outcome(done.engine) /\ Says("set_input", Ending(done.engine), done.at)

(* `set_input_inner`, which ends by advancing to the present instant.       *)
SetInput(l, v) ==
  /\ Call /\ e.store[l] # v
  /\ IF Automatic
     THEN /\ e' = Propagated(l, v)
          /\ bound' = IF e.time <= TMax THEN e.time ELSE None
          /\ Says("set_input", "going", {})
     ELSE /\ Reacted(IF e.time > TMax
                     THEN [engine |-> [e EXCEPT !.error = "AdvanceTimeInvalid"], at |-> {}]
                     ELSE Advanced(Propagated(l, v), e.time, Unlimited))
          /\ UNCHANGED bound
  /\ UNCHANGED <<model, saved>>

-----------------------------------------------------------------------------
(* Snapshots                                                               *)

Snapshot ==
  /\ Call /\ saved' = e
  /\ Says("snapshot", "done", {})
  /\ UNCHANGED <<model, e, bound>>

(* A caller whose call failed restores or resets.                           *)
Failed == e.error # None /\ calls < MaxCalls /\ calls' = calls + 1

Restore ==
  /\ (Call \/ Failed) /\ saved # None
  /\ e' = Restored(e, saved)
  /\ Says("rewind", "done", {})
  /\ UNCHANGED <<model, bound, saved>>

(* `reset_inner`: the budgets of firings are cleared in operator mode only. *)
Reset ==
  /\ (Call \/ Failed)
  /\ e' = IF Automatic THEN [Built EXCEPT !.firings = e.firings] ELSE Built
  /\ Says("rewind", "done", {})
  /\ UNCHANGED <<model, bound, saved>>

-----------------------------------------------------------------------------
OInit ==
  /\ model \in Models
  /\ e = Built
  /\ bound = None /\ saved = None /\ calls = 0
  /\ did = [call |-> "new", stop |-> "done", instants |-> {}]

Calling ==
  \/ Snapshot \/ Restore \/ Reset
  \/ \E date \in Dates :
       \/ StepUntil(date) \/ AdvanceTo(date) \/ ProbeDeferred(date)
       \/ \E n \in Budgets : AdvanceOperatorTo(date, n)
       \/ \E t \in Trans : SetDate(t, date) \/ \E b \in BranchOrNone(t) : FireDeferredAt(t, date, b)
  \/ \E t \in Trans : \E b \in BranchOrNone(t) : FireIdx(t, b) \/ FireNow(t, b)
  \/ \E l \in Inputs, v \in Value : SetInput(l, v)

ONext == Calling \/ AdvanceStep \/ AdvanceReturn

OSpec == OInit /\ [][ONext]_ovars

-----------------------------------------------------------------------------
(* Properties                                                              *)

Between == e.error = None

(* The age the explorer reads is the time the clock really spent armed      *)
(* under its policy, and its cumulative hazard the integral of the rates of *)
(* the states gone through, pauses excluded: config.rs, "the age (time      *)
(* spent armed, net of the pauses of a `resume` interruption)" and "the     *)
(* cumulative hazard H accumulated so far", whatever the order of           *)
(* interruptions, resumptions, changes of rate, writes and restores.        *)
AgesAreExact ==
  Between => \A t \in Trans : HasAge(t) =>
    /\ (e.ages[t] # None) = e.lived[t].started
    /\ e.ages[t] # None =>
         /\ Age(e.ages[t], e.time) = e.lived[t].age
         /\ e.ages[t].running = Runs(e, t)
    /\ e.hazards[t] # None =>
         e.lived[t].hazard = e.hazards[t].accumulated
           + IF Runs(e, t) THEN e.hazards[t].rate * (e.time - e.hazards[t].since) ELSE 0

(* The guide: firing "consumes only the date of the transition that         *)
(* actually fired", "source exit cancels its programming", `reset` "cancels *)
(* the date, `resume` pauses its remaining duration, and `continue` retains *)
(* it".  What is left of a date is what the operator asked for less the     *)
(* time its clock has run since.                                            *)
ProgrammedDurationKept ==
  Between => \A t \in Trans :
    /\ (e.dates[t] # None) = (e.lived[t].left # None)
    /\ e.dates[t] # None =>
         /\ e.dates[t].active = Runs(e, t)
         /\ e.lived[t].left = IF e.dates[t].active THEN Later(e.dates[t].at - e.time, 0)
                              ELSE e.dates[t].at

(* Both durations the operator plans with are exact.                        *)
DurationsAreExact == AgesAreExact /\ ProgrammedDurationKept

(* A held choice "is kept at its place among the instant's events": it is   *)
(* due where the clock stands, and no call moves the clock past it before   *)
(* the caller has resolved it or its guard has dropped.                     *)
HeldAtItsInstant ==
  Between => \A t \in Trans : Held(t) /\ e.slots[t].date # None => e.slots[t].date = e.time

(* The clock never goes past an event that is due, a watched transition     *)
(* ready to fire or a date, the engine's or the operator's, but in          *)
(* `fire_idx`, which is asked to: "deliberately overrides the schedule".    *)
NothingSkipped ==
  e'.time > e.time /\ did'.call \notin {"fire_idx", "rewind"} =>
    Ready(e) = {} /\ \A t \in Dated(e) : DateOf(e, t) >= e'.time

(* The guide on `advance_operator_to`: it "stops at the first relevant      *)
(* instant and completes deterministic reactions at that same instant", it  *)
(* "never continues into the next distinct event instant", and "target"     *)
(* says that nothing happened.                                              *)
Operates == calls' = calls + 1 /\ did'.call = "operate"
OneInstant ==
  Operates =>
    /\ did'.instants \subseteq {e'.time}
    /\ did'.stop \in {"event", "target"} =>
         Ready(e') = {} /\ \A t \in Trans : DateOf(e', t) # None => DateOf(e', t) > e'.time
    /\ did'.stop = "target" => e'.store = e.store

(* Instants are completed one by one: no call leaves something due behind   *)
(* the clock, and the operator's advance completes one instant and no more. *)
InstantsAreCompleted == [][NothingSkipped /\ OneInstant]_ovars

(* In operator mode a command that fails has changed nothing: "Any error    *)
(* restores the complete trajectory checkpoint, including RNG and dates".   *)
CommandsAreAtomic ==
  [][Mode = "operator" /\ did'.stop = "refused" => e' = e]_ovars
=============================================================================
