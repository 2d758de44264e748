------------------------------ MODULE Exposure ------------------------------
(***************************************************************************)
(* The exposure tally of a run with rate factors:                          *)
(* crates/raichu-core/src/engine/schedule.rs (`ExposureTally`).  A         *)
(* constant-rate exponential transition is exposed while it is armed and   *)
(* running; the likelihood ratio of a biased run is a function of the      *)
(* total.  The tally is brought up to date before a firing and at the end  *)
(* of the run, never in between.                                           *)
(*                                                                         *)
(* The scheduler gives the dates.  The caller may also advance the clock   *)
(* and write an input between two steps, as in module Interactive.         *)
(***************************************************************************)
EXTENDS Scheduler

CONSTANTS Driven   \* attributes the caller writes, empty for a plain `run`

(* `set_input` writes an attribute, never the state of an automaton.        *)
ASSUME DrivenAssumption ==
  /\ Driven \subseteq Loc
  /\ \A n \in Models : \A t \in Trans : ModelOf[n].trans[t].aut \notin Driven

VARIABLES
  tally,   \* ExposureTally::stats, the exposure in units of 1 / nominal rate
  since,   \* ExposureTally::since
  lived    \* history: the time each transition has spent armed and running

xvars == <<vars, tally, since, lived>>

(* The constant-rate exponential transitions: their delay is drawn.         *)
Exponential == {t \in Trans : T(t).law = "dated" /\ Cardinality(T(t).draws) > 1}

Stretch(t, from, to) == IF slots[t].date # None THEN to - from ELSE 0

AccrueFired(t, until) ==
  /\ tally' = [u \in Trans |-> tally[u] + IF u = t THEN Stretch(u, since, until) ELSE 0]
  /\ since' = until

(* `accrue`, on the schedule the interval was spent under.                  *)
Accrue(t, until) ==
  /\ tally' = [u \in Trans |-> tally[u] + Stretch(u, since, until)]
  /\ since' = until

(* The state is constant between two events: what elapsed, elapsed armed.   *)
Live == lived' = [t \in Trans |-> lived[t] + Stretch(t, time, time')]

XStepDated(t) == StepDated(t) /\ Accrue(t, time') /\ Live

XStepWatched(t) ==
  /\ StepWatched(t) /\ Live
  /\ IF status' = "WatchedLoop" THEN UNCHANGED <<tally, since>> ELSE Accrue(t, time')

XEndRun == EndRun /\ Accrue(0, time') /\ Live

(* `advance_to` past the last event of an interval, and `set_input` at the  *)
(* point it reaches, the reaction of which is left to the steps.            *)
XAdvanceTo(date) ==
  /\ Driven # {} /\ status = "running" /\ seqEnd = None
  /\ time < date /\ NothingWithin(date)
  /\ time' = date /\ streak' = [at |-> date, count |-> 0]
  /\ Live
  /\ UNCHANGED <<model, store, slots, wave, firings, seqEnd, status, tally, since>>

XSetInput(l, v) ==
  /\ status = "running" /\ store[l] # v
  /\ store' = [store EXCEPT ![l] = v]
  /\ \E d \in Draws : slots' = RefreshSchedule(slots, store', time, wave, d)
  /\ seqEnd' \in Latched(store', time, seqEnd)
  /\ UNCHANGED <<model, time, wave, streak, firings, status, tally, since, lived>>

XInit == Init /\ tally = [t \in Trans |-> 0] /\ since = 0 /\ lived = [t \in Trans |-> 0]

XNext ==
  \/ \E t \in Trans : XStepDated(t) \/ XStepWatched(t)
  \/ XEndRun
  \/ \E date \in 1..TMax : XAdvanceTo(date)
  \/ \E l \in Driven, v \in Value : XSetInput(l, v)

XSpec == XInit /\ [][XNext]_xvars

-----------------------------------------------------------------------------
(* What `rate_statistics` answers at the present time.                      *)
Exposed(t) == tally[t] + Stretch(t, since, time)

(* Transitions whose guard a caller's input can turn.                       *)
Turned(t) == \E s \in T(t).guard, l \in Driven, v \in Value : [s EXCEPT ![l] = v] \notin T(t).guard

Exact(t) == status \in {"running", "ended"} => Exposed(t) = lived[t]

(* "Integrates the running time exactly": whatever dropped, paused, resumed *)
(* or fired a transition on the way, the tally is the time it spent armed   *)
(* and running, at every instant a caller may ask and when the run ends.    *)
(* A transition that an input interrupts is left out: `set_input` refreshes *)
(* the schedule without accruing the stretch before.                        *)
TallyIsExact == \A t \in Exponential : ~Turned(t) => Exact(t)
=============================================================================
