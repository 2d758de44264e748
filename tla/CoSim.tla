------------------------------- MODULE CoSim -------------------------------
(***************************************************************************)
(* The scheduler with imported co-simulation units:                        *)
(* crates/raichu-core/src/engine/cosim.rs (the host: `start`, `next_point`,*)
(* `step_due`, `mark_input_changes`, `sample_inputs`) and run.rs           *)
(* (`process_fmu_point`, the communication points of `step` and `run`).    *)
(*                                                                         *)
(* A unit is native code with a state of its own.  It is called at the     *)
(* points of its grid and, when it accepts steps of any length, at the     *)
(* date of an event that changes one of its inputs.  A communication point *)
(* takes several actions (`phase`): the units due step, the model reacts,  *)
(* and that again until no unit is due; then inputs are sampled.           *)
(***************************************************************************)
EXTENDS Scheduler

CONSTANTS
  NUnits,   \* units, in declaration order
  UnitsOf   \* the units of each model, a function from the names of models

Units == 1..NUnits

(* `native` is the state of the native code; a step takes it, with the      *)
(* inputs the host sampled, to `react` of both, whatever the duration, and  *)
(* every output then reads it.                                              *)
IsUnit(d) ==
  /\ d.step \in Nat \ {0} /\ d.variable \in BOOLEAN
  /\ d.inputs \subseteq Loc /\ d.outputs \subseteq Loc
  /\ d.start \in Value
  /\ d.react \in [Value \X [d.inputs -> Value] -> Value]

(* `check_fmu_units`: nothing else writes the output of a unit.             *)
OneWriter(m) ==
  \A u \in Units : LET out == UnitsOf[m][u].outputs IN
    /\ \A v \in Units \ {u} : out \cap UnitsOf[m][v].outputs = {}
    /\ \A t \in Trans : LET def == ModelOf[m].trans[t] IN
         out \cap (DOMAIN def.writes \cup {def.aut}) = {}

ASSUME CoSimAssumption ==
  /\ NUnits \in Nat \ {0}
  /\ DOMAIN UnitsOf = Models
  /\ \A m \in Models : OneWriter(m) /\ \A u \in Units : IsUnit(UnitsOf[m][u])

VARIABLES
  units,  \* CoSimulationHost::units: the position, held inputs and native state
  phase,  \* "idle", or inside `process_fmu_point`: "point" or "reacting"
  left    \* history: the inputs of each unit when the clock left its last point

cvars == <<vars, units, phase, left>>

U(u) == UnitsOf[model][u]

Inputs(u, s) == [l \in U(u).inputs |-> s[l]]

-----------------------------------------------------------------------------
(* The host                                                                *)

Regular(u) == (units[u].grid + 1) * U(u).step

PointOf(u) == IF units[u].extra # None THEN units[u].extra ELSE Regular(u)

(* `next_point`.                                                            *)
IsNextPoint(u) == \A v \in Units : PointOf(u) <= PointOf(v)

PointWithin(date) == \E u \in Units : PointOf(u) <= date

MarkedAgain(before, after, now) ==
  [u \in Units |->
     IF /\ now < Regular(u) /\ U(u).variable
        /\ Inputs(u, before) # Inputs(u, after)
     THEN [units[u] EXCEPT !.extra = now] ELSE units[u]]

(* `mark_input_changes`: between two of its points, a unit that accepts     *)
(* steps of any length owes one now; another keeps what it sampled.         *)
Marked(before, after, now) ==
  [u \in Units |->
     IF /\ units[u].last < now /\ now < Regular(u) /\ U(u).variable
        /\ Inputs(u, before) # Inputs(u, after)
     THEN [units[u] EXCEPT !.extra = now] ELSE units[u]]

Due(u) == (units[u].extra = time \/ Regular(u) = time) /\ units[u].last < time

(* One unit of `step_due`: an additional point leaves the grid alone.       *)
Advanced(u) ==
  [units[u] EXCEPT !.native = U(u).react[<<units[u].native, units[u].sampled>>],
                   !.last = time, !.extra = None,
                   !.grid = IF Regular(u) = time THEN @ + 1 ELSE @]

(* `apply_fmu_outputs` of the units in `due`, from the states `us`.         *)
Published(us, due, s) ==
  [l \in Loc |->
     LET from == {u \in due : l \in U(u).outputs}
     IN  IF from = {} THEN s[l] ELSE us[CHOOSE u \in from : TRUE].native]

(* `sample_inputs`: of the units whose last point is now.                   *)
Sampled(us, s, now) ==
  [u \in Units |-> IF us[u].last = now
                   THEN [us[u] EXCEPT !.sampled = Inputs(u, s)] ELSE us[u]]

-----------------------------------------------------------------------------
(* Firings, in and between communication points                            *)

(* `fire` ends by marking the inputs it changed.                            *)
Marking == units' = Marked(store, store', time')

(* When the clock moves, what the inputs are over the interval is settled.  *)
Leaving ==
  left' = [u \in Units |->
             IF units[u].last = time /\ time < time' THEN Inputs(u, store) ELSE left[u]]

CStillDue == StillDue \/ PointWithin(seqEnd.at)

CMayStep == status = "running" /\ phase = "idle" /\ (seqEnd # None => CStillDue)

CStepWatched(t) ==
  /\ CMayStep /\ FireWatched(t) /\ Marking /\ Leaving
  /\ UNCHANGED phase

(* At one date the transitions of the model come before the units.          *)
CStepDated(t) ==
  /\ CMayStep /\ FireDated(t, TMax)
  /\ ~ \E u \in Units : PointOf(u) < slots[t].date
  /\ Marking /\ Leaving
  /\ UNCHANGED phase

-----------------------------------------------------------------------------
(* `process_fmu_point`                                                     *)

(* `step` moves the clock to the next point.                                *)
BeginPoint(u) ==
  /\ CMayStep /\ Immediate = {}
  /\ IsNextPoint(u) /\ PointOf(u) <= TMax
  /\ \A t \in Scheduled : slots[t].date > PointOf(u)
  /\ time' = PointOf(u)
  /\ streak' = [at |-> time', count |-> 0]
  /\ phase' = "point"
  /\ Leaving
  /\ UNCHANGED <<model, store, slots, wave, firings, seqEnd, status, units>>

StepDueUnmarked ==
  /\ phase = "point" /\ PointWithin(time)
  /\ LET due == {u \in Units : Due(u)}
     IN  /\ units' = [u \in Units |-> IF u \in due THEN Advanced(u) ELSE units[u]]
         /\ store' = Published(units', due, store)
  /\ \E d \in Draws : slots' = RefreshSchedule(slots, store', time, wave, d)
  /\ phase' = "reacting"
  /\ UNCHANGED <<model, time, wave, streak, firings, seqEnd, status, left>>

(* Every unit due steps with the inputs of its previous point; then their   *)
(* outputs are written, all of them, and what they change is marked.        *)
StepDue ==
  /\ phase = "point" /\ PointWithin(time)
  /\ LET due  == {u \in Units : Due(u)}
         host == [u \in Units |-> IF u \in due THEN Advanced(u) ELSE units[u]]
     IN  /\ store' = Published(host, due, store)
         /\ units' = [u \in Units |->
                        IF u \in due THEN host[u] ELSE Marked(store, store', time)[u]]
  /\ \E d \in Draws : slots' = RefreshSchedule(slots, store', time, wave, d)
  /\ phase' = "reacting"
  /\ UNCHANGED <<model, time, wave, streak, firings, seqEnd, status, left>>

DueNow(t) == Immediate = {} /\ IsNext(t) /\ slots[t].date <= time

(* The reactions: what is due at this instant fires, until nothing is.      *)
React(t) ==
  /\ phase = "reacting" /\ status = "running"
  /\ \/ FireWatched(t)
     \/ DueNow(t) /\ Fire(t, time) /\ UNCHANGED <<model, time, streak>>
  /\ Marking
  /\ UNCHANGED <<phase, left>>

ReactionsEnd ==
  /\ phase = "reacting" /\ status = "running"
  /\ NothingWithin(time)
  /\ phase' = "point"
  /\ UNCHANGED <<vars, units, left>>

(* No unit is due any more: inputs are sampled for the next interval.       *)
EndPoint ==
  /\ phase = "point" /\ ~PointWithin(time)
  /\ units' = Sampled(units, store, time)
  /\ seqEnd' \in Latched(store, time, seqEnd)
  /\ phase' = "idle"
  /\ UNCHANGED <<model, store, time, slots, wave, streak, firings, status, left>>

(* The end of `run`: nothing left, no unit within the horizon either.       *)
CEndRun ==
  /\ status = "running" /\ phase = "idle"
  /\ \/ NothingWithin(TMax) /\ ~PointWithin(TMax)
     \/ seqEnd # None /\ ~CStillDue
  /\ status' = "ended"
  /\ time' = IF seqEnd # None THEN seqEnd.at ELSE TMax
  /\ Leaving
  /\ UNCHANGED <<model, store, slots, wave, streak, firings, seqEnd, units, phase>>

-----------------------------------------------------------------------------
(* `new_with_host`: `host.start` hands the declared inputs over, the first  *)
(* outputs are read, the schedule is built and the inputs are sampled, all  *)
(* before the first firing.                                                 *)
Started(s) ==
  [u \in Units |-> [last |-> 0, grid |-> 0, extra |-> None, native |-> U(u).start,
                    sampled |-> Inputs(u, s)]]

CInit ==
  /\ model \in Models
  /\ store = Published(Started(ModelOf[model].init), Units, ModelOf[model].init)
  /\ time = 0
  /\ \E d \in Draws : slots = RefreshSchedule([t \in Trans |-> Blank], store, 0, 0, d)
  /\ wave = 0
  /\ streak = [at |-> 0, count |-> 0]
  /\ firings = [t \in Trans |-> Unfired]
  /\ seqEnd \in Latched(store, 0, None)
  /\ status = "running"
  /\ units = Started(store)
  /\ phase = "idle"
  /\ left = [u \in Units |-> Inputs(u, store)]

InPoint == StepDue \/ ReactionsEnd \/ EndPoint \/ \E t \in Trans : React(t)

CStep ==
  \/ \E t \in Trans : CStepWatched(t) \/ CStepDated(t)
  \/ \E u \in Units : BeginPoint(u)

CNext == CStep \/ InPoint \/ CEndRun

CSpec == CInit /\ [][CNext]_cvars

(* The engine and the native code run on one thread, which goes on until    *)
(* `run` returns.                                                           *)
CFairSpec == CSpec /\ WF_cvars(CNext)

-----------------------------------------------------------------------------
(* Properties                                                              *)

(* The guide: regular points are "at t0 + k * h, using an integer grid      *)
(* index" and "an additional point never shifts the regular grid".  With    *)
(* units of different steps, additional points at any date and points that  *)
(* coincide, the clock never passes a regular point of any unit and no unit *)
(* takes one twice.                                                         *)
GridIsKept ==
  status = "running" =>
    \A u \in Units : /\ units[u].grid * U(u).step <= units[u].last
                     /\ time <= Regular(u)

(* The guide: a point "settles sensitive functions and watched guards, then *)
(* samples inputs for the next interval", and a unit advances "with the     *)
(* inputs sampled at the previous point".  Once the clock has left a point, *)
(* what a unit holds is what its inputs were when the last reaction of that *)
(* point, its own or another unit's, was over.  The first interval is left  *)
(* out: its inputs are sampled before the model reacts at instant 0.        *)
HeldFromPoint ==
  \A u \in Units :
    0 < units[u].last /\ units[u].last < time => units[u].sampled = left[u]

(* A unit that accepts steps of any length is never integrated over inputs  *)
(* other than those of the model: whenever the clock moves, be the change   *)
(* the work of a firing, of another unit or of a reaction, it holds the     *)
(* present inputs.                                                          *)
VariableUnitsAreCurrent ==
  [][\A u \in Units :
       U(u).variable /\ units[u].last > 0 /\ time < time' /\ status' = "running"
         => units[u].sampled = Inputs(u, store)]_cvars

(* The clock passes no regular point of a unit, and no kind of unit reads   *)
(* an instant that it was not at: the inputs of its last point over the     *)
(* whole step, or those of the moment.                                      *)
InputsAreHeld == [](GridIsKept /\ HeldFromPoint) /\ VariableUnitsAreCurrent

(* Units may feed one another in a loop at one instant, and the model may   *)
(* react in between: a communication point is over all the same.            *)
PointsComplete == phase # "idle" ~> phase = "idle" \/ status # "running"
=============================================================================
