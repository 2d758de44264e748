------------------------------- MODULE Clocks -------------------------------
(* Drawn clocks and their restart: `refresh_transition` for the laws whose   *)
(* duration is drawn once, the ages kept beside the dates                    *)
(* (`refresh_drawn_clock`), and `restart_from_snapshot`, which redraws what  *)
(* remains of every drawn duration given the age it has reached.             *)
(*                                                                           *)
(* A law is a function from durations to weights, so that a draw is a choice *)
(* with an exact probability; an engine is carried through a distribution of *)
(* engines.  State-dependent rates, biased rates and operator dates are      *)
(* refused by a restart or follow the same pattern and are left out.         *)
EXTENDS Naturals, Sequences, FiniteSets, FiniteSetsExt, SequencesExt, Fractions

CONSTANTS
  PilotStreamBase,      \* 2^63, also `MAX_FINAL_REPLICAS`
  PilotBlock,           \* 2^32
  MaxPilotSize,         \* 2^31
  MaxPilotIterations,   \* 2^31
  StreamBlock,          \* 2^32: the streams of one batch of splitting
  Refused,              \* no stream
  Studies,   \* the studies: a model, a target, a score and a horizon each
  None       \* the absence of a date, of a countdown or of a clock

-----------------------------------------------------------------------------
(* Streams: the 2^64 random streams of a seed (src/crates/raichu-rng and    *)
(* `stream` of splitting.rs) go to final campaigns below `PilotStreamBase`, *)
(* in blocks above it to pilot iterations, and within the final range in    *)
(* blocks to the batches of a splitting campaign.  A request outside the    *)
(* partition is refused.                                                   *)

(* The assertions the crate makes at build time: a block holds a pilot, and  *)
(* the last pilot stream fits the width.                                     *)
ASSUME PartitionOK ==
  /\ PilotStreamBase \in Nat /\ PilotBlock \in Nat /\ MaxPilotSize \in Nat
  /\ MaxPilotIterations \in Nat \ {0} /\ StreamBlock \in Nat \ {0}
  /\ PilotBlock > MaxPilotSize
  /\ PilotStreamBase + (MaxPilotIterations - 1) * PilotBlock + MaxPilotSize - 1
       < 2 * PilotStreamBase
  /\ Refused \notin Nat

FinalStream(replica) == IF replica >= PilotStreamBase THEN Refused ELSE replica

PilotStream(iteration, replica, size) ==
  IF size > MaxPilotSize \/ replica >= size \/ iteration >= MaxPilotIterations THEN Refused
  ELSE PilotStreamBase + iteration * PilotBlock + replica

(* `stream`: rank 0 selects the parents of a batch, the others launch.      *)
StreamByRank(batch, rank) == FinalStream(rank)

Stream(batch, rank) ==
  IF rank >= StreamBlock THEN Refused ELSE FinalStream(batch * StreamBlock + rank)


VARIABLE study

T(i)  == study.trans[i]
Trans == DOMAIN study.trans
Positions == SubSeq([i \in Trans |-> i], 1, Len(study.trans))

PerTrans(x) == SubSeq([i \in Trans |-> x], 1, Len(study.trans))

(* Weights over durations, as outcomes.                                     *)
Weights(law) == MapThenSumSet(LAMBDA d : law[d], DOMAIN law)

Drawn(law) ==
  LET ds == SetToSeq({d \in DOMAIN law : law[d] > 0})
  IN  [k \in DOMAIN ds |-> [p |-> Frac(law[ds[k]], Weights(law)), is |-> ds[k]]]

(* `conditional_delay`: what remains after `age`, with survival             *)
(* S(age + r) / S(age).                                                     *)
Remaining(law, age) ==
  Drawn([r \in {d - age : d \in {x \in DOMAIN law : x > age}} |-> law[age + r]])

InSource(e, i) == e.at[T(i).aut] = T(i).src
Enabled(e, i)  == \A c \in T(i).guard : e.at[c[1]] = c[2]
Stochastic(i)  == Cardinality(DOMAIN T(i).law) > 1

Age(clock, now) == clock.banked + (IF clock.running THEN now - clock.since ELSE 0)

(* `refresh_drawn_clock`.                                                   *)
RefreshedClock(e, i) ==
  LET clock == e.clocks[i]
  IN  CASE ~Stochastic(i) -> clock
        [] Stochastic(i) /\ (~InSource(e, i) \/ (~Enabled(e, i) /\ T(i).policy = "reset")) -> None
        [] Stochastic(i) /\ InSource(e, i) /\ Enabled(e, i) /\ clock = None ->
             [banked |-> 0, since |-> e.time, running |-> TRUE, redraw |-> FALSE]
        [] Stochastic(i) /\ InSource(e, i) /\ ~Enabled(e, i) /\ T(i).policy = "resume"
             /\ clock # None /\ clock.running ->
             [clock EXCEPT !.banked = Age(clock, e.time), !.since = e.time, !.running = FALSE]
        [] Stochastic(i) /\ InSource(e, i) /\ Enabled(e, i) /\ clock # None /\ ~clock.running ->
             [clock EXCEPT !.since = e.time, !.running = TRUE]
        [] OTHER -> clock

(* `arm`.                                                                   *)
Arm(e, i, date) ==
  [e EXCEPT !.slots[i].date = date,
            !.slots[i].wave = IF e.slots[i].date = None THEN e.wave ELSE @]

Thawed(e, i) == [e EXCEPT !.slots[i].frozen = None]

ArmedWith(e, i, delays) ==
  Onward(delays, LAMBDA d : Surely(Arm(e, i, e.time + d)))

(* `redraw_clock`.                                                          *)
RedrawnAfresh(e, i) ==
  ArmedWith(Thawed([e EXCEPT !.clocks[i].redraw = FALSE], i), i, Drawn(T(i).law))

Redrawn(e, i) ==
  ArmedWith(Thawed([e EXCEPT !.clocks[i].redraw = FALSE], i), i,
            Remaining(T(i).law, Age(e.clocks[i], e.time)))

(* `refresh_transition`.                                                    *)
Refreshed(old, i) ==
  LET e     == [old EXCEPT !.clocks[i] = RefreshedClock(old, i)]
      slot  == e.slots[i]
      rides == Enabled(e, i) \/ T(i).policy = "continue"
  IN  CASE ~InSource(e, i) ->
             Surely([e EXCEPT !.slots[i].date = None, !.slots[i].frozen = None])
        [] InSource(e, i) /\ slot.date # None /\ ~rides ->
             Surely([e EXCEPT !.slots[i].date = None,
                              !.slots[i].frozen = IF T(i).policy = "resume"
                                                  THEN slot.date - e.time ELSE @])
        [] InSource(e, i) /\ slot.date = None /\ Enabled(e, i) ->
             IF e.clocks[i] # None /\ e.clocks[i].redraw THEN Redrawn(e, i)
             ELSE IF slot.frozen # None THEN Surely(Arm(Thawed(e, i), i, e.time + slot.frozen))
             ELSE ArmedWith(e, i, Drawn(T(i).law))
        [] OTHER -> Surely(e)

(* `refresh_schedule`, in the order of the transitions.                     *)
RefreshSchedule(e) ==
  Through(Surely(e), Positions, Refreshed)

(* `check_targets`.                                                         *)
Latched(e) == [e EXCEPT !.hit = @ \/ e.at[study.target[1]] = study.target[2]]

(* `fire`.                                                                  *)
Fired(e, i) ==
  LET moved == [e EXCEPT !.slots[i] = [date |-> None, wave |-> @.wave, frozen |-> None],
                         !.clocks[i] = None, !.wave = @ + 1, !.at[T(i).aut] = T(i).dst]
  IN  Onward(RefreshSchedule(moved), LAMBDA x : Surely(Latched(x)))

(* `next_pending`.                                                          *)
Dated(e)   == {i \in Trans : e.slots[i].date # None}
Rank(e, i) == <<e.slots[i].date, e.slots[i].wave, i>>
Before(a, b) == \E k \in 1..3 : a[k] < b[k] /\ \A j \in 1..(k - 1) : a[j] = b[j]
NextOf(e)  == CHOOSE i \in Dated(e) : \A j \in Dated(e) \ {i} : Before(Rank(e, i), Rank(e, j))
DueBy(e, date) == \E i \in Dated(e) : e.slots[i].date <= date

(* One event at or before `until`, or the clock moved there: `step_until`.   *)
StepUntil(e, until) ==
  IF DueBy(e, until) THEN Fired([e EXCEPT !.time = e.slots[NextOf(e)].date], NextOf(e))
  ELSE Surely([e EXCEPT !.time = until])

(* `advance_to` the present instant: what is due at it has fired.           *)
Slot    == [date : Nat \cup {None}, wave : Nat, frozen : Nat \cup {None}]
Clock   == [banked : Nat, since : Nat, running : BOOLEAN, redraw : BOOLEAN]
Engines == [at : [DOMAIN study.init -> STRING], time : Nat, wave : Nat, hit : BOOLEAN,
            slots : Seq(Slot), clocks : Seq(Clock \cup {None})]

Completed[e \in Engines] ==
  IF DueBy(e, e.time) THEN Onward(Fired(e, NextOf(e)), LAMBDA x : Completed[x])
  ELSE Surely(e)

(* `Engine::new`.                                                           *)
Built ==
  LET bare == [at |-> study.init, time |-> 0, wave |-> 0, hit |-> FALSE,
               slots |-> PerTrans([date |-> None, wave |-> 0, frozen |-> None]),
               clocks |-> PerTrans(None)]
  IN  Onward(RefreshSchedule(bare), LAMBDA x : Surely(Latched(x)))

(* `restart_from_snapshot`: running clocks are redrawn at once, paused ones  *)
(* when they run again.                                                     *)
Restarted(e) ==
  Through(Surely(e), Positions,
          LAMBDA x, i : IF x.clocks[i] = None THEN Surely(x)
                        ELSE IF x.clocks[i].running THEN Redrawn(x, i)
                        ELSE Surely([x EXCEPT !.clocks[i].redraw = TRUE]))
=============================================================================
