--------------------------- MODULE OperatorProofs ---------------------------
(***************************************************************************)
(* Proofs about Operator, for every compiled model, mode, horizon and      *)
(* sequence of calls: the books of the clocks and the operator's dates are *)
(* what was lived, no call moves the clock past something due, and a       *)
(* refused call changes nothing.                                           *)
(***************************************************************************)
EXTENDS Operator, TLAPS, WellFoundedInduction, NaturalsInduction

-----------------------------------------------------------------------------
(* What is true of an engine between two calls.                            *)

EngineFields == {"store", "time", "wave", "slots", "ages", "hazards", "dates", "streak",
                 "firings", "seqEnd", "error", "drawn", "lived"}

IsEngine(en) == en = [x \in EngineFields |-> en[x]]

Slots == [date : Int \cup {None}, wave : Nat, frozen : Int \cup {None}]
Lives == [started : BOOLEAN, age : Int, hazard : Int, left : Int \cup {None}]

Typed(en) ==
  /\ IsEngine(en) /\ en.store \in Store /\ en.time \in Int /\ en.wave \in Nat
  /\ en.slots \in [Trans -> Slots] /\ en.lived \in [Trans -> Lives]
  /\ en.ages \in [Trans -> AgeBook \cup {None}]
  /\ en.hazards \in [Trans -> HazardBook \cup {None}]
  /\ en.dates \in [Trans -> PlannedAt \cup {None}]

Rides(t, s) == Enabled(t, s) \/ T(t).policy = "continue"

(* The age and the hazard of a clock, against what it has lived.           *)
ClockFits(c, life, t, s, now) ==
  /\ (c.age # None) = life.started /\ (c.age = None => c.hazard = None)
  /\ c.age # None =>
       /\ Age(c.age, now) = life.age /\ c.age.running = Rides(t, s)
       /\ T(t).policy = "reset" => c.age.running
  /\ c.hazard # None =>
       /\ life.hazard = c.hazard.accumulated
            + IF c.age.running THEN c.hazard.rate * (now - c.hazard.since) ELSE 0
       /\ c.age.running => c.hazard.rate = T(t).rate[s]

(* A date of the operator, against what is left of it.                     *)
DateFits(d, life, t, s, now) ==
  /\ (d # None) = (life.left # None)
  /\ d # None =>
       /\ Mode = "operator" /\ ~Watched(t)
       /\ d.active = (life.started /\ Rides(t, s)) /\ (~d.active => d.at >= 0)
       /\ life.left = IF d.active THEN Later(d.at - now, 0) ELSE d.at

(* What is dated has started.                                              *)
SlotFits(slot, life, t, s) ==
  slot.date # None => /\ ~Watched(t) /\ T(t).law # "clock"
                      /\ life.started /\ InSource(t, s) /\ Rides(t, s)

FitsAt(en, t, s) ==
  /\ ~en.lived[t].started => en.lived[t] = Unborn
  /\ IF HasAge(t)
     THEN ClockFits([age |-> en.ages[t], hazard |-> en.hazards[t]], en.lived[t], t, s, en.time)
     ELSE en.ages[t] = None /\ en.hazards[t] = None
  /\ DateFits(en.dates[t], en.lived[t], t, s, en.time)
  /\ SlotFits(en.slots[t], en.lived[t], t, s)

Fits(en, s) == \A t \in Trans : FitsAt(en, t, s)

HeldNow(en) ==
  \A t \in Trans : Held(t) /\ en.slots[t].date # None => en.slots[t].date = en.time

EngineInv(en) == Typed(en) /\ Fits(en, en.store) /\ HeldNow(en)

OInv ==
  /\ model \in Models /\ IsEngine(e) /\ calls \in Nat
  /\ e.error = None => EngineInv(e)
  /\ bound # None => e.error = None /\ Automatic /\ bound \in Int
  /\ saved # None => EngineInv(saved) /\ saved.error = None

(* What the assumptions say of a compiled model.                           *)
LEMMA ModelFacts ==
  ASSUME model \in Models
  PROVE  /\ \A t \in Trans : IsTransition(T(t))
         /\ ModelOf[model].init \in Store
         /\ Mode \in {"deferred", "held", "operator"}
         /\ None \notin Int \cup AgeBook \cup HazardBook \cup PlannedAt \cup ErrorNames
         /\ TMax \in Nat /\ NTrans \in Nat
  BY DeferredAssumption DEF T, Mode

(* The parts of a compiled transition.                                     *)
LEMMA TransitionFacts ==
  ASSUME model \in Models, NEW t \in Trans
  PROVE  /\ T(t).aut \in Loc /\ T(t).source \in Value
         /\ T(t).law \in {"delay", "inst", "watched", "clock"}
         /\ T(t).policy \in {"reset", "resume", "continue"}
         /\ T(t).delay \in Nat
         /\ \A s \in Store : T(t).rate[s] \in Nat
  BY ModelFacts DEF IsTransition

(* None is no number, no book, no date and no error.                       *)
LEMMA NoneApart ==
  /\ None \notin Int
  /\ None \notin AgeBook
  /\ None \notin HazardBook
  /\ None \notin PlannedAt
  /\ None \notin ErrorNames
  BY DeferredAssumption

(* The later of two instants.                                              *)
LEMMA LaterFacts ==
  ASSUME NEW a \in Int, NEW b \in Int
  PROVE  /\ Later(a, b) \in Int /\ Later(a, b) >= a /\ Later(a, b) >= b
         /\ Later(a, b) \in {a, b}
  BY DEF Later

-----------------------------------------------------------------------------
(* What the next state leaves of what was lived.                           *)
NextLife(life, t, s) ==
  IF InSource(t, s) /\ (Enabled(t, s) \/ (life.started /\ T(t).policy # "reset"))
  THEN [life EXCEPT !.started = TRUE] ELSE Unborn

(* What a transition has lived, after the state changed: kept by one that  *)
(* is still armed, cleared by the others.                                  *)
LEMMA NextLifeFacts ==
  ASSUME model \in Models, NEW t \in Trans, NEW s \in Store, NEW life \in Lives,
         ~life.started => life = Unborn
  PROVE  /\ NextLife(life, t, s) \in Lives
         /\ NextLife(life, t, s).started => NextLife(life, t, s) = [life EXCEPT !.started = TRUE]
         /\ ~NextLife(life, t, s).started => NextLife(life, t, s) = Unborn
         /\ NextLife(life, t, s).started =
              (InSource(t, s) /\ (Enabled(t, s) \/ (life.started /\ T(t).policy # "reset")))
<1>1. Unborn \in Lives /\ Unborn.started = FALSE
  BY DEF Unborn, Lives
<1>2. [life EXCEPT !.started = TRUE] \in Lives /\ [life EXCEPT !.started = TRUE].started = TRUE
  BY DEF Lives
<1> QED
  BY <1>1, <1>2 DEF NextLife

(* The parts of the books of a clock.                                      *)
LEMMA AgeBookFacts ==
  ASSUME NEW a \in AgeBook, NEW now \in Int
  PROVE  /\ Age(a, now) \in Int /\ a.banked \in Int /\ a.since \in Int
         /\ a.running \in BOOLEAN
  BY DEF Age, AgeBook

LEMMA HazardBookFacts ==
  ASSUME NEW h \in HazardBook, NEW now \in Int
  PROVE  /\ h.rate * (now - h.since) \in Int /\ h.accumulated \in Int /\ h.rate \in Nat
         /\ h.since \in Int
         /\ h = [accumulated |-> h.accumulated, rate |-> h.rate, since |-> h.since]
  BY DEF HazardBook

(* Banking a hazard moves what it accumulated out of the running rate.     *)
LEMMA BankedHazard ==
  ASSUME NEW h \in HazardBook, NEW now \in Int, NEW p, p = Banked(h, now)
  PROVE  /\ p \in HazardBook
         /\ p.accumulated = h.accumulated + h.rate * (now - h.since)
         /\ p.since = now /\ p.rate = h.rate
<1> DEFINE banked == h.accumulated + h.rate * (now - h.since)
<1>1. banked \in Int /\ h.rate \in Nat
  BY HazardBookFacts
<1>2. p = [h EXCEPT !.accumulated = banked, !.since = now]
  <2>1. p = [h EXCEPT !.accumulated = @ + h.rate * (now - h.since), !.since = now]
    BY DEF Banked
  <2>2. h.accumulated + h.rate * (now - h.since) = banked
    OBVIOUS
  <2> QED
    BY <2>1
<1> HIDE DEF banked
<1>3. p \in HazardBook /\ p.accumulated = banked /\ p.since = now /\ p.rate = h.rate
  BY <1>1, <1>2 DEF HazardBook
<1> QED
  BY <1>3 DEF banked

(* The clock kept as a record of its two books.                            *)
IsClock(c) ==
  /\ c = [age |-> c.age, hazard |-> c.hazard]
  /\ c.age \in AgeBook \cup {None} /\ c.hazard \in HazardBook \cup {None}

(* No clock agrees with a transition that has not started.                 *)
LEMMA NoClockFits ==
  ASSUME NEW t, NEW s, NEW now, NEW life, life.started = FALSE
  PROVE  ClockFits([age |-> None, hazard |-> None], life, t, s, now)
  BY DEF ClockFits

(* A clock that runs, and one that is paused.                              *)
LEMMA RunningFits ==
  ASSUME NEW t, NEW s, NEW now, NEW life, NEW c, c.age # None, life.started = TRUE,
         Age(c.age, now) = life.age, c.age.running = TRUE, Rides(t, s),
         c.hazard # None => /\ life.hazard = c.hazard.accumulated
                                              + c.hazard.rate * (now - c.hazard.since)
                            /\ c.hazard.rate = T(t).rate[s]
  PROVE  ClockFits(c, life, t, s, now)
  BY DEF ClockFits

LEMMA PausedFits ==
  ASSUME NEW t, NEW s, NEW now, NEW life, NEW c, c.age # None, life.started = TRUE,
         Age(c.age, now) = life.age, c.age.running = FALSE, ~Rides(t, s),
         T(t).policy # "reset",
         c.hazard # None => life.hazard = c.hazard.accumulated + 0
  PROVE  ClockFits(c, life, t, s, now)
<1>1. (c.age # None) = life.started
  OBVIOUS
<1>2. c.age.running = Rides(t, s)
  BY DEF Rides
<1>3. ~c.age.running
  OBVIOUS
<1>4. c.hazard # None =>
        life.hazard = c.hazard.accumulated
          + IF c.age.running THEN c.hazard.rate * (now - c.hazard.since) ELSE 0
  BY <1>3
<1> QED
  BY <1>1, <1>2, <1>3, <1>4 DEF ClockFits

(* A clock that is dropped.                                                *)
LEMMA NoClockRefreshed ==
  ASSUME NEW t, NEW u, NEW now, NEW c, c = NoClock, NEW next, next = Unborn
  PROVE  IsClock(c) /\ ClockFits(c, next, t, u, now)
<1>1. IsClock(c)
  BY DEF NoClock, IsClock
<1>2. next.started = FALSE
  BY DEF Unborn
<1>3. ClockFits(c, next, t, u, now)
  BY <1>2, NoClockFits DEF NoClock
<1> QED
  BY <1>1, <1>3

(* `refresh_clock`, engine/deferred.rs: whatever the policy and the new    *)
(* state, the books go on agreeing with what was lived.                    *)
LEMMA ClockRefreshed ==
  ASSUME model \in Models, NEW t \in Trans, NEW s \in Store, NEW u \in Store, NEW now \in Int,
         NEW old, IsClock(old), NEW life \in Lives, ~life.started => life = Unborn,
         ClockFits(old, life, t, s, now),
         NEW c, c = RefreshedClock(old, t, u, now), NEW next, next = NextLife(life, t, u)
  PROVE  IsClock(c) /\ ClockFits(c, next, t, u, now)
<1> DEFINE age == old.age
           hazard == old.hazard
<1>0. age \in AgeBook \cup {None} /\ hazard \in HazardBook \cup {None}
      /\ old = [age |-> age, hazard |-> hazard]
  BY DEF IsClock
<1>1. CASE ~InSource(t, u)
  <2>1. c = NoClock /\ next = Unborn
    BY <1>1 DEF RefreshedClock, NextLife
  <2> QED
    BY <2>1, NoClockRefreshed
<1>2. CASE InSource(t, u) /\ age = None /\ ~Enabled(t, u)
  <2>1. c = old /\ hazard = None
    BY <1>2 DEF RefreshedClock, ClockFits
  <2>2. next = Unborn
    BY <1>2 DEF NextLife, ClockFits
  <2> QED
    BY <2>1, <2>2, <1>2, NoneApart DEF Unborn, ClockFits
<1>3. CASE InSource(t, u) /\ age = None /\ Enabled(t, u)
  <2>1. c = Fresh(t, u, now)
    BY <1>3 DEF RefreshedClock
  <2>2. next.started = TRUE /\ next.age = 0 /\ next.hazard = 0
    BY <1>3, NoneApart DEF NextLife, ClockFits, Unborn, Lives
  <2>3. T(t).rate[u] \in Nat
    BY TransitionFacts
  <2>4. c.age \in AgeBook /\ c.hazard \in HazardBook \cup {None}
    <3>1. [armedAt |-> now, banked |-> 0, since |-> now, running |-> TRUE] \in AgeBook
      BY DEF AgeBook
    <3>2. [accumulated |-> 0, rate |-> T(t).rate[u], since |-> now] \in HazardBook
      BY <2>3 DEF HazardBook
    <3> QED
      BY <2>1, <3>1, <3>2 DEF Fresh
  <2>5. c.age # None /\ Age(c.age, now) = 0 /\ c.age.running = TRUE
    <3>1. c.age = [armedAt |-> now, banked |-> 0, since |-> now, running |-> TRUE]
      BY <2>1 DEF Fresh
    <3>2. c.age.running = TRUE /\ c.age.banked = 0 /\ c.age.since = now
      BY <3>1
    <3>3. Age(c.age, now) = 0
      BY <3>2 DEF Age
    <3> QED
      BY <2>4, <3>2, <3>3, NoneApart
  <2>6. c.hazard # None => /\ c.hazard.accumulated = 0 /\ c.hazard.since = now
                           /\ c.hazard.rate = T(t).rate[u]
    BY <2>1 DEF Fresh
  <2>7. c.hazard # None => c.hazard.rate * (now - c.hazard.since) = 0
    <3>1. c.hazard # None => now - c.hazard.since = 0
      BY <2>6
    <3> QED
      BY <3>1, <2>3, <2>6
  <2>8. Rides(t, u)
    BY <1>3 DEF Rides
  <2>9. IsClock(c)
    BY <2>1, <2>4 DEF Fresh, IsClock
  <2>10. ClockFits(c, next, t, u, now)
    <3>1. c.hazard # None => 
             /\ next.hazard = c.hazard.accumulated + c.hazard.rate * (now - c.hazard.since)
             /\ c.hazard.rate = T(t).rate[u]
      BY <2>2, <2>6, <2>7
    <3> QED
      BY <2>2, <2>5, <2>8, <3>1, RunningFits
  <2> QED
    BY <2>9, <2>10
<1>4. ASSUME InSource(t, u), age # None
      PROVE  IsClock(c) /\ ClockFits(c, next, t, u, now)
  <2>0. /\ age \in AgeBook /\ life.started /\ Age(age, now) = life.age
        /\ age.running = Rides(t, s) /\ age.running \in BOOLEAN
        /\ T(t).policy = "reset" => age.running
        /\ T(t).policy \in {"reset", "resume", "continue"} /\ T(t).rate[u] \in Nat
    BY <1>0, <1>4, TransitionFacts DEF ClockFits, AgeBook
  <2>1. CASE ~Rides(t, u) /\ ~age.running
    <3>1. c = old /\ next = [life EXCEPT !.started = TRUE]
      BY <1>4, <2>0, <2>1 DEF RefreshedClock, Rides, NextLife
    <3>2. next.started = TRUE /\ next.age = life.age /\ next.hazard = life.hazard
      BY <3>1 DEF Lives
    <3>3. c.age = age /\ c.hazard = hazard /\ IsClock(c)
      BY <3>1
    <3>4. hazard # None => life.hazard = hazard.accumulated + 0
      BY <1>0, <2>0, <2>1 DEF ClockFits, IsClock
    <3> QED
      <4>1. Age(c.age, now) = next.age /\ c.age # None /\ c.age.running = FALSE
        BY <3>2, <3>3, <2>0, <2>1, <1>4
      <4>2. c.hazard # None => next.hazard = c.hazard.accumulated + 0
        BY <3>2, <3>3, <3>4
      <4>3. ClockFits(c, next, t, u, now)
        BY <4>1, <4>2, <3>2, <2>0, <2>1, PausedFits
      <4> QED
        BY <4>3, <3>3
  <2>2. CASE ~Rides(t, u) /\ age.running /\ T(t).policy = "resume"
    <3>1. c = Paused(old, now) /\ next = [life EXCEPT !.started = TRUE]
      BY <1>4, <2>0, <2>2 DEF RefreshedClock, Rides, NextLife
    <3>2. next.started = TRUE /\ next.age = life.age /\ next.hazard = life.hazard
      BY <3>1 DEF Lives
    <3>3. /\ c.age \in AgeBook /\ c.age.running = FALSE /\ c.age.banked = Age(age, now)
      <4>1. c.age = [age EXCEPT !.banked = Age(age, now), !.since = now, !.running = FALSE]
        BY <3>1 DEF Paused
      <4>2. Age(age, now) \in Int
        BY <2>0, AgeBookFacts
      <4> DEFINE banked == Age(age, now)
      <4> HIDE DEF age, banked
      <4>3. c.age = [age EXCEPT !.banked = banked, !.since = now, !.running = FALSE]
        BY <4>1 DEF banked
      <4>4. c.age \in AgeBook /\ c.age.running = FALSE /\ c.age.banked = banked
        BY <4>2, <4>3, <2>0 DEF AgeBook, banked
      <4> QED
        BY <4>4 DEF banked
    <3>4. hazard # None => /\ hazard \in HazardBook /\ hazard.rate * (now - hazard.since) \in Int
                           /\ life.hazard = hazard.accumulated + hazard.rate * (now - hazard.since)
      <4>1. hazard # None => hazard \in HazardBook
        BY <1>0
      <4>2. hazard # None => life.hazard = hazard.accumulated + hazard.rate * (now - hazard.since)
        BY <2>0, <2>2 DEF ClockFits
      <4> QED
        BY <4>1, <4>2, HazardBookFacts
    <3>5. hazard # None => /\ c.hazard \in HazardBook /\ c.hazard.accumulated = life.hazard
      <4>1. hazard # None => c.hazard = Banked(hazard, now)
        BY <3>1 DEF Paused
      <4> QED
        BY <4>1, <3>4, BankedHazard
    <3>6. hazard = None => c.hazard = None
      BY <3>1 DEF Paused
    <3>7. Age(c.age, now) = life.age
      BY <3>3, <2>0 DEF Age, AgeBook
    <3>8. c.hazard # None => life.hazard = c.hazard.accumulated + 0
      BY <3>5, <3>6 DEF Lives
    <3>9. IsClock(c)
      BY <3>1, <3>3, <3>5, <3>6 DEF Paused, IsClock
    <3>10. ClockFits(c, next, t, u, now)
      <4>1. c.age # None
        BY <3>3, NoneApart
      <4>2. Age(c.age, now) = next.age
        BY <3>7, <3>2
      <4>3. c.hazard # None => next.hazard = c.hazard.accumulated + 0
        BY <3>8, <3>2
      <4> QED
        BY <4>1, <4>2, <4>3, <3>2, <3>3, <2>2, PausedFits
    <3> QED
      BY <3>9, <3>10
  <2>3. CASE ~Rides(t, u) /\ age.running /\ T(t).policy = "reset"
    <3>1. c = NoClock
      BY <1>4, <2>0, <2>3 DEF RefreshedClock, Rides
    <3>2. next = Unborn
      BY <1>4, <2>0, <2>3 DEF NextLife, Rides
    <3> QED
      BY <3>1, <3>2, NoClockRefreshed
  <2>4. CASE Rides(t, u) /\ age.running
    <3>1. c = Rerated(old, t, u, now) /\ next = [life EXCEPT !.started = TRUE]
      BY <1>4, <2>0, <2>4 DEF RefreshedClock, Rides, NextLife
    <3>2. next.started = TRUE /\ next.age = life.age /\ next.hazard = life.hazard
      BY <3>1 DEF Lives
    <3>3. c.age = age /\ c = [age |-> c.age, hazard |-> c.hazard]
      BY <1>0, <3>1 DEF Rerated
    <3>4. hazard # None => /\ hazard \in HazardBook /\ hazard.rate * (now - hazard.since) \in Int
                           /\ life.hazard = hazard.accumulated + hazard.rate * (now - hazard.since)
      <4>1. hazard # None => hazard \in HazardBook
        BY <1>0
      <4>2. hazard # None => life.hazard = hazard.accumulated + hazard.rate * (now - hazard.since)
        BY <2>0, <2>4 DEF ClockFits
      <4> QED
        BY <4>1, <4>2, HazardBookFacts
    <3>5. CASE hazard = None
      <4>1. c.hazard = None
        BY <3>1, <3>5 DEF Rerated
      <4> QED
        <5>1. IsClock(c)
          BY <1>0, <4>1, <3>2, <3>3, <2>0, <2>4 DEF IsClock
        <5>2. ClockFits(c, next, t, u, now)
          BY <1>0, <4>1, <3>2, <3>3, <2>0, <2>4 DEF ClockFits
        <5> QED
          BY <5>1, <5>2
    <3>6. CASE hazard # None /\ T(t).rate[u] = hazard.rate
      <4>1. c.hazard = hazard
        BY <3>1, <3>6 DEF Rerated
      <4> QED
        <5>1. IsClock(c)
          BY <1>0, <4>1, <3>2, <3>3, <3>4, <3>6, <2>0, <2>4, <1>4 DEF IsClock
        <5>2. ClockFits(c, next, t, u, now)
          BY <1>0, <4>1, <3>2, <3>3, <3>4, <3>6, <2>0, <2>4, <1>4 DEF ClockFits
        <5> QED
          BY <5>1, <5>2
    <3>7. CASE hazard # None /\ T(t).rate[u] # hazard.rate
      <4>1. c.hazard = [Banked(hazard, now) EXCEPT !.rate = T(t).rate[u]]
        BY <3>1, <3>7 DEF Rerated
      <4>2. /\ c.hazard \in HazardBook /\ c.hazard.accumulated = life.hazard
            /\ c.hazard.since = now /\ c.hazard.rate = T(t).rate[u]
        <5> DEFINE banked == Banked(hazard, now)
        <5>1. hazard \in HazardBook /\ T(t).rate[u] \in Nat
          BY <3>4, <3>7, <2>0
        <5>2. /\ banked \in HazardBook /\ banked.since = now
              /\ banked.accumulated = hazard.accumulated + hazard.rate * (now - hazard.since)
          <6> HIDE DEF hazard
          <6> QED
            BY <5>1, BankedHazard
        <5>4. banked.accumulated = life.hazard
          BY <5>2, <3>4, <3>7
        <5> HIDE DEF banked
        <5>3. c.hazard = [banked EXCEPT !.rate = T(t).rate[u]]
          BY <4>1 DEF banked
        <5> DEFINE r == T(t).rate[u]
        <5>5. r \in Nat
          BY <5>1
        <5> HIDE DEF r
        <5>6. c.hazard = [banked EXCEPT !.rate = r]
          BY <5>3 DEF r
        <5>7. /\ c.hazard \in HazardBook /\ c.hazard.accumulated = banked.accumulated
              /\ c.hazard.since = banked.since /\ c.hazard.rate = r
          BY <5>2, <5>5, <5>6 DEF HazardBook
        <5> QED
          BY <5>2, <5>4, <5>7 DEF r
      <4>3. c.hazard.rate * (now - c.hazard.since) = 0
        <5>1. now - c.hazard.since = 0
          BY <4>2
        <5> QED
          BY <5>1, <4>2, <2>0
      <4>4. life.hazard \in Int
        BY DEF Lives
      <4>5. next.hazard = c.hazard.accumulated
              + IF c.age.running THEN c.hazard.rate * (now - c.hazard.since) ELSE 0
        BY <4>2, <4>3, <4>4, <3>2, <3>3
      <4> QED
        <5>1. IsClock(c)
          BY <1>0, <4>2, <4>5, <3>2, <3>3, <2>0, <2>4, <1>4, NoneApart DEF IsClock
        <5>2. ClockFits(c, next, t, u, now)
          BY <1>0, <4>2, <4>5, <3>2, <3>3, <2>0, <2>4, <1>4, NoneApart DEF ClockFits
        <5> QED
          BY <5>1, <5>2
    <3> QED
      BY <3>5, <3>6, <3>7
  <2>5. CASE Rides(t, u) /\ ~age.running
    <3>1. c = Resumed(old, t, u, now) /\ next = [life EXCEPT !.started = TRUE]
      BY <1>4, <2>0, <2>5 DEF RefreshedClock, Rides, NextLife
    <3>2. next.started = TRUE /\ next.age = life.age /\ next.hazard = life.hazard
      BY <3>1 DEF Lives
    <3>3. c = [age |-> c.age, hazard |-> c.hazard]
      BY <3>1 DEF Resumed
    <3>4. /\ c.age \in AgeBook /\ c.age.running = TRUE /\ c.age.banked = age.banked
          /\ c.age.since = now
      <4>1. c.age = [age EXCEPT !.since = now, !.running = TRUE]
        BY <3>1 DEF Resumed
      <4> HIDE DEF age
      <4> QED
        BY <4>1, <2>0 DEF AgeBook
    <3>5. Age(c.age, now) = life.age
      BY <3>4, <2>0, <2>5 DEF Age, AgeBook
    <3>6. CASE hazard = None
      <4>1. c.hazard = None
        BY <3>1, <3>6 DEF Resumed
      <4> QED
        <5>1. IsClock(c)
          BY <1>0, <4>1, <3>2, <3>3, <3>4, <3>5, <2>5, NoneApart DEF IsClock
        <5>2. ClockFits(c, next, t, u, now)
          BY <1>0, <4>1, <3>2, <3>3, <3>4, <3>5, <2>5, NoneApart DEF ClockFits
        <5> QED
          BY <5>1, <5>2
    <3>7. CASE hazard # None
      <4>1. c.hazard = [hazard EXCEPT !.rate = T(t).rate[u], !.since = now]
        BY <3>1, <3>7 DEF Resumed
      <4>2. /\ c.hazard \in HazardBook /\ c.hazard.accumulated = hazard.accumulated
            /\ c.hazard.since = now /\ c.hazard.rate = T(t).rate[u]
        <5>1. hazard \in HazardBook /\ T(t).rate[u] \in Nat
          BY <1>0, <3>7, <2>0
        <5> DEFINE r == T(t).rate[u]
        <5> HIDE DEF hazard, r
        <5>2. c.hazard = [hazard EXCEPT !.rate = r, !.since = now] /\ r \in Nat
          BY <4>1, <5>1 DEF r
        <5>3. /\ c.hazard \in HazardBook /\ c.hazard.accumulated = hazard.accumulated
              /\ c.hazard.since = now /\ c.hazard.rate = r
          BY <5>1, <5>2 DEF HazardBook
        <5> QED
          BY <5>3 DEF r
      <4>3. life.hazard = hazard.accumulated + 0 /\ hazard.accumulated \in Int
        BY <1>0, <3>7, <2>0, <2>5, HazardBookFacts DEF ClockFits
      <4>4. c.hazard.rate * (now - c.hazard.since) = 0
        <5>1. now - c.hazard.since = 0
          BY <4>2
        <5> QED
          BY <5>1, <4>2, <2>0
      <4>5. next.hazard = c.hazard.accumulated
              + IF c.age.running THEN c.hazard.rate * (now - c.hazard.since) ELSE 0
        BY <4>2, <4>3, <4>4, <3>2
      <4> QED
        <5>1. IsClock(c)
          BY <1>0, <4>2, <4>5, <3>2, <3>3, <3>4, <3>5, <2>5, NoneApart DEF IsClock
        <5>2. ClockFits(c, next, t, u, now)
          BY <1>0, <4>2, <4>5, <3>2, <3>3, <3>4, <3>5, <2>5, NoneApart DEF ClockFits
        <5> QED
          BY <5>1, <5>2
    <3> QED
      BY <3>6, <3>7
  <2> QED
    BY <2>0, <2>1, <2>2, <2>3, <2>4, <2>5 DEF Rides
<1> QED
  BY <1>1, <1>2, <1>3, <1>4

-----------------------------------------------------------------------------
(* The dates of the operator, and the slots                                *)

(* No date of the operator agrees with a transition that has none left.    *)
LEMMA UnplannedFits ==
  ASSUME NEW t, NEW s, NEW now, NEW life, life.left = None
  PROVE  DateFits(None, life, t, s, now)
  BY DEF DateFits

(* The parts of a planned date.                                            *)
LEMMA PlannedFacts ==
  ASSUME NEW d \in PlannedAt
  PROVE  d.at \in Int /\ d.active \in BOOLEAN /\ d # None
  BY NoneApart DEF PlannedAt

(* The operator's date under a change of state: it runs, pauses with what  *)
(* was left, or is dropped, as the duration it stands for.                 *)
LEMMA DateRefreshed ==
  ASSUME model \in Models, NEW t \in Trans, NEW s \in Store, NEW u \in Store, NEW now \in Int,
         NEW d \in PlannedAt \cup {None}, NEW life \in Lives, ~life.started => life = Unborn,
         DateFits(d, life, t, s, now),
         NEW new, new = RefreshedDate(d, t, u, now), NEW next, next = NextLife(life, t, u)
  PROVE  new \in PlannedAt \cup {None} /\ DateFits(new, next, t, u, now)
<1>0. T(t).policy \in {"reset", "resume", "continue"}
  BY TransitionFacts
<1>1. CASE d = None
  <2>1. new = None
    BY <1>1 DEF RefreshedDate
  <2>2. life.left = None
    BY <1>1 DEF DateFits
  <2>3. next.left = None
    BY <2>2 DEF NextLife, Unborn, Lives
  <2> QED
    BY <2>1, <2>3, UnplannedFits
<1>2. ASSUME d # None
      PROVE  new \in PlannedAt \cup {None} /\ DateFits(new, next, t, u, now)
  <2>0. /\ d \in PlannedAt /\ life.left # None /\ life.started = TRUE
        /\ Mode = "operator" /\ ~Watched(t)
        /\ d.at \in Int /\ d.active \in BOOLEAN
    BY <1>2, PlannedFacts DEF DateFits, Unborn, Lives
  <2>1. /\ d.active = (life.started /\ Rides(t, s)) /\ (~d.active => d.at >= 0)
        /\ life.left = IF d.active THEN Later(d.at - now, 0) ELSE d.at
    BY <1>2 DEF DateFits
  <2>2. CASE ~InSource(t, u) \/ (~Enabled(t, u) /\ T(t).policy = "reset")
    <3>1. new = None
      BY <1>2, <2>2 DEF RefreshedDate
    <3>2. next = Unborn
      BY <2>2 DEF NextLife
    <3> QED
      BY <3>1, <3>2, UnplannedFits DEF Unborn
  <2>3. CASE InSource(t, u) /\ (Enabled(t, u) \/ T(t).policy # "reset")
    <3>1. next = [life EXCEPT !.started = TRUE]
      BY <2>0, <2>3 DEF NextLife
    <3>2. next.started = TRUE /\ next.left = life.left
      BY <3>1 DEF Lives
    <3>3. CASE ~Enabled(t, u) /\ T(t).policy = "resume" /\ d.active
      <4>1. new = Suspended(Later(d.at - now, 0))
        BY <1>2, <2>3, <3>3 DEF RefreshedDate
      <4>2. Later(d.at - now, 0) \in Int /\ Later(d.at - now, 0) >= 0
        BY <2>0 DEF Later
      <4>3. /\ new \in PlannedAt /\ new.active = FALSE /\ new.at = Later(d.at - now, 0)
        BY <4>1, <4>2 DEF Suspended, PlannedAt
      <4>4. next.left = new.at
        BY <4>3, <2>1, <3>2, <3>3
      <4>5. ~Rides(t, u)
        BY <3>3 DEF Rides
      <4>6. new.active = (next.started /\ Rides(t, u))
        BY <4>3, <4>5 DEF Rides
      <4>7. (new # None) = (next.left # None)
        BY <4>3, <2>0, <3>2, NoneApart
      <4> QED
        BY <4>2, <4>3, <4>4, <4>6, <4>7, <2>0 DEF DateFits
    <3>4. CASE Enabled(t, u) /\ ~d.active
      <4>1. new = Programmed(now + d.at)
        BY <1>2, <2>3, <3>4 DEF RefreshedDate
      <4>2. /\ new \in PlannedAt /\ new.active = TRUE /\ new.at = now + d.at
        BY <4>1, <2>0 DEF Programmed, PlannedAt
      <4>3. Later(new.at - now, 0) = d.at
        BY <4>2, <2>0, <2>1, <3>4 DEF Later
      <4>4. next.left = Later(new.at - now, 0)
        BY <4>3, <2>1, <3>2, <3>4
      <4>5. new.active = (next.started /\ Rides(t, u))
        BY <4>2, <3>2, <3>4 DEF Rides
      <4>6. (new # None) = (next.left # None)
        BY <4>2, <2>0, <3>2, NoneApart
      <4> QED
        BY <4>2, <4>4, <4>5, <4>6, <2>0 DEF DateFits
    <3>5. CASE (Enabled(t, u) \/ T(t).policy = "continue" \/ ~d.active)
               /\ (~Enabled(t, u) \/ d.active)
      <4>1. new = d
        BY <1>2, <2>3, <3>5 DEF RefreshedDate
      <4>2. d.active = (next.started /\ Rides(t, u))
        BY <2>0, <2>1, <3>2, <3>5, <1>0 DEF Rides
      <4> QED
        BY <4>1, <4>2, <2>0, <2>1, <3>2, <1>2 DEF DateFits
    <3> QED
      BY <3>3, <3>4, <3>5, <1>0, <2>3, <2>0
  <2> QED
    BY <2>2, <2>3
<1> QED
  BY <1>1, <1>2

(* A transition that is watched or held has no date of the operator to     *)
(* touch.                                                                  *)
LEMMA DateUntouched ==
  ASSUME NEW t \in Trans, NEW s \in Store, NEW u \in Store, NEW now \in Int,
         NEW d \in PlannedAt \cup {None}, NEW life \in Lives,
         DateFits(d, life, t, s, now), Watched(t) \/ Held(t),
         NEW next, next = NextLife(life, t, u)
  PROVE  DateFits(d, next, t, u, now)
<1>1. d = None
  BY DEF DateFits, Held
<1>2. life.left = None
  BY <1>1 DEF DateFits
<1>3. next.left = None
  BY <1>2 DEF NextLife, Unborn, Lives
<1> QED
  BY <1>1, <1>3, UnplannedFits

-----------------------------------------------------------------------------
(* A slot left and a slot armed.                                           *)
LEMMA SlotFacts ==
  ASSUME NEW slot \in Slots, NEW date \in Int, NEW w \in Nat
  PROVE  /\ Left(slot) \in Slots /\ Left(slot).date = None
         /\ Arm(slot, date, w) \in Slots /\ Arm(slot, date, w).date = date
<1>1. Left(slot) \in Slots /\ Left(slot).date = None
  BY DEF Left, Slots
<1> DEFINE wave == IF slot.date = None THEN w ELSE slot.wave
<1>2. wave \in Nat
  BY DEF Slots
<1>3. Arm(slot, date, w) = [slot EXCEPT !.date = date, !.frozen = None, !.wave = wave]
  BY DEF Arm
<1> HIDE DEF wave
<1>4. Arm(slot, date, w) \in Slots /\ Arm(slot, date, w).date = date
  BY <1>2, <1>3 DEF Slots
<1> QED
  BY <1>1, <1>4

(* An undated slot claims nothing.                                         *)
LEMMA UndatedFits ==
  ASSUME NEW t, NEW s, NEW life, NEW slot, slot.date = None
  PROVE  SlotFits(slot, life, t, s)
  BY DEF SlotFits

(* A slot that is kept, by a transition that keeps its clock.              *)
LEMMA SlotKept ==
  ASSUME NEW t \in Trans, NEW s \in Store, NEW u \in Store, NEW life \in Lives,
         NEW slot, SlotFits(slot, life, t, s), InSource(t, u), Rides(t, u),
         NEW next, next = NextLife(life, t, u)
  PROVE  SlotFits(slot, next, t, u)
<1>1. ASSUME slot.date # None  PROVE SlotFits(slot, next, t, u)
  <2>1. ~Watched(t) /\ T(t).law # "clock" /\ life.started
    BY <1>1 DEF SlotFits
  <2>2. next = [life EXCEPT !.started = TRUE]
    BY <2>1 DEF NextLife, Rides
  <2>3. next.started = TRUE
    BY <2>2 DEF Lives
  <2> QED
    BY <2>1, <2>3 DEF SlotFits
<1> QED
  BY <1>1, UndatedFits

(* A slot armed by a transition that the new state enables.                *)
LEMMA SlotArmed ==
  ASSUME NEW t \in Trans, NEW u \in Store, NEW life \in Lives, ~Watched(t), T(t).law # "clock",
         InSource(t, u), Enabled(t, u), NEW slot, NEW next, next = NextLife(life, t, u)
  PROVE  SlotFits(slot, next, t, u)
<1>1. next = [life EXCEPT !.started = TRUE]
  BY DEF NextLife
<1>2. next.started = TRUE
  BY <1>1 DEF Lives
<1> QED
  BY <1>2 DEF SlotFits, Rides

(* A refresh dates only what has started and rides.                        *)
LEMMA SlotRefreshed ==
  ASSUME model \in Models, NEW t \in Trans, NEW s \in Store, NEW u \in Store, NEW now \in Int,
         NEW w \in Nat, NEW slot \in Slots, NEW life \in Lives, SlotFits(slot, life, t, s),
         ~Watched(t), T(t).law # "clock",
         NEW new, new = RefreshedSlot(slot, t, u, now, w),
         NEW next, next = NextLife(life, t, u)
  PROVE  new \in Slots /\ SlotFits(new, next, t, u)
<1>1. CASE ~InSource(t, u)
  <2>1. new = Left(slot)
    BY <1>1 DEF RefreshedSlot
  <2>2. new \in Slots /\ new.date = None
    BY <2>1, SlotFacts
  <2> QED
    BY <2>2, UndatedFits
<1>2. CASE InSource(t, u) /\ slot.date # None /\ ~Rides(t, u)
  <2> DEFINE frozen == IF T(t).policy = "resume" THEN slot.date - now ELSE slot.frozen
  <2>1. frozen \in Int \cup {None}
    BY <1>2 DEF Slots
  <2>2. new = [slot EXCEPT !.date = None, !.frozen = frozen]
    BY <1>2 DEF RefreshedSlot, Rides
  <2> HIDE DEF frozen
  <2>3. new \in Slots /\ new.date = None
    BY <2>1, <2>2 DEF Slots
  <2> QED
    BY <2>3, UndatedFits
<1>3. CASE InSource(t, u) /\ slot.date = None /\ Enabled(t, u)
  <2> DEFINE date == now + (IF slot.frozen # None THEN slot.frozen ELSE T(t).delay)
  <2>1. date \in Int
    BY TransitionFacts DEF Slots
  <2>2. new = Arm(slot, date, w)
    BY <1>3 DEF RefreshedSlot
  <2> HIDE DEF date
  <2>3. new \in Slots
    BY <2>1, <2>2, SlotFacts
  <2> QED
    BY <2>3, <1>3, SlotArmed
<1>4. CASE InSource(t, u) /\ slot.date = None /\ ~Enabled(t, u)
  <2>1. new = slot
    BY <1>4 DEF RefreshedSlot
  <2> QED
    BY <2>1, <1>4, UndatedFits
<1>5. CASE InSource(t, u) /\ slot.date # None /\ Rides(t, u)
  <2>1. new = slot
    BY <1>5 DEF RefreshedSlot, Rides
  <2> QED
    BY <2>1, <1>5, SlotKept
<1> QED
  BY <1>1, <1>2, <1>3, <1>4, <1>5

(* A held choice is dated at the present instant or not at all.            *)
LEMMA HeldSlotRefreshed ==
  ASSUME model \in Models, NEW t \in Trans, NEW s \in Store, NEW u \in Store, NEW now \in Int,
         NEW w \in Nat, NEW slot \in Slots, NEW life \in Lives, SlotFits(slot, life, t, s),
         Held(t), slot.date # None => slot.date = now,
         NEW new, new = HeldSlot(slot, t, u, now, w), NEW next, next = NextLife(life, t, u)
  PROVE  new \in Slots /\ SlotFits(new, next, t, u) /\ (new.date # None => new.date = now)
<1>0. ~Watched(t) /\ T(t).law # "clock"
  BY DEF Held, Choice, Watched
<1>1. CASE ~(InSource(t, u) /\ Enabled(t, u))
  <2>1. new = Left(slot)
    BY <1>1 DEF HeldSlot
  <2>2. new \in Slots /\ new.date = None
    BY <2>1, SlotFacts
  <2> QED
    BY <2>2, UndatedFits
<1>2. CASE InSource(t, u) /\ Enabled(t, u) /\ slot.date = None
  <2>1. new = Arm(slot, now, w)
    BY <1>2 DEF HeldSlot
  <2>2. new \in Slots /\ new.date = now
    BY <2>1, SlotFacts
  <2> QED
    BY <2>2, <1>0, <1>2, SlotArmed
<1>3. CASE InSource(t, u) /\ Enabled(t, u) /\ slot.date # None
  <2>1. new = slot
    BY <1>3 DEF HeldSlot
  <2>2. SlotFits(new, next, t, u)
    BY <2>1, <1>0, <1>3, SlotArmed
  <2> QED
    BY <2>1, <2>2
<1> QED
  BY <1>1, <1>2, <1>3

-----------------------------------------------------------------------------
(* The refresh of the schedule                                             *)

(* The books of one transition after a refresh.                            *)
RefreshedClockOf(en, t) ==
  IF HasAge(t)
  THEN RefreshedClock([age |-> en.ages[t], hazard |-> en.hazards[t]], t, en.store, en.time)
  ELSE NoClock

RefreshedSlotOf(en, t) ==
  CASE Watched(t) -> en.slots[t]
    [] Held(t) -> HeldSlot(en.slots[t], t, en.store, en.time, en.wave)
    [] T(t).law = "clock" ->
         IF InSource(t, en.store) THEN en.slots[t] ELSE Left(en.slots[t])
    [] OTHER -> RefreshedSlot(en.slots[t], t, en.store, en.time, en.wave)

RefreshedDateOf(en, t) ==
  IF Watched(t) \/ Held(t) THEN en.dates[t]
  ELSE RefreshedDate(en.dates[t], t, en.store, en.time)

(* What a refresh leaves alone, and what it computes.                      *)
LEMMA RefreshedFields ==
  ASSUME NEW en, IsEngine(en), NEW r, r = Refreshed(en)
  PROVE  /\ IsEngine(r)
         /\ r.store = en.store /\ r.time = en.time /\ r.wave = en.wave
         /\ r.streak = en.streak /\ r.firings = en.firings /\ r.seqEnd = en.seqEnd
         /\ r.error = en.error /\ r.drawn = en.drawn
         /\ r.ages = [t \in Trans |-> RefreshedClockOf(en, t).age]
         /\ r.hazards = [t \in Trans |-> RefreshedClockOf(en, t).hazard]
         /\ r.slots = [t \in Trans |-> RefreshedSlotOf(en, t)]
         /\ r.dates = [t \in Trans |-> RefreshedDateOf(en, t)]
         /\ r.lived = Begun(en.lived, en.store)
<1> DEFINE ages == [t \in Trans |-> RefreshedClockOf(en, t).age]
           hazards == [t \in Trans |-> RefreshedClockOf(en, t).hazard]
           slots == [t \in Trans |-> RefreshedSlotOf(en, t)]
           dates == [t \in Trans |-> RefreshedDateOf(en, t)]
           lived == Begun(en.lived, en.store)
<1>1. r = [en EXCEPT !.ages = ages, !.hazards = hazards, !.slots = slots, !.dates = dates,
                     !.lived = lived]
  BY DEF Refreshed, RefreshedClockOf, RefreshedSlotOf, RefreshedDateOf
<1> HIDE DEF ages, hazards, slots, dates, lived
<1>2. /\ IsEngine(r)
      /\ r.store = en.store /\ r.time = en.time /\ r.wave = en.wave
      /\ r.streak = en.streak /\ r.firings = en.firings /\ r.seqEnd = en.seqEnd
      /\ r.error = en.error /\ r.drawn = en.drawn
      /\ r.ages = ages /\ r.hazards = hazards /\ r.slots = slots /\ r.dates = dates
      /\ r.lived = lived
  BY <1>1 DEF IsEngine, EngineFields
<1> QED
  BY <1>2 DEF ages, hazards, slots, dates, lived

(* `refresh_schedule`: an engine that agrees with the state it leaves      *)
(* agrees, once refreshed, with the state it enters.                       *)
LEMMA RefreshedFits ==
  ASSUME model \in Models, NEW en, Typed(en), NEW s \in Store, Fits(en, s), HeldNow(en),
         NEW r, r = Refreshed(en)
  PROVE  EngineInv(r)
<1>1. IsEngine(en) /\ en.store \in Store /\ en.time \in Int /\ en.wave \in Nat
  BY DEF Typed
<1>f. /\ IsEngine(r)
      /\ r.store = en.store /\ r.time = en.time /\ r.wave = en.wave
      /\ r.ages = [t \in Trans |-> RefreshedClockOf(en, t).age]
      /\ r.hazards = [t \in Trans |-> RefreshedClockOf(en, t).hazard]
      /\ r.slots = [t \in Trans |-> RefreshedSlotOf(en, t)]
      /\ r.dates = [t \in Trans |-> RefreshedDateOf(en, t)]
      /\ r.lived = Begun(en.lived, en.store)
  BY <1>1, RefreshedFields
<1>2. ASSUME NEW t \in Trans
      PROVE  /\ r.ages[t] \in AgeBook \cup {None} /\ r.hazards[t] \in HazardBook \cup {None}
             /\ r.slots[t] \in Slots /\ r.dates[t] \in PlannedAt \cup {None}
             /\ r.lived[t] \in Lives
             /\ FitsAt(r, t, en.store)
             /\ Held(t) /\ r.slots[t].date # None => r.slots[t].date = en.time
  <2> DEFINE life == en.lived[t]
             next == NextLife(life, t, en.store)
             old == [age |-> en.ages[t], hazard |-> en.hazards[t]]
             new == RefreshedClockOf(en, t)
  <2>1. /\ life \in Lives /\ en.slots[t] \in Slots /\ en.dates[t] \in PlannedAt \cup {None}
        /\ en.ages[t] \in AgeBook \cup {None} /\ en.hazards[t] \in HazardBook \cup {None}
    BY DEF Typed
  <2>2. FitsAt(en, t, s)
    BY DEF Fits
  <2>3. ~life.started => life = Unborn
    BY <2>2 DEF FitsAt
  <2>4. r.lived[t] = next
    BY <1>f DEF Begun, NextLife
  <2>5. next \in Lives /\ (~next.started => next = Unborn)
    BY <1>1, <2>1, <2>3, NextLifeFacts
  <2>6. IsClock(new) /\ r.ages[t] = new.age /\ r.hazards[t] = new.hazard
        /\ (HasAge(t) => ClockFits(new, next, t, en.store, en.time))
        /\ (~HasAge(t) => new.age = None /\ new.hazard = None)
    <3>1. r.ages[t] = new.age /\ r.hazards[t] = new.hazard
      BY <1>f
    <3>2. CASE HasAge(t)
      <4>1. IsClock(old)
        BY <2>1 DEF IsClock
      <4>2. ClockFits(old, life, t, s, en.time)
        BY <2>2, <3>2 DEF FitsAt
      <4>3. new = RefreshedClock(old, t, en.store, en.time)
        BY <3>2 DEF RefreshedClockOf
      <4> HIDE DEF life, next, old, new
      <4>4. IsClock(new) /\ ClockFits(new, next, t, en.store, en.time)
        <5>1. next = NextLife(life, t, en.store)
          BY DEF next
        <5> QED
          BY <5>1, <1>1, <2>1, <2>3, <4>1, <4>2, <4>3, ClockRefreshed
      <4> QED
        BY <3>1, <3>2, <4>4
    <3>3. CASE ~HasAge(t)
      <4>1. new = NoClock
        BY <3>3 DEF RefreshedClockOf
      <4>2. IsClock(new) /\ new.age = None /\ new.hazard = None
        BY <4>1 DEF NoClock, IsClock
      <4> HIDE DEF new, next
      <4> QED
        BY <3>1, <3>3, <4>2
    <3> QED
      BY <3>2, <3>3
  <2>7. r.dates[t] \in PlannedAt \cup {None} /\ DateFits(r.dates[t], next, t, en.store, en.time)
    <3>1. DateFits(en.dates[t], life, t, s, en.time)
      BY <2>2 DEF FitsAt
    <3>2. r.dates[t] = RefreshedDateOf(en, t)
      BY <1>f
    <3>3. CASE Watched(t) \/ Held(t)
      <4>1. r.dates[t] = en.dates[t]
        BY <3>2, <3>3 DEF RefreshedDateOf
      <4> QED
        BY <4>1, <3>1, <3>3, <2>1, <1>1, DateUntouched
    <3>4. CASE ~(Watched(t) \/ Held(t))
      <4>1. r.dates[t] = RefreshedDate(en.dates[t], t, en.store, en.time)
        BY <3>2, <3>4 DEF RefreshedDateOf
      <4> QED
        BY <4>1, <3>1, <2>1, <2>3, <1>1, DateRefreshed
    <3> QED
      BY <3>3, <3>4
  <2>8. /\ r.slots[t] \in Slots /\ SlotFits(r.slots[t], next, t, en.store)
        /\ Held(t) /\ r.slots[t].date # None => r.slots[t].date = en.time
    <3>1. SlotFits(en.slots[t], life, t, s)
      BY <2>2 DEF FitsAt
    <3>2. r.slots[t] = RefreshedSlotOf(en, t)
      BY <1>f
    <3>3. CASE Watched(t)
      <4>1. r.slots[t] = en.slots[t]
        <5>1. ~Held(t)
          BY <3>3 DEF Held, Choice, Watched
        <5>2. T(t).law # "clock"
          BY <3>3 DEF Watched
        <5> QED
          BY <3>2, <3>3, <5>1, <5>2 DEF RefreshedSlotOf
      <4>2. r.slots[t].date = None
        BY <4>1, <3>1, <3>3 DEF SlotFits
      <4> QED
        BY <4>1, <4>2, <2>1, UndatedFits
    <3>4. CASE Held(t)
      <4>1. ~Watched(t)
        BY <3>4 DEF Held, Choice, Watched
      <4>2. r.slots[t] = HeldSlot(en.slots[t], t, en.store, en.time, en.wave)
        <5>1. T(t).law # "clock"
          BY <3>4 DEF Held, Choice
        <5> QED
          BY <3>2, <3>4, <4>1, <5>1 DEF RefreshedSlotOf
      <4>3. en.slots[t].date # None => en.slots[t].date = en.time
        BY <3>4 DEF HeldNow
      <4> QED
        BY <4>2, <4>3, <3>1, <3>4, <2>1, <1>1, HeldSlotRefreshed
    <3>5. CASE ~Watched(t) /\ ~Held(t) /\ T(t).law = "clock"
      <4>1. en.slots[t].date = None
        BY <3>1, <3>5 DEF SlotFits
      <4>2. r.slots[t] = IF InSource(t, en.store) THEN en.slots[t] ELSE Left(en.slots[t])
        BY <3>2, <3>5 DEF RefreshedSlotOf
      <4>3. r.slots[t] \in Slots /\ r.slots[t].date = None
        BY <4>1, <4>2, <2>1, SlotFacts
      <4> QED
        BY <4>3, UndatedFits
    <3>6. CASE ~Watched(t) /\ ~Held(t) /\ T(t).law # "clock"
      <4>1. r.slots[t] = RefreshedSlot(en.slots[t], t, en.store, en.time, en.wave)
        BY <3>2, <3>6 DEF RefreshedSlotOf
      <4> QED
        BY <4>1, <3>1, <3>6, <2>1, <1>1, SlotRefreshed
    <3> QED
      BY <3>3, <3>4, <3>5, <3>6
  <2>9. FitsAt(r, t, en.store)
    <3>1. ~r.lived[t].started => r.lived[t] = Unborn
      BY <2>4, <2>5
    <3>2. r.time = en.time
      BY <1>f
    <3>3. HasAge(t) => ClockFits([age |-> r.ages[t], hazard |-> r.hazards[t]], r.lived[t],
                                 t, en.store, r.time)
      <4>1. new = [age |-> r.ages[t], hazard |-> r.hazards[t]]
        BY <2>6 DEF IsClock
      <4> HIDE DEF new, next
      <4> QED
        BY <4>1, <2>4, <2>6, <3>2
    <3>4. ~HasAge(t) => r.ages[t] = None /\ r.hazards[t] = None
      BY <2>6
    <3> HIDE DEF new, next, life
    <3> QED
      BY <2>4, <2>7, <2>8, <3>1, <3>2, <3>3, <3>4 DEF FitsAt
  <2> HIDE DEF new, next
  <2> QED
    BY <2>4, <2>5, <2>6, <2>7, <2>8, <2>9 DEF IsClock
<1>3. Typed(r)
  <2>1. /\ IsEngine(r) /\ r.store = en.store /\ r.time = en.time /\ r.wave = en.wave
        /\ r.ages = [t \in Trans |-> r.ages[t]] /\ r.hazards = [t \in Trans |-> r.hazards[t]]
        /\ r.slots = [t \in Trans |-> r.slots[t]] /\ r.dates = [t \in Trans |-> r.dates[t]]
        /\ r.lived = [t \in Trans |-> r.lived[t]]
    BY <1>f DEF Begun
  <2>2. r.ages \in [Trans -> AgeBook \cup {None}]
    BY <1>2, <2>1
  <2>3. r.hazards \in [Trans -> HazardBook \cup {None}]
    BY <1>2, <2>1
  <2>4. r.slots \in [Trans -> Slots]
    BY <1>2, <2>1
  <2>5. r.dates \in [Trans -> PlannedAt \cup {None}]
    BY <1>2, <2>1
  <2>6. r.lived \in [Trans -> Lives]
    BY <1>2, <2>1
  <2> QED
    BY <1>1, <2>1, <2>2, <2>3, <2>4, <2>5, <2>6 DEF Typed
<1>4. r.store = en.store /\ r.time = en.time
  BY <1>f
<1> QED
  BY <1>2, <1>3, <1>4 DEF EngineInv, Fits, HeldNow

-----------------------------------------------------------------------------
(* Time that goes by                                                       *)

(* What time leaves alone.                                                 *)
SameBut(m, en) ==
  /\ m.store = en.store /\ m.wave = en.wave /\ m.slots = en.slots /\ m.ages = en.ages
  /\ m.hazards = en.hazards /\ m.dates = en.dates /\ m.firings = en.firings
  /\ m.seqEnd = en.seqEnd /\ m.error = en.error /\ m.drawn = en.drawn

(* What going to a date leaves alone.                                      *)
LEMMA MovedFields ==
  ASSUME NEW en, IsEngine(en), NEW date, NEW m, m \in {MovedTo(en, date), RestartedAt(en, date)}
  PROVE  IsEngine(m) /\ SameBut(m, en) /\ m.time = date /\ m.lived = Aged(en, date - en.time)
<1> DEFINE lived == Aged(en, date - en.time)
           k == [at |-> date, count |-> 0]
           moved == MovedTo(en, date)
<1>1. moved = [en EXCEPT !.lived = lived, !.time = date]
  BY DEF MovedTo
<1> HIDE DEF lived, k
<1>2. IsEngine(moved) /\ SameBut(moved, en) /\ moved.time = date /\ moved.lived = lived
  BY <1>1 DEF IsEngine, EngineFields, SameBut
<1>3. CASE m = moved
  BY <1>2, <1>3 DEF lived
<1>4. CASE m = RestartedAt(en, date)
  <2>1. m = [moved EXCEPT !.streak = k]
    BY <1>4 DEF RestartedAt, k
  <2> HIDE DEF moved
  <2>2. /\ IsEngine(m) /\ SameBut(m, moved) /\ m.time = moved.time /\ m.lived = moved.lived
    BY <1>2, <2>1 DEF IsEngine, EngineFields, SameBut
  <2> QED
    BY <1>2, <2>2 DEF SameBut, lived
<1> QED
  BY <1>3, <1>4

(* The rate times a time cut in two.                                       *)
LEMMA Distributes ==
  ASSUME NEW r \in Int, NEW a \in Int, NEW b \in Int, NEW c \in Int
  PROVE  r * (b - a) + r * (c - b) = r * (c - a)
  OBVIOUS

(* Time goes by for the books and for what was lived alike, whether the    *)
(* clock is moved or restarted at the date.                                *)
LEMMA MovedFits ==
  ASSUME model \in Models, NEW en, Typed(en), Fits(en, en.store),
         NEW date \in Int, en.time <= date,
         NEW m, m \in {MovedTo(en, date), RestartedAt(en, date)}
  PROVE  Typed(m) /\ Fits(m, en.store)
<1> DEFINE span == date - en.time
<1>1. /\ IsEngine(en) /\ en.store \in Store /\ en.time \in Int /\ span \in Nat
  BY DEF Typed
<1>f. IsEngine(m) /\ SameBut(m, en) /\ m.time = date /\ m.lived = Aged(en, span)
  BY <1>1, MovedFields
<1>2. ASSUME NEW t \in Trans  PROVE m.lived[t] \in Lives /\ FitsAt(m, t, en.store)
  <2> DEFINE life == en.lived[t]
             next == m.lived[t]
             rate == T(t).rate[en.store]
  <2>1. /\ life \in Lives /\ en.slots[t] \in Slots /\ en.dates[t] \in PlannedAt \cup {None}
        /\ en.ages[t] \in AgeBook \cup {None} /\ en.hazards[t] \in HazardBook \cup {None}
    BY DEF Typed
  <2>2. FitsAt(en, t, en.store)
    BY DEF Fits
  <2>3. rate \in Nat
    BY <1>1, TransitionFacts
  <2>4. CASE ~Runs(en, t)
    <3>1. next = life
      BY <1>f, <2>4 DEF Aged
    <3>2. life.started => ~Rides(t, en.store)
      BY <2>4 DEF Runs, Rides
    <3>3. HasAge(t) => ClockFits([age |-> m.ages[t], hazard |-> m.hazards[t]], next,
                                 t, en.store, m.time)
      <4>1. SUFFICES ASSUME HasAge(t)
                     PROVE ClockFits([age |-> en.ages[t], hazard |-> en.hazards[t]], life,
                                     t, en.store, date)
        BY <1>f, <3>1 DEF SameBut
      <4>2. ClockFits([age |-> en.ages[t], hazard |-> en.hazards[t]], life, t, en.store, en.time)
        BY <2>2, <4>1 DEF FitsAt
      <4>3. en.ages[t] # None => ~en.ages[t].running
        BY <4>2, <3>2 DEF ClockFits
      <4> QED
        BY <4>2, <4>3 DEF ClockFits, Age
    <3>4. DateFits(m.dates[t], next, t, en.store, m.time)
      <4>1. DateFits(en.dates[t], life, t, en.store, en.time)
        BY <2>2 DEF FitsAt
      <4>2. en.dates[t] # None => ~en.dates[t].active
        BY <4>1, <3>2 DEF DateFits
      <4>3. DateFits(en.dates[t], life, t, en.store, date)
        BY <4>1, <4>2 DEF DateFits
      <4> QED
        BY <4>3, <1>f, <3>1 DEF SameBut
    <3> QED
      BY <2>1, <2>2, <1>f, <3>1, <3>3, <3>4 DEF FitsAt, SameBut
  <2>5. CASE Runs(en, t)
    <3> DEFINE left == IF life.left = None THEN None ELSE Later(life.left - span, 0)
    <3>0. life.started = TRUE /\ Rides(t, en.store)
      BY <2>1, <2>5 DEF Runs, Rides, Lives
    <3>1. next = [life EXCEPT !.age = life.age + span, !.hazard = life.hazard + rate * span,
                              !.left = left]
      BY <1>f, <2>5 DEF Aged
    <3>2. life.age + span \in Int /\ life.hazard + rate * span \in Int
      <4>1. rate * span \in Int
        BY <1>1, <2>3
      <4> QED
        BY <4>1, <2>1, <1>1 DEF Lives
    <3>3. left \in Int \cup {None}
      BY <2>1, <1>1 DEF Later, Lives
    <3>4. /\ next \in Lives /\ next.started = TRUE /\ next.age = life.age + span
          /\ next.hazard = life.hazard + rate * span /\ next.left = left
      <4> DEFINE a == life.age + span
                 h == life.hazard + rate * span
      <4> HIDE DEF left, a, h
      <4>1. next = [life EXCEPT !.age = a, !.hazard = h, !.left = left]
        BY <3>1 DEF a, h
      <4>2. a \in Int /\ h \in Int
        BY <3>2 DEF a, h
      <4>3. /\ next \in Lives /\ next.started = life.started /\ next.age = a
            /\ next.hazard = h /\ next.left = left
        BY <4>1, <4>2, <3>3, <2>1 DEF Lives
      <4> QED
        BY <4>3, <3>0 DEF a, h
    <3>5. ASSUME HasAge(t)
          PROVE  ClockFits([age |-> m.ages[t], hazard |-> m.hazards[t]], next, t, en.store, m.time)
      <4> DEFINE c == [age |-> en.ages[t], hazard |-> en.hazards[t]]
      <4>1. ClockFits(c, life, t, en.store, en.time)
        BY <2>2, <3>5 DEF FitsAt
      <4>2. c.age = en.ages[t] /\ c.hazard = en.hazards[t]
        OBVIOUS
      <4>3. c.age # None
        BY <4>1, <3>0 DEF ClockFits
      <4>4. c.age \in AgeBook /\ c.age.running = TRUE /\ Age(c.age, en.time) = life.age
        BY <4>1, <4>2, <4>3, <2>1, <3>0, AgeBookFacts DEF ClockFits, Rides
      <4>5. Age(c.age, date) = life.age + span
        BY <4>4, <1>1 DEF Age, AgeBook
      <4>6. ASSUME c.hazard # None
            PROVE  /\ next.hazard = c.hazard.accumulated + c.hazard.rate * (date - c.hazard.since)
                   /\ c.hazard.rate = rate
        <5>1. /\ life.hazard = c.hazard.accumulated + c.hazard.rate * (en.time - c.hazard.since)
              /\ c.hazard.rate = rate
          BY <4>1, <4>4, <4>6 DEF ClockFits
        <5>2. /\ c.hazard.accumulated \in Int /\ c.hazard.since \in Int /\ c.hazard.rate \in Int
              /\ c.hazard.rate * (en.time - c.hazard.since) \in Int
          <6>1. c.hazard \in HazardBook
            BY <4>6, <4>2, <2>1
          <6> HIDE DEF c
          <6> QED
            BY <6>1, <1>1, HazardBookFacts
        <5>3. c.hazard.rate * (en.time - c.hazard.since) + c.hazard.rate * (date - en.time)
                = c.hazard.rate * (date - c.hazard.since)
          BY <5>2, <1>1, Distributes
        <5>4. rate * span = c.hazard.rate * (date - en.time)
          BY <5>1
        <5>5. rate * span \in Int
          BY <1>1, <2>3
        <5> QED
          BY <5>1, <5>2, <5>3, <5>4, <5>5, <3>4
      <4>7. ClockFits(c, next, t, en.store, date)
        <5> HIDE DEF c, next, life
        <5> QED
          BY <4>3, <4>4, <4>5, <4>6, <3>0, <3>4, RunningFits DEF rate
      <4> QED
        BY <4>7, <1>f DEF SameBut
    <3>6. DateFits(m.dates[t], next, t, en.store, m.time)
      <4> DEFINE d == en.dates[t]
      <4>1. DateFits(d, life, t, en.store, en.time)
        BY <2>2 DEF FitsAt
      <4>2. CASE d = None
        <5>1. life.left = None
          BY <4>1, <4>2 DEF DateFits
        <5>2. next.left = None
          BY <5>1, <3>4
        <5> QED
          BY <5>2, <4>2, <1>f, UnplannedFits DEF SameBut
      <4>3. CASE d # None
        <5>1. /\ d.active = TRUE /\ d.at \in Int /\ life.left = Later(d.at - en.time, 0)
              /\ life.left # None
          BY <4>1, <4>3, <2>1, <3>0, PlannedFacts DEF DateFits, Rides
        <5>2. next.left = Later(d.at - date, 0)
          BY <5>1, <3>4, <1>1 DEF Later
        <5>3. next.left # None
          BY <5>1, <5>2, NoneApart DEF Later
        <5>4. DateFits(d, next, t, en.store, date)
          <6> HIDE DEF d, next, life
          <6> QED
            BY <4>1, <4>3, <5>1, <5>2, <5>3, <3>0, <3>4 DEF DateFits, Rides
        <5> QED
          BY <5>4, <1>f DEF SameBut
      <4> QED
        BY <4>2, <4>3
    <3>7. SlotFits(m.slots[t], next, t, en.store)
      <4>1. SlotFits(en.slots[t], life, t, en.store)
        BY <2>2 DEF FitsAt
      <4> QED
        BY <4>1, <3>4, <1>f DEF SlotFits, SameBut
    <3>8. ~HasAge(t) => m.ages[t] = None /\ m.hazards[t] = None
      BY <2>2, <1>f DEF FitsAt, SameBut
    <3> QED
      BY <3>4, <3>5, <3>6, <3>7, <3>8 DEF FitsAt
  <2> QED
    BY <2>4, <2>5
<1>3. Typed(m)
  <2>1. m.lived = [t \in Trans |-> m.lived[t]]
    BY <1>f DEF Aged
  <2>2. m.lived \in [Trans -> Lives]
    BY <1>2, <2>1
  <2> QED
    BY <2>2, <1>f, <1>1 DEF Typed, SameBut
<1> QED
  BY <1>2, <1>3 DEF Fits

(* No held choice waits.                                                   *)
NoHeldDated(en) == \A t \in Trans : ~(Held(t) /\ en.slots[t].date # None)

(* An engine may be taken to a date when no held choice waits to be made.  *)
LEMMA MovedInv ==
  ASSUME model \in Models, NEW en, EngineInv(en), NEW date \in Int, en.time <= date,
         date = en.time \/ NoHeldDated(en),
         NEW m, m \in {MovedTo(en, date), RestartedAt(en, date)}
  PROVE  /\ EngineInv(m) /\ m.time = date /\ m.error = en.error /\ m.store = en.store
         /\ m.slots = en.slots /\ m.dates = en.dates
<1>1. Typed(m) /\ Fits(m, en.store)
  BY MovedFits DEF EngineInv
<1>2. IsEngine(en)
  BY DEF EngineInv, Typed
<1>3. SameBut(m, en) /\ m.time = date
  BY <1>2, MovedFields
<1>4. HeldNow(m)
  BY <1>3 DEF HeldNow, NoHeldDated, EngineInv, SameBut
<1> QED
  BY <1>1, <1>3, <1>4 DEF EngineInv, SameBut

-----------------------------------------------------------------------------
(* Firing                                                                  *)

(* A transition that has not started.                                      *)
LEMMA UnbornFacts ==
  Unborn \in Lives /\ Unborn.started = FALSE /\ Unborn.left = None
  BY DEF Unborn, Lives

(* A transition that has fired fits, whatever the state.                   *)
LEMMA FiredFits ==
  ASSUME NEW m, NEW t, NEW s, m.lived[t] = Unborn, m.dates[t] = None, m.slots[t].date = None,
         m.ages[t] = None, m.hazards[t] = None
  PROVE  FitsAt(m, t, s)
<1>1. ClockFits([age |-> m.ages[t], hazard |-> m.hazards[t]], m.lived[t], t, s, m.time)
  BY UnbornFacts, NoClockFits
<1>2. DateFits(m.dates[t], m.lived[t], t, s, m.time)
  BY UnbornFacts, UnplannedFits
<1>3. SlotFits(m.slots[t], m.lived[t], t, s)
  BY UndatedFits
<1> QED
  BY <1>1, <1>2, <1>3 DEF FitsAt

(* A firing leaves its transition with no date, no clock and nothing       *)
(* lived.                                                                  *)
LEMMA MovedAway ==
  ASSUME model \in Models, NEW en, EngineInv(en), NEW t \in Trans, NEW to \in Value,
         NEW m, m = Moved(en, t, to)
  PROVE  /\ Typed(m) /\ Fits(m, en.store) /\ HeldNow(m)
         /\ m.time = en.time /\ m.error = en.error
<1>1. /\ IsEngine(en) /\ en.store \in Store /\ en.time \in Int /\ en.wave \in Nat
      /\ Typed(en) /\ Fits(en, en.store) /\ HeldNow(en)
  BY DEF EngineInv, Typed
<1> DEFINE dates == [en.dates EXCEPT ![t] = None]
           slots == [en.slots EXCEPT ![t] = Left(en.slots[t])]
           ages == [en.ages EXCEPT ![t] = None]
           hazards == [en.hazards EXCEPT ![t] = None]
           lived == [en.lived EXCEPT ![t] = Unborn]
           wave == en.wave + 1
           firings == [en.firings EXCEPT ![t] = en.firings[t] + 1]
           store == [en.store EXCEPT ![T(t).aut] = to]
<1>2. m = [en EXCEPT !.dates = dates, !.slots = slots, !.ages = ages, !.hazards = hazards,
                     !.lived = lived, !.wave = wave, !.firings = firings, !.store = store]
  BY <1>1 DEF Moved, IsEngine, EngineFields
<1>3. /\ dates \in [Trans -> PlannedAt \cup {None}] /\ dates[t] = None
      /\ \A u \in Trans \ {t} : dates[u] = en.dates[u]
  BY <1>1 DEF Typed
<1>4. /\ slots \in [Trans -> Slots] /\ slots[t].date = None
      /\ \A u \in Trans \ {t} : slots[u] = en.slots[u]
  <2>1. Left(en.slots[t]) \in Slots /\ Left(en.slots[t]).date = None
    <3>1. en.slots[t] \in Slots
      BY <1>1 DEF Typed
    <3> QED
      BY <3>1 DEF Left, Slots
  <2> QED
    BY <1>1, <2>1 DEF Typed
<1>5. /\ ages \in [Trans -> AgeBook \cup {None}] /\ ages[t] = None
      /\ \A u \in Trans \ {t} : ages[u] = en.ages[u]
  BY <1>1 DEF Typed
<1>6. /\ hazards \in [Trans -> HazardBook \cup {None}] /\ hazards[t] = None
      /\ \A u \in Trans \ {t} : hazards[u] = en.hazards[u]
  BY <1>1 DEF Typed
<1>7. /\ lived \in [Trans -> Lives] /\ lived[t] = Unborn
      /\ \A u \in Trans \ {t} : lived[u] = en.lived[u]
  BY <1>1, UnbornFacts DEF Typed
<1>8. wave \in Nat /\ store \in Store
  BY <1>1, TransitionFacts DEF Store
<1> HIDE DEF dates, slots, ages, hazards, lived, wave, firings, store
<1>9. /\ IsEngine(m) /\ m.dates = dates /\ m.slots = slots /\ m.ages = ages
      /\ m.hazards = hazards /\ m.lived = lived /\ m.wave = wave /\ m.store = store
      /\ m.time = en.time /\ m.error = en.error
  BY <1>1, <1>2 DEF IsEngine, EngineFields
<1>10. Typed(m)
  BY <1>1, <1>3, <1>4, <1>5, <1>6, <1>7, <1>8, <1>9 DEF Typed
<1>11. ASSUME NEW u \in Trans  PROVE FitsAt(m, u, en.store)
  <2>1. CASE u = t
    BY <2>1, <1>3, <1>4, <1>5, <1>6, <1>7, <1>9, FiredFits
  <2>2. CASE u # t
    <3>1. /\ m.dates[u] = en.dates[u] /\ m.slots[u] = en.slots[u] /\ m.ages[u] = en.ages[u]
          /\ m.hazards[u] = en.hazards[u] /\ m.lived[u] = en.lived[u] /\ m.time = en.time
      BY <2>2, <1>3, <1>4, <1>5, <1>6, <1>7, <1>9
    <3>2. FitsAt(en, u, en.store)
      BY <1>1 DEF Fits
    <3> QED
      BY <3>1, <3>2 DEF FitsAt
  <2> QED
    BY <2>1, <2>2
<1>12. HeldNow(m)
  BY <1>1, <1>4, <1>9 DEF HeldNow
<1> QED
  BY <1>9, <1>10, <1>11, <1>12 DEF Fits

(* What only renames the error, the streak, the draw or the end fits too.  *)
LEMMA InvOf ==
  ASSUME NEW en, EngineInv(en), NEW m, IsEngine(m), m.store = en.store, m.time = en.time,
         m.wave = en.wave, m.slots = en.slots, m.ages = en.ages, m.hazards = en.hazards,
         m.dates = en.dates, m.lived = en.lived
  PROVE  EngineInv(m)
<1>1. Typed(m)
  BY DEF EngineInv, Typed
<1>2. ASSUME NEW t \in Trans  PROVE FitsAt(m, t, m.store)
  BY DEF EngineInv, Fits, FitsAt
<1>3. HeldNow(m)
  BY DEF EngineInv, HeldNow
<1> QED
  BY <1>1, <1>2, <1>3 DEF EngineInv, Fits

(* Latching an observed target changes nothing the clocks rest on.         *)
LEMMA LatchedInv ==
  ASSUME NEW en, IsEngine(en), NEW m, m = Latched(en)
  PROVE  /\ IsEngine(m) /\ m.store = en.store /\ m.time = en.time /\ m.error = en.error
         /\ m.slots = en.slots /\ m.dates = en.dates
         /\ EngineInv(en) => EngineInv(m)
<1> DEFINE goals == ModelOf[model].goals
           active == {g \in DOMAIN goals : en.store[goals[g][1]] = goals[g][2]}
           ended == [cause |-> CHOOSE g \in active : \A h \in active : g <= h, at |-> en.time]
<1>1. m = en \/ m = [en EXCEPT !.seqEnd = ended]
  BY DEF Latched
<1> HIDE DEF ended
<1>2. /\ IsEngine(m) /\ m.store = en.store /\ m.time = en.time /\ m.error = en.error
      /\ m.wave = en.wave /\ m.slots = en.slots /\ m.ages = en.ages
      /\ m.hazards = en.hazards /\ m.dates = en.dates /\ m.lived = en.lived
  BY <1>1 DEF IsEngine, EngineFields
<1> QED
  BY <1>2, InvOf

(* The updates of a firing stay in the domain of the state.                *)
LEMMA WrittenStore ==
  ASSUME model \in Models, NEW t \in Trans, NEW s \in Store
  PROVE  Written(t, s) \in Store
<1>1. \A l \in DOMAIN T(t).writes : T(t).writes[l] \in Value
  BY ModelFacts DEF IsTransition
<1> QED
  BY <1>1 DEF Written, Store

(* Every failure is an error.                                              *)
LEMMA FailureNames == \A failure \in ErrorNames : failure # None
  BY NoneApart

(* An engine that fails is only known to be an engine where it was.        *)
StandsAt(x, time) == IsEngine(x) /\ x.time = time /\ (x.error = None => EngineInv(x))

(* `fire_to`: the engine that a firing and its refresh leave.              *)
LEMMA FiredToInv ==
  ASSUME model \in Models, NEW en, EngineInv(en), NEW t \in Trans, NEW to \in Value,
         NEW x, x = FiredTo(en, t, to)
  PROVE  StandsAt(x, en.time)
<1> DEFINE m == Moved(en, t, to)
<1>1. Typed(m) /\ Fits(m, en.store) /\ HeldNow(m) /\ m.time = en.time /\ m.error = en.error
  BY MovedAway
<1>2. x = Settled(m, t)
  BY DEF FiredTo
<1> HIDE DEF m
<1>3. CASE m.firings[t] >= MaxFirings
  <2>1. x = [m EXCEPT !.error = "TransitionChattering"]
    BY <1>2, <1>3 DEF Settled
  <2>2. IsEngine(x) /\ x.time = m.time /\ x.error = "TransitionChattering"
    BY <2>1, <1>1 DEF Typed, IsEngine, EngineFields
  <2> QED
    BY <2>2, <1>1, FailureNames DEF StandsAt, ErrorNames
<1>4. CASE ~(m.firings[t] >= MaxFirings)
  <2> DEFINE store == Written(t, m.store)
             w == [m EXCEPT !.store = store]
             r == Refreshed(w)
  <2>0. x = Latched(r)
    BY <1>2, <1>4 DEF Settled
  <2>1. store \in Store
    BY <1>1, WrittenStore DEF Typed
  <2>2. en.store \in Store
    BY DEF EngineInv, Typed
  <2> HIDE DEF store
  <2>3. /\ IsEngine(w) /\ w.store = store /\ w.time = m.time /\ w.error = m.error
        /\ w.wave = m.wave /\ w.slots = m.slots /\ w.ages = m.ages
        /\ w.hazards = m.hazards /\ w.dates = m.dates /\ w.lived = m.lived
    BY <1>1 DEF Typed, IsEngine, EngineFields
  <2> HIDE DEF w
  <2>4. Typed(w)
    BY <1>1, <2>1, <2>3 DEF Typed
  <2>5. ASSUME NEW u \in Trans  PROVE FitsAt(w, u, en.store)
    BY <1>1, <2>3 DEF Fits, FitsAt
  <2>6. HeldNow(w)
    BY <1>1, <2>3 DEF HeldNow
  <2>7. EngineInv(r)
    BY <2>2, <2>4, <2>5, <2>6, RefreshedFits DEF Fits
  <2>8. IsEngine(r) /\ r.time = w.time
    BY <2>3, RefreshedFields
  <2> HIDE DEF r
  <2>9. EngineInv(x) /\ IsEngine(x) /\ x.time = r.time
    BY <2>0, <2>7, <2>8, LatchedInv
  <2> QED
    BY <2>3, <2>8, <2>9, <1>1 DEF StandsAt
<1> QED
  BY <1>3, <1>4

(* The branches a firing may take.                                         *)
BranchSet(t, branch) == IF branch = None THEN Branches(t) ELSE {branch}

(* A branch leads to a value of the automaton.                             *)
LEMMA TargetsFacts ==
  ASSUME model \in Models, NEW t \in Trans, NEW branch \in BranchOrNone(t),
         NEW b \in BranchSet(t, branch)
  PROVE  T(t).targets[b] \in Value
<1>1. T(t).targets \in Seq(Value) /\ T(t).targets # << >>
  BY ModelFacts DEF IsTransition
<1>2. 1 \in DOMAIN T(t).targets
  BY <1>1
<1>3. b \in DOMAIN T(t).targets
  BY <1>2 DEF BranchSet, BranchOrNone, Branches
<1> QED
  BY <1>1, <1>3

(* `fire`, of a drawn or a named branch; and the firing of a watched       *)
(* transition.                                                             *)
LEMMA FiredInv ==
  ASSUME model \in Models, NEW en, EngineInv(en), NEW t \in Trans,
         NEW branch \in BranchOrNone(t), NEW x \in Fired(en, t, branch)
  PROVE  StandsAt(x, en.time)
<1> DEFINE drawing == branch = None /\ Choice(t)
           drawn == en.drawn \/ drawing
           d == [en EXCEPT !.drawn = drawn]
<1>1. IsEngine(en)
  BY DEF EngineInv, Typed
<1>2. CASE x = [en EXCEPT !.error = "OperatorChoice"]
  <2>1. IsEngine(x) /\ x.time = en.time /\ x.error = "OperatorChoice"
    BY <1>1, <1>2 DEF IsEngine, EngineFields
  <2> QED
    BY <2>1, FailureNames DEF StandsAt, ErrorNames
<1>3. CASE x # [en EXCEPT !.error = "OperatorChoice"]
  <2>1. PICK b \in BranchSet(t, branch) : x = FiredTo(d, t, T(t).targets[b])
    BY <1>3, <1>1 DEF Fired, BranchSet, IsEngine, EngineFields
  <2>2. T(t).targets[b] \in Value
    BY TargetsFacts
  <2> HIDE DEF drawn
  <2>3. /\ IsEngine(d) /\ d.store = en.store /\ d.time = en.time /\ d.error = en.error
        /\ d.wave = en.wave /\ d.slots = en.slots /\ d.ages = en.ages
        /\ d.hazards = en.hazards /\ d.dates = en.dates /\ d.lived = en.lived
    BY <1>1 DEF IsEngine, EngineFields
  <2> HIDE DEF d
  <2>4. EngineInv(d)
    BY <2>3, InvOf
  <2>5. StandsAt(x, d.time)
    BY <2>1, <2>2, <2>4, FiredToInv
  <2> QED
    BY <2>3, <2>5
<1> QED
  BY <1>2, <1>3

LEMMA WatchedFiredInv ==
  ASSUME model \in Models, NEW en, EngineInv(en), NEW t \in Trans,
         NEW branch \in BranchOrNone(t), NEW x \in WatchedFired(en, t, branch)
  PROVE  StandsAt(x, en.time)
<1> DEFINE count == IF en.streak.at = en.time THEN en.streak.count + 1 ELSE 1
           streak == [at |-> en.time, count |-> count]
           noted == [en EXCEPT !.streak = streak]
<1>1. IsEngine(en)
  BY DEF EngineInv, Typed
<1>2. x = [noted EXCEPT !.error = "WatchedLoop"] \/ x \in Fired(noted, t, branch)
  BY DEF WatchedFired
<1> HIDE DEF streak
<1>3. /\ IsEngine(noted) /\ noted.store = en.store /\ noted.time = en.time
      /\ noted.wave = en.wave /\ noted.slots = en.slots /\ noted.ages = en.ages
      /\ noted.hazards = en.hazards /\ noted.dates = en.dates /\ noted.lived = en.lived
  BY <1>1 DEF IsEngine, EngineFields
<1> HIDE DEF noted
<1>4. EngineInv(noted)
  BY <1>3, InvOf
<1>5. CASE x = [noted EXCEPT !.error = "WatchedLoop"]
  <2>1. IsEngine(x) /\ x.time = noted.time /\ x.error = "WatchedLoop"
    BY <1>3, <1>5 DEF IsEngine, EngineFields
  <2> QED
    BY <2>1, <1>3, FailureNames DEF StandsAt, ErrorNames
<1>6. CASE x \in Fired(noted, t, branch)
  BY <1>3, <1>4, <1>6, FiredInv
<1> QED
  BY <1>2, <1>5, <1>6

-----------------------------------------------------------------------------
(* The next date is the first                                              *)

(* The order of two ranks, spelled out.                                    *)
LEMMA BeforeIs ==
  ASSUME NEW a, NEW b
  PROVE  Before(a, b) <=>
           \/ a[1] < b[1]
           \/ a[1] = b[1] /\ a[2] < b[2]
           \/ a[1] = b[1] /\ a[2] = b[2] /\ a[3] < b[3]
           \/ a[1] = b[1] /\ a[2] = b[2] /\ a[3] = b[3] /\ a[4] < b[4]
<1>1. ASSUME NEW k \in 1..4, a[k] < b[k], \A j \in 1..(k - 1) : a[j] = b[j]
      PROVE  \/ a[1] < b[1]
             \/ a[1] = b[1] /\ a[2] < b[2]
             \/ a[1] = b[1] /\ a[2] = b[2] /\ a[3] < b[3]
             \/ a[1] = b[1] /\ a[2] = b[2] /\ a[3] = b[3] /\ a[4] < b[4]
  BY <1>1
<1>2. a[1] < b[1] => Before(a, b)
  <2>1. \A j \in 1..(1 - 1) : a[j] = b[j]
    OBVIOUS
  <2> QED
    BY <2>1 DEF Before
<1>3. a[1] = b[1] /\ a[2] < b[2] => Before(a, b)
  <2>1. ASSUME a[1] = b[1]  PROVE \A j \in 1..(2 - 1) : a[j] = b[j]
    BY <2>1
  <2> QED
    BY <2>1 DEF Before
<1>4. a[1] = b[1] /\ a[2] = b[2] /\ a[3] < b[3] => Before(a, b)
  <2>1. ASSUME a[1] = b[1], a[2] = b[2]  PROVE \A j \in 1..(3 - 1) : a[j] = b[j]
    BY <2>1
  <2> QED
    BY <2>1 DEF Before
<1>5. a[1] = b[1] /\ a[2] = b[2] /\ a[3] = b[3] /\ a[4] < b[4] => Before(a, b)
  <2>1. ASSUME a[1] = b[1], a[2] = b[2], a[3] = b[3]  PROVE \A j \in 1..(4 - 1) : a[j] = b[j]
    BY <2>1
  <2> QED
    BY <2>1 DEF Before
<1> QED
  BY <1>1, <1>2, <1>3, <1>4, <1>5 DEF Before

(* A date of either book.                                                  *)
LEMMA DateFacts ==
  ASSUME NEW en, Typed(en), NEW t \in Trans
  PROVE  DateOf(en, t) \in Int \cup {None}
<1>1. en.slots[t] \in Slots /\ en.dates[t] \in PlannedAt \cup {None}
  BY DEF Typed
<1> QED
  BY <1>1 DEF DateOf, Slots, PlannedAt

(* The rank of a dated transition begins with its date and ends with its   *)
(* index.                                                                  *)
LEMMA RankFacts ==
  ASSUME NEW en, Typed(en), NEW t \in Dated(en)
  PROVE  /\ Rank(en, t)[1] = DateOf(en, t) /\ Rank(en, t)[4] = t
         /\ Rank(en, t)[1] \in Int /\ Rank(en, t)[2] \in Int /\ Rank(en, t)[3] \in Int
         /\ Rank(en, t)[4] \in Int
<1>1. t \in Trans /\ DateOf(en, t) \in Int
  BY DateFacts DEF Dated
<1>2. en.slots[t].wave \in Nat
  BY <1>1 DEF Typed, Slots
<1>3. t \in Int
  BY <1>1, DeferredAssumption DEF Trans
<1> QED
  BY <1>1, <1>2, <1>3 DEF Rank

(* The order of the dates is total and transitive,                         *)
LEMMA BeforeIsTotal ==
  ASSUME NEW en, Typed(en), NEW t \in Dated(en), NEW u \in Dated(en), t # u
  PROVE  Before(Rank(en, t), Rank(en, u)) \/ Before(Rank(en, u), Rank(en, t))
  BY RankFacts, BeforeIs

LEMMA BeforeIsTransitive ==
  ASSUME NEW en, Typed(en), NEW t \in Dated(en), NEW u \in Dated(en), NEW v \in Dated(en),
         Before(Rank(en, t), Rank(en, u)), Before(Rank(en, u), Rank(en, v))
  PROVE  Before(Rank(en, t), Rank(en, v))
<1> DEFINE a == Rank(en, t)
           b == Rank(en, u)
           c == Rank(en, v)
<1>1. /\ a[1] \in Int /\ a[2] \in Int /\ a[3] \in Int /\ a[4] \in Int
      /\ b[1] \in Int /\ b[2] \in Int /\ b[3] \in Int /\ b[4] \in Int
      /\ c[1] \in Int /\ c[2] \in Int /\ c[3] \in Int /\ c[4] \in Int
  BY RankFacts
<1> HIDE DEF a, b, c
<1>2. Before(a, b) /\ Before(b, c)
  BY DEF a, b, c
<1>3. Before(a, c)
  BY <1>1, <1>2, BeforeIs
<1> QED
  BY <1>3 DEF a, b, c

(* The first of a set of dated transitions.                                *)
IsFirst(en, t, ts) == t \in ts /\ \A u \in ts \ {t} : Before(Rank(en, t), Rank(en, u))

(* so among the finitely many dated transitions one is first: of a set of  *)
(* indexes below n, by induction on n.                                     *)
LEMMA FirstExists ==
  ASSUME NEW en, Typed(en), Dated(en) # {}
  PROVE  \E t \in Dated(en) : \A u \in Dated(en) \ {t} : Before(Rank(en, t), Rank(en, u))
<1> DEFINE upto(n) == Dated(en) \cap 1..n
           bad == {n \in Nat : upto(n) # {} /\ \A t \in upto(n) : ~IsFirst(en, t, upto(n))}
<1>0. NTrans \in Nat /\ Dated(en) \subseteq 1..NTrans
  BY DeferredAssumption DEF Dated, Trans
<1>1. bad = {}
  <2> SUFFICES ASSUME bad # {}  PROVE FALSE
    OBVIOUS
  <2>1. IsWellFoundedOn(OpToRel(<, Nat), Nat)
    BY NatLessThanWellFounded
  <2>2. PICK n \in bad : \A m \in bad : ~(<<m, n>> \in OpToRel(<, Nat))
    BY <2>1, WFMin, bad \subseteq Nat
  <2>3. n \in Nat /\ upto(n) # {} /\ \A t \in upto(n) : ~IsFirst(en, t, upto(n))
    OBVIOUS
  <2>4. n # 0
    BY <2>3
  <2>5. n - 1 \in Nat /\ n - 1 < n
    BY <2>3, <2>4
  <2>6. n - 1 \notin bad
    BY <2>2, <2>3, <2>5 DEF OpToRel
  <2>7. upto(n) = IF n \in Dated(en) THEN upto(n - 1) \cup {n} ELSE upto(n - 1)
    <3>1. 1..n = 1..(n - 1) \cup {n}
      BY <2>3, <2>4
    <3> QED
      BY <3>1
  <2>8. n \in Dated(en)
    <3> SUFFICES ASSUME n \notin Dated(en)  PROVE FALSE
      OBVIOUS
    <3>1. upto(n) = upto(n - 1)
      BY <2>7
    <3> HIDE DEF upto
    <3> QED
      BY <3>1, <2>3, <2>5, <2>6
  <2>9. upto(n - 1) \subseteq Dated(en) /\ n \notin upto(n - 1)
    BY <2>3
  <2>10. CASE upto(n - 1) = {}
    <3>1. upto(n) = {n}
      BY <2>7, <2>8, <2>10
    <3>2. IsFirst(en, n, {n})
      BY DEF IsFirst
    <3> HIDE DEF upto
    <3> QED
      BY <3>1, <3>2, <2>3
  <2>11. CASE upto(n - 1) # {}
    <3> DEFINE before == upto(n - 1)
    <3>1. PICK f \in before : IsFirst(en, f, before)
      BY <2>5, <2>6, <2>11
    <3>2. upto(n) = before \cup {n}
      BY <2>7, <2>8
    <3>3. f \in Dated(en) /\ f # n /\ before \subseteq Dated(en)
      BY <2>9, <3>1
    <3> HIDE DEF before, upto
    <3>4. CASE Before(Rank(en, f), Rank(en, n))
      <4>1. IsFirst(en, f, before \cup {n})
        BY <3>1, <3>4 DEF IsFirst
      <4> QED
        BY <4>1, <3>1, <3>2, <2>3
    <3>5. CASE Before(Rank(en, n), Rank(en, f))
      <4>1. ASSUME NEW u \in (before \cup {n}) \ {n}
            PROVE  Before(Rank(en, n), Rank(en, u))
        <5>1. CASE u = f
          BY <5>1, <3>5
        <5>2. CASE u # f
          <6>1. Before(Rank(en, f), Rank(en, u)) /\ u \in Dated(en)
            BY <5>2, <3>1, <3>3 DEF IsFirst
          <6> QED
            BY <6>1, <3>3, <3>5, <2>8, BeforeIsTransitive
        <5> QED
          BY <5>1, <5>2
      <4>2. IsFirst(en, n, before \cup {n})
        BY <4>1 DEF IsFirst
      <4> QED
        BY <4>2, <3>2, <2>3
    <3> QED
      BY <3>3, <3>4, <3>5, <2>8, BeforeIsTotal
  <2> QED
    BY <2>10, <2>11
<1>2. upto(NTrans) = Dated(en)
  BY <1>0
<1>3. \E t \in Dated(en) : IsFirst(en, t, Dated(en))
  <2> HIDE DEF upto
  <2> QED
    BY <1>0, <1>1, <1>2
<1> QED
  BY <1>3 DEF IsFirst

(* `next_deferred`: the transition it names has the earliest date.         *)
LEMMA NextIsFirst ==
  ASSUME NEW en, Typed(en)
  PROVE  /\ NextDated(en) = None <=> Dated(en) = {}
         /\ NextDated(en) # None =>
              /\ NextDated(en) \in Dated(en) /\ NextDated(en) \in Trans
              /\ DateOf(en, NextDated(en)) \in Int
              /\ \A u \in Dated(en) : DateOf(en, NextDated(en)) <= DateOf(en, u)
<1>0. Dated(en) \subseteq Trans /\ \A t \in Dated(en) : DateOf(en, t) \in Int
  BY DateFacts DEF Dated
<1>1. CASE Dated(en) = {}
  <2>1. NextDated(en) = None
    BY <1>1 DEF NextDated
  <2> QED
    BY <1>1, <2>1
<1>2. CASE Dated(en) # {}
  <2> DEFINE n == NextDated(en)
  <2>1. n = CHOOSE t \in Dated(en) : \A u \in Dated(en) \ {t} : Before(Rank(en, t), Rank(en, u))
    BY <1>2 DEF NextDated
  <2>2. n \in Dated(en) /\ \A u \in Dated(en) \ {n} : Before(Rank(en, n), Rank(en, u))
    BY <1>2, <2>1, FirstExists
  <2> HIDE DEF n
  <2>3. n \in Int
    BY <2>2, <1>0, DeferredAssumption DEF Trans
  <2>4. n # None
    BY <2>3, NoneApart
  <2>5. ASSUME NEW u \in Dated(en)  PROVE DateOf(en, n) <= DateOf(en, u)
    <3>1. CASE u = n
      BY <3>1, <1>0, <2>2
    <3>2. CASE u # n
      <4>1. Before(Rank(en, n), Rank(en, u))
        BY <2>2, <3>2
      <4> QED
        BY <4>1, <2>2, <1>0, RankFacts, BeforeIs
    <3> QED
      BY <3>1, <3>2
  <2> QED
    BY <1>0, <1>2, <2>2, <2>4, <2>5 DEF n
<1> QED
  BY <1>1, <1>2

-----------------------------------------------------------------------------
(* Where the clock may go                                                  *)

(* The clock may go from an engine's time to this one past nothing due.    *)
Reachable(en, time) ==
  /\ time \in Int /\ en.time <= time
  /\ en.time < time => Ready(en) = {} /\ \A t \in Dated(en) : time <= DateOf(en, t)

(* The first ready watched transition is ready.                            *)
LEMMA FirstReadyFacts ==
  ASSUME NEW en, Ready(en) # {}
  PROVE  FirstReady(en) \in Ready(en) /\ FirstReady(en) \in Trans
<1>1. Ready(en) \subseteq Trans /\ Trans \subseteq Nat
  BY DeferredAssumption DEF Ready, Trans
<1>2. IsWellFoundedOn(OpToRel(<, Nat), Nat)
  BY NatLessThanWellFounded
<1>3. PICK n \in Ready(en) : \A m \in Ready(en) : ~(<<m, n>> \in OpToRel(<, Nat))
  BY <1>1, <1>2, WFMin
<1>4. ASSUME NEW u \in Ready(en)  PROVE n <= u
  <2>1. u \in Nat /\ n \in Nat
    BY <1>1
  <2>2. ~(u < n)
    BY <1>3, <2>1 DEF OpToRel
  <2> QED
    BY <2>1, <2>2
<1>5. FirstReady(en) \in Ready(en)
  BY <1>3, <1>4 DEF FirstReady
<1> QED
  BY <1>1, <1>5

(* A held choice that is dated is among the first.                         *)
LEMMA HeldIsDue ==
  ASSUME NEW en, EngineInv(en), ~NoHeldDated(en)
  PROVE  /\ NextDated(en) # None /\ DateOf(en, NextDated(en)) \in Int
         /\ DateOf(en, NextDated(en)) <= en.time
<1>1. PICK h \in Trans : Held(h) /\ en.slots[h].date # None
  BY DEF NoHeldDated
<1>2. en.slots[h].date = en.time /\ en.time \in Int /\ Typed(en)
  BY <1>1 DEF EngineInv, HeldNow, Typed
<1>3. DateFits(en.dates[h], en.lived[h], h, en.store, en.time)
  BY DEF EngineInv, Fits, FitsAt
<1>4. en.dates[h] = None
  BY <1>1, <1>3 DEF DateFits, Held
<1>5. DateOf(en, h) = en.time /\ h \in Dated(en)
  BY <1>1, <1>2, <1>4 DEF DateOf, Dated
<1>6. NextDated(en) # None
  BY <1>2, <1>5, NextIsFirst
<1>7. DateOf(en, NextDated(en)) <= DateOf(en, h)
  BY <1>2, <1>5, <1>6, NextIsFirst
<1> QED
  BY <1>2, <1>5, <1>6, <1>7, NextIsFirst

(* An engine may stay where it is.                                         *)
LEMMA ReachableNow ==
  ASSUME NEW en, EngineInv(en)
  PROVE  Reachable(en, en.time)
  BY DEF Reachable, EngineInv, Typed

(* Going to the first date, and to a date before it.                       *)
LEMMA DatedIsReachable ==
  ASSUME NEW en, EngineInv(en), Ready(en) = {}, NextDated(en) # None,
         NEW date, date = Later(DateOf(en, NextDated(en)), en.time)
  PROVE  /\ Reachable(en, date)
         /\ date = en.time \/ NoHeldDated(en)
<1> DEFINE first == DateOf(en, NextDated(en))
<1>1. Typed(en) /\ en.time \in Int
  BY DEF EngineInv, Typed
<1>2. first \in Int /\ \A u \in Dated(en) : first <= DateOf(en, u)
  BY <1>1, NextIsFirst
<1>3. ~NoHeldDated(en) => first <= en.time
  BY HeldIsDue
<1> HIDE DEF first
<1>4. date = Later(first, en.time)
  BY DEF first
<1>5. date \in Int /\ en.time <= date /\ (en.time < date => date = first)
  BY <1>1, <1>2, <1>4 DEF Later
<1>6. date = en.time \/ NoHeldDated(en)
  BY <1>1, <1>2, <1>3, <1>4 DEF Later
<1> QED
  BY <1>2, <1>5, <1>6 DEF Reachable

LEMMA UndueIsReachable ==
  ASSUME NEW en, EngineInv(en), NEW date \in Int, en.time <= date,
         en.time < date => Ready(en) = {},
         NextDated(en) # None => date <= DateOf(en, NextDated(en))
  PROVE  /\ Reachable(en, date)
         /\ date = en.time \/ NoHeldDated(en)
<1>1. Typed(en) /\ en.time \in Int
  BY DEF EngineInv, Typed
<1>2. \A u \in Dated(en) : date <= DateOf(en, u)
  <2> SUFFICES ASSUME NEW u \in Dated(en)  PROVE date <= DateOf(en, u)
    OBVIOUS
  <2>1. NextDated(en) # None
    BY <1>1, NextIsFirst
  <2>2. /\ DateOf(en, NextDated(en)) \in Int /\ DateOf(en, NextDated(en)) <= DateOf(en, u)
    BY <1>1, <2>1, NextIsFirst
  <2>3. DateOf(en, u) \in Int
    BY <1>1, DateFacts DEF Dated
  <2> QED
    BY <2>1, <2>2, <2>3
<1>3. ~NoHeldDated(en) => date = en.time
  BY <1>1, HeldIsDue
<1> QED
  BY <1>2, <1>3 DEF Reachable

(* Nothing is dated up to an instant where nothing is due.                 *)
LEMMA NotDueFacts ==
  ASSUME NEW en, Typed(en), NEW date \in Int, ~DueBy(en, date)
  PROVE  /\ NextDated(en) # None => date < DateOf(en, NextDated(en))
         /\ \A u \in Dated(en) : date < DateOf(en, u)
<1>1. NextDated(en) # None => date < DateOf(en, NextDated(en))
  BY NextIsFirst DEF DueBy
<1>2. ASSUME NEW u \in Dated(en)  PROVE date < DateOf(en, u)
  <2>1. NextDated(en) # None
    BY NextIsFirst
  <2>2. /\ DateOf(en, NextDated(en)) \in Int /\ DateOf(en, NextDated(en)) <= DateOf(en, u)
    BY <2>1, NextIsFirst
  <2>3. DateOf(en, u) \in Int
    BY DateFacts DEF Dated
  <2> QED
    BY <1>1, <2>1, <2>2, <2>3
<1> QED
  BY <1>1, <1>2

(* An engine taken where it may go.                                        *)
Went(m, en, time) ==
  /\ EngineInv(m) /\ m.time = time /\ m.error = en.error /\ m.store = en.store
  /\ m.slots = en.slots /\ m.dates = en.dates

(* Going where nothing is overtaken keeps the engine.                      *)
LEMMA GoneTo ==
  ASSUME model \in Models, NEW en, EngineInv(en), NEW date, Reachable(en, date),
         date = en.time \/ NoHeldDated(en),
         NEW m, m \in {MovedTo(en, date), RestartedAt(en, date)}
  PROVE  Went(m, en, date)
  BY MovedInv DEF Reachable, Went

LEMMA StoodStill ==
  ASSUME NEW en, EngineInv(en)
  PROVE  Went(en, en, en.time)
  BY DEF Went

-----------------------------------------------------------------------------
(* The probe                                                               *)

LEMMA ProbedFacts ==
  ASSUME model \in Models, NEW en, EngineInv(en), NEW limit \in Int, en.time <= limit,
         NEW p, p = Probed(en, limit)
  PROVE  /\ Reachable(en, p.engine.time) /\ Went(p.engine, en, p.engine.time)
         /\ p.event # None =>
              p.event \in Trans /\ p.engine.time <= limit
         /\ p.event = None /\ limit <= TMax =>
              /\ p.engine.time = limit /\ Ready(en) = {}
              /\ \A u \in Dated(en) : limit < DateOf(en, u)
<1> DEFINE at(date) == IF date > en.time THEN MovedTo(en, date) ELSE en
<1>0. Typed(en) /\ en.time \in Int /\ TMax \in Nat
  BY ModelFacts DEF EngineInv, Typed
<1>1. ASSUME NEW date, Reachable(en, date), date = en.time \/ NoHeldDated(en)
      PROVE  Went(at(date), en, date) /\ at(date).time = date
  <2>1. CASE date > en.time
    BY <1>1, <2>1, GoneTo DEF Went
  <2>2. CASE ~(date > en.time)
    <3>1. date = en.time
      BY <1>0, <1>1, <2>2 DEF Reachable
    <3> QED
      BY <2>2, <3>1, StoodStill
  <2> QED
    BY <2>1, <2>2
<1>2. CASE Ready(en) # {}
  <2>1. p = [engine |-> at(en.time), why |-> "watched", event |-> FirstReady(en)]
    BY <1>2 DEF Probed
  <2>2. Reachable(en, en.time)
    BY ReachableNow
  <2>3. Went(p.engine, en, en.time) /\ p.engine.time = en.time /\ p.event = FirstReady(en)
    BY <1>1, <2>1, <2>2
  <2>4. p.event \in Trans /\ p.event # None
    <3>1. FirstReady(en) \in Trans
      BY <1>2, FirstReadyFacts
    <3>2. FirstReady(en) \in Int
      BY <3>1, DeferredAssumption DEF Trans
    <3> QED
      BY <2>3, <3>1, <3>2, NoneApart
  <2> QED
    BY <2>2, <2>3, <2>4
<1>3. CASE Ready(en) = {} /\ DueBy(en, limit) /\ DueBy(en, TMax)
  <2> DEFINE date == Later(DateOf(en, NextDated(en)), en.time)
  <2>0. NextDated(en) # None /\ DateOf(en, NextDated(en)) <= limit
    BY <1>3 DEF DueBy
  <2>1. p = [engine |-> at(date), why |-> "dated", event |-> NextDated(en)]
    BY <1>3 DEF Probed
  <2>2. Reachable(en, date) /\ (date = en.time \/ NoHeldDated(en))
    BY <1>3, <2>0, DatedIsReachable
  <2>3. date <= limit
    BY <2>0 DEF Later
  <2> HIDE DEF date
  <2>4. Went(p.engine, en, date) /\ p.engine.time = date /\ p.event = NextDated(en)
    BY <1>1, <2>1, <2>2
  <2>5. p.event \in Trans
    BY <1>0, <2>0, <2>4, NextIsFirst
  <2> QED
    BY <2>0, <2>2, <2>3, <2>4, <2>5
<1>4. CASE Ready(en) = {} /\ ~(DueBy(en, limit) /\ DueBy(en, TMax))
  <2> DEFINE date == IF TMax < limit THEN Later(TMax, en.time) ELSE limit
             why == IF TMax < limit THEN "horizon" ELSE "limit"
  <2>1. p = [engine |-> at(date), why |-> why, event |-> None]
    BY <1>4 DEF Probed
  <2>2. date \in Int /\ en.time <= date /\ (TMax < limit => date = TMax \/ date = en.time)
        /\ (limit <= TMax => date = limit)
    BY <1>0 DEF Later
  <2>3. DueBy(en, limit) => limit > TMax
    <3>1. ASSUME DueBy(en, limit), limit <= TMax  PROVE DueBy(en, TMax)
      <4>1. NextDated(en) # None /\ DateOf(en, NextDated(en)) <= limit
        BY <3>1 DEF DueBy
      <4>2. DateOf(en, NextDated(en)) \in Int
        BY <4>1, <1>0, NextIsFirst
      <4> QED
        BY <4>1, <4>2, <3>1, <1>0 DEF DueBy
    <3> QED
      BY <3>1, <1>4, <1>0
  <2>4. Reachable(en, date) /\ (date = en.time \/ NoHeldDated(en))
    <3>1. CASE limit <= TMax
      <4>1. ~DueBy(en, limit) /\ date = limit
        BY <2>3, <3>1, <1>0
      <4>2. NextDated(en) # None => limit < DateOf(en, NextDated(en))
        BY <4>1, <1>0, NotDueFacts
      <4>3. NextDated(en) # None => limit <= DateOf(en, NextDated(en))
        BY <4>2, <1>0, NextIsFirst
      <4> QED
        BY <4>1, <4>3, <1>4, UndueIsReachable
    <3>2. CASE TMax < limit /\ date = en.time
      BY <3>2, ReachableNow
    <3>3. CASE TMax < limit /\ date = TMax /\ en.time < TMax
      <4>1. ~DueBy(en, TMax)
        <5>1. ASSUME DueBy(en, TMax)  PROVE DueBy(en, limit)
          <6>1. NextDated(en) # None /\ DateOf(en, NextDated(en)) <= TMax
            BY <5>1 DEF DueBy
          <6>2. DateOf(en, NextDated(en)) \in Int
            BY <6>1, <1>0, NextIsFirst
          <6> QED
            BY <6>1, <6>2, <3>3, <1>0 DEF DueBy
        <5> QED
          BY <5>1, <1>4
      <4>2. NextDated(en) # None => TMax < DateOf(en, NextDated(en))
        BY <4>1, <1>0, NotDueFacts
      <4>3. NextDated(en) # None => TMax <= DateOf(en, NextDated(en))
        BY <4>2, <1>0, NextIsFirst
      <4> HIDE DEF date
      <4>4. Reachable(en, TMax) /\ (TMax = en.time \/ NoHeldDated(en))
        BY <4>3, <1>4, <3>3, <1>0, UndueIsReachable
      <4> QED
        BY <4>4, <3>3
    <3> HIDE DEF date
    <3> QED
      BY <2>2, <3>1, <3>2, <3>3, <1>0
  <2> HIDE DEF date, why
  <2>5. Went(p.engine, en, date) /\ p.engine.time = date /\ p.event = None
    BY <1>1, <2>1, <2>4
  <2>6. limit <= TMax => \A u \in Dated(en) : limit < DateOf(en, u)
    BY <2>3, <1>0, NotDueFacts
  <2> QED
    BY <2>2, <2>4, <2>5, <2>6, <1>4
<1> QED
  BY <1>2, <1>3, <1>4

-----------------------------------------------------------------------------
(* Firing in the advance                                                   *)

(* Each reason to stop is one.                                             *)
LEMMA StopNames ==
  /\ "target" # None /\ "event" # None /\ "choice" # None
  /\ "incomplete" # None /\ "refused" # None
  BY OperatorAssumption DEF Stops

(* A call may leave the branch to the engine.                              *)
LEMMA NoneIsABranch ==
  ASSUME NEW t
  PROVE  None \in BranchOrNone(t)
  BY DEF BranchOrNone

(* A deferred firing always has an outcome, as some branch has a weight.   *)
LEMMA FiringExists ==
  ASSUME model \in Models, NEW en, NEW t \in Trans
  PROVE  Fired(en, t, None) # {}
<1>1. Branches(t) # {}
  <2>1. PICK b \in 1..Len(T(t).targets) : T(t).probs[b] > 0
    BY ModelFacts DEF IsTransition
  <2>2. b \in DOMAIN T(t).targets
    <3>1. T(t).targets \in Seq(Value)
      BY ModelFacts DEF IsTransition
    <3> QED
      BY <2>1, <3>1
  <2> QED
    BY <2>1, <2>2 DEF Branches
<1> QED
  BY <1>1 DEF Fired

(* What the advance fires leaves an engine at the same instant.            *)
LEMMA FiringsFacts ==
  ASSUME model \in Models, NEW p, EngineInv(p.engine), p.event \in Trans
  PROVE  /\ Firings(p) # {}
         /\ \A x \in Firings(p) : StandsAt(x, p.engine.time)
<1>1. \A x \in Firings(p) : StandsAt(x, p.engine.time)
  BY NoneIsABranch, FiredInv, WatchedFiredInv DEF Firings
<1>2. \A en : Fired(en, p.event, None) # {}
  BY FiringExists
<1>3. WatchedFired(p.engine, p.event, None) # {}
  BY <1>2 DEF WatchedFired
<1>4. Firings(p) # {}
  BY <1>2, <1>3 DEF Firings
<1> QED
  BY <1>1, <1>4

-----------------------------------------------------------------------------
(* The advance of the operator                                             *)

Completed(en) == Ready(en) = {} /\ \A t \in Dated(en) : en.time < DateOf(en, t)

(* What is true after every turn of the advance.                           *)
LoopInv(loop, en, date) ==
  /\ loop = [engine |-> loop.engine, instant |-> loop.instant, at |-> loop.at,
             stop |-> loop.stop]
  /\ StandsAt(loop.engine, loop.engine.time)
  /\ Reachable(en, loop.engine.time) /\ loop.engine.time <= date
  /\ loop.stop = "refused" <=> loop.engine.error # None
  /\ loop.at \subseteq {loop.engine.time} /\ (loop.stop = "refused" => loop.at = {})
  /\ loop.stop = None =>
       /\ loop.instant # None => loop.instant = loop.engine.time
       /\ loop.instant = None => loop.engine = en /\ loop.at = {}
  /\ loop.stop \in {"event", "target"} => Completed(loop.engine)
  /\ loop.stop = "target" => loop.engine.store = en.store

(* The advance before its first turn.                                      *)
Setting(en) == [engine |-> en, instant |-> None, at |-> {}, stop |-> None]

(* The advance begins where the engine is.                                 *)
LEMMA LoopStarts ==
  ASSUME NEW en, EngineInv(en), en.error = None, NEW date \in Int, en.time <= date
  PROVE  LoopInv(Setting(en), en, date)
<1> DEFINE loop == Setting(en)
<1>1. /\ loop.engine = en /\ loop.instant = None /\ loop.at = {} /\ loop.stop = None
      /\ loop = [engine |-> loop.engine, instant |-> loop.instant, at |-> loop.at,
                 stop |-> loop.stop]
  BY DEF Setting
<1>2. StandsAt(en, en.time) /\ Reachable(en, en.time)
  BY ReachableNow DEF StandsAt, EngineInv, Typed
<1> HIDE DEF loop
<1>3. LoopInv(loop, en, date)
  BY <1>1, <1>2, StopNames DEF LoopInv
<1> QED
  BY <1>3 DEF loop

(* An instant is as completed after time went by as the dates left there   *)
(* say.                                                                    *)
LEMMA CompletedKept ==
  ASSUME NEW en, NEW m, m.store = en.store, m.slots = en.slots, m.dates = en.dates
  PROVE  /\ Ready(m) = Ready(en) /\ Dated(m) = Dated(en)
         /\ \A t \in Trans : DateOf(m, t) = DateOf(en, t)
<1>1. \A t \in Trans : DateOf(m, t) = DateOf(en, t)
  BY DEF DateOf
<1>2. Dated(m) = Dated(en)
  BY <1>1 DEF Dated
<1>3. Ready(m) = Ready(en)
  BY DEF Ready
<1> QED
  BY <1>1, <1>2, <1>3

(* One turn of `advance_operator_inner`: it probes up to the target, or    *)
(* up to the instant it fires at; stops; or fires one event.               *)
LEMMA LoopTurns ==
  ASSUME model \in Models, NEW en, EngineInv(en), en.error = None,
         NEW date \in Int, en.time <= date, date <= TMax,
         NEW loop, LoopInv(loop, en, date), NEW next, next = Turn(loop, date)
  PROVE  LoopInv(next, en, date)
<1>1. CASE loop.stop # None
  <2>1. next = loop
    BY <1>1 DEF Turn
  <2> QED
    BY <2>1
<1>2. CASE loop.stop = None
  <2> DEFINE now == loop.engine
             limit == UpTo(date, loop.instant)
             p == Probed(now, limit)
  <2>1. /\ StandsAt(now, now.time) /\ now.error = None /\ Reachable(en, now.time)
        /\ now.time <= date /\ loop.at \subseteq {now.time}
        /\ loop.instant # None => loop.instant = now.time
        /\ loop.instant = None => now = en /\ loop.at = {}
        /\ loop = [engine |-> now, instant |-> loop.instant, at |-> loop.at, stop |-> loop.stop]
    BY <1>2, StopNames DEF LoopInv
  <2>2. EngineInv(now) /\ now.time \in Int /\ TMax \in Int
    BY <2>1, ModelFacts DEF StandsAt, EngineInv, Typed
  <2>3. limit \in Int /\ now.time <= limit /\ limit <= TMax /\ limit <= date
        /\ (loop.instant # None => limit = now.time)
    BY <2>1, <2>2 DEF UpTo
  <2>4. /\ Reachable(now, p.engine.time) /\ Went(p.engine, now, p.engine.time)
        /\ p.event # None => p.event \in Trans /\ p.engine.time <= limit
        /\ p.event = None => /\ p.engine.time = limit /\ Ready(now) = {}
                             /\ \A u \in Dated(now) : limit < DateOf(now, u)
    <3> HIDE DEF limit, now
    <3>1. p = Probed(now, limit)
      OBVIOUS
    <3> HIDE DEF p
    <3> QED
      BY <2>2, <2>3, <3>1, ProbedFacts
  <2>5. next = CASE p.event = None ->
                      [loop EXCEPT !.engine = p.engine,
                                   !.stop = IF loop.instant = None THEN "target" ELSE "event"]
                 [] p.event # None /\ Choice(p.event) ->
                      [loop EXCEPT !.engine = p.engine, !.stop = "choice"]
                 [] OTHER -> AfterFiring(loop, CHOOSE x \in Firings(p) : TRUE)
    BY <1>2 DEF Turn, TurnOn, Stopped
  <2> HIDE DEF p, limit, now
  <2>6. /\ p.engine.time \in Int /\ now.time <= p.engine.time /\ p.engine.time <= limit
        /\ EngineInv(p.engine) /\ p.engine.error = None /\ p.engine.store = now.store
        /\ IsEngine(p.engine)
    BY <2>1, <2>3, <2>4 DEF Reachable, Went, EngineInv, Typed
  <2>7. p.engine.time <= date
    BY <2>3, <2>6, <2>2
  <2>8. loop.instant # None => p.engine.time = now.time
    BY <2>3, <2>6, <2>2
  <2>9. Reachable(en, p.engine.time) /\ loop.at \subseteq {p.engine.time}
    BY <2>1, <2>4, <2>8
  <2>10. StandsAt(p.engine, p.engine.time)
    BY <2>6 DEF StandsAt
  <2>11. CASE p.event = None
    <3> DEFINE why == IF loop.instant = None THEN "target" ELSE "event"
    <3>1. next = [loop EXCEPT !.engine = p.engine, !.stop = why]
      BY <2>5, <2>11
    <3>2. why # None /\ why # "refused" /\ (why = "target" => loop.instant = None)
      BY StopNames
    <3> HIDE DEF why
    <3>3. /\ next = [engine |-> p.engine, instant |-> loop.instant, at |-> loop.at, stop |-> why]
      BY <3>1, <2>1
    <3>4. /\ next.engine = p.engine /\ next.instant = loop.instant /\ next.at = loop.at
          /\ next.stop = why
          /\ next = [engine |-> next.engine, instant |-> next.instant, at |-> next.at,
                     stop |-> next.stop]
      BY <3>3
    <3>5. Completed(p.engine)
      <4>1. p.engine.slots = now.slots /\ p.engine.dates = now.dates
        BY <2>4 DEF Went
      <4>2. Ready(p.engine) = {} /\ Dated(p.engine) = Dated(now)
            /\ \A t \in Trans : DateOf(p.engine, t) = DateOf(now, t)
        BY <2>4, <2>6, <2>11, <4>1, CompletedKept
      <4> QED
        BY <2>4, <2>11, <4>2 DEF Completed, Dated
    <3>6. why = "target" => p.engine.store = en.store
      BY <2>1, <2>6, <3>2
    <3> QED
      BY <2>6, <2>7, <2>9, <2>10, <3>2, <3>4, <3>5, <3>6 DEF LoopInv
  <2>12. CASE p.event # None /\ Choice(p.event)
    <3>1. next = [loop EXCEPT !.engine = p.engine, !.stop = "choice"]
      BY <2>5, <2>12
    <3>2. next = [engine |-> p.engine, instant |-> loop.instant, at |-> loop.at, stop |-> "choice"]
      BY <3>1, <2>1
    <3>3. /\ next.engine = p.engine /\ next.instant = loop.instant /\ next.at = loop.at
          /\ next.stop = "choice"
          /\ next = [engine |-> next.engine, instant |-> next.instant, at |-> next.at,
                     stop |-> next.stop]
      BY <3>2
    <3> QED
      BY <2>6, <2>7, <2>9, <2>10, <3>3, StopNames DEF LoopInv
  <2>13. CASE p.event # None /\ ~Choice(p.event)
    <3> DEFINE x == CHOOSE f \in Firings(p) : TRUE
    <3>1. next = AfterFiring(loop, x)
      BY <2>5, <2>13
    <3>2. Firings(p) # {} /\ \A f \in Firings(p) : StandsAt(f, p.engine.time)
      BY <2>4, <2>6, <2>13, FiringsFacts
    <3>3. StandsAt(x, p.engine.time)
      BY <3>2
    <3> HIDE DEF x
    <3>4. x.time = p.engine.time /\ StandsAt(x, x.time)
      BY <3>3 DEF StandsAt
    <3>5. CASE x.error # None
      <4>1. next = [engine |-> x, instant |-> None, at |-> {}, stop |-> "refused"]
        BY <3>1, <3>5 DEF AfterFiring
      <4>2. /\ next.engine = x /\ next.instant = None /\ next.at = {} /\ next.stop = "refused"
            /\ next = [engine |-> next.engine, instant |-> next.instant, at |-> next.at,
                       stop |-> next.stop]
        BY <4>1
      <4> QED
        BY <2>7, <2>9, <3>4, <3>5, <4>2, StopNames DEF LoopInv
    <3>6. CASE x.error = None
      <4>1. next = [engine |-> x, instant |-> x.time, at |-> loop.at \cup {x.time}, stop |-> None]
        BY <3>1, <3>6 DEF AfterFiring
      <4>2. /\ next.engine = x /\ next.instant = x.time /\ next.at = loop.at \cup {x.time}
            /\ next.stop = None
            /\ next = [engine |-> next.engine, instant |-> next.instant, at |-> next.at,
                       stop |-> next.stop]
        BY <4>1
      <4>3. x.time # None
        BY <2>6, <3>4, NoneApart
      <4> QED
        BY <2>7, <2>9, <3>4, <3>6, <4>2, <4>3, StopNames DEF LoopInv
    <3> QED
      BY <3>5, <3>6
  <2> QED
    BY <2>11, <2>12, <2>13
<1> QED
  BY <1>1, <1>2

(* The recursive function takes one turn after another.                    *)
LEMMA AdvancedTurns ==
  ASSUME NEW en, NEW date, NEW events \in Nat
  PROVE  \E after :
           /\ after[0] = Setting(en)
           /\ \A k \in 1..events : after[k] = Turn(after[k - 1], date)
           /\ Advanced(en, date, events) =
                [after[events] EXCEPT !.stop = IF @ = None THEN "incomplete" ELSE @]
<1> DEFINE n == events
           at(m, f) == [k \in 0..m |-> IF k = 0 THEN Setting(en) ELSE Turn(f[k - 1], date)]
           Missing == {m \in Nat : ~ \E f : f = at(m, f)}
           all == CHOOSE f : f = at(n, f)
<1>1. Missing = {}
  <2> SUFFICES ASSUME Missing # {} PROVE FALSE
    OBVIOUS
  <2>1. PICK m \in Missing : \A q \in Missing : ~(<<q, m>> \in OpToRel(<, Nat))
    BY NatLessThanWellFounded, WFMin
  <2>2. m # 0
    <3> DEFINE f == [k \in 0..0 |-> Setting(en)]
    <3>1. f = at(0, f)
      OBVIOUS
    <3>2. \E g : g = at(0, g)
      BY <3>1
    <3> HIDE DEF f, at
    <3> QED
      BY <2>1, <3>2
  <2>3. m - 1 \in Nat /\ <<m - 1, m>> \in OpToRel(<, Nat)
    BY <2>1, <2>2 DEF OpToRel
  <2>4. PICK f : f = at(m - 1, f)
    <3> HIDE DEF at
    <3> QED
      BY <2>1, <2>3
  <2> DEFINE g == [k \in 0..m |-> IF k <= m - 1 THEN f[k] ELSE Turn(f[m - 1], date)]
  <2>5. \A k \in 0..(m - 1) : f[k] = IF k = 0 THEN Setting(en) ELSE Turn(f[k - 1], date)
    BY <2>4
  <2>6. \A k \in 0..m : g[k] = IF k = 0 THEN Setting(en) ELSE Turn(g[k - 1], date)
    <3> SUFFICES ASSUME NEW k \in 0..m
                 PROVE  g[k] = IF k = 0 THEN Setting(en) ELSE Turn(g[k - 1], date)
      OBVIOUS
    <3>1. m \in Nat /\ m # 0
      BY <2>1, <2>2
    <3>2. CASE k = m
      BY <3>1, <3>2
    <3>3. CASE k # m
      <4>1. k \in 0..(m - 1) /\ g[k] = f[k]
        BY <3>1, <3>3
      <4>2. k # 0 => g[k - 1] = f[k - 1]
        BY <3>1, <4>1
      <4> HIDE DEF g
      <4> QED
        BY <2>5, <4>1, <4>2
    <3> QED
      BY <3>2, <3>3
  <2>7. g = at(m, g)
    <3>1. g = [k \in 0..m |-> g[k]]
      OBVIOUS
    <3> HIDE DEF g
    <3> QED
      BY <2>6, <3>1
  <2>8. \E h : h = at(m, h)
    <3> HIDE DEF at, g
    <3> QED
      BY <2>7
  <2> HIDE DEF at, g
  <2> QED
    BY <2>1, <2>8
<1>2. all = at(n, all)
  <2>1. \E f : f = at(n, f)
    <3> HIDE DEF at
    <3> QED
      BY <1>1
  <2> HIDE DEF at
  <2> QED
    BY <2>1
<1>3. Advanced(en, date, events) =
        [all[n] EXCEPT !.stop = IF @ = None THEN "incomplete" ELSE @]
  BY DEF Advanced, Setting
<1>4. all[0] = Setting(en) /\ \A k \in 1..n : all[k] = Turn(all[k - 1], date)
  <2> HIDE DEF all
  <2>1. \A k \in 0..n : all[k] = IF k = 0 THEN Setting(en) ELSE Turn(all[k - 1], date)
    BY <1>2
  <2> QED
    BY <2>1
<1> HIDE DEF all
<1> QED
  BY <1>3, <1>4

(* `advance_operator_inner`: by induction on the turns.                    *)
LEMMA AdvancedFacts ==
  ASSUME model \in Models, NEW en, EngineInv(en), en.error = None,
         NEW date \in Int, en.time <= date, date <= TMax, NEW events \in Nat,
         NEW done, done = Advanced(en, date, events)
  PROVE  LoopInv(done, en, date) /\ done.stop # None
<1>1. PICK after : /\ after[0] = Setting(en)
                   /\ \A k \in 1..events : after[k] = Turn(after[k - 1], date)
                   /\ done = [after[events] EXCEPT !.stop = IF @ = None THEN "incomplete" ELSE @]
  BY AdvancedTurns
<1> DEFINE Broken == {k \in Nat : k <= events /\ ~LoopInv(after[k], en, date)}
<1>2. Broken = {}
  <2> SUFFICES ASSUME Broken # {}  PROVE FALSE
    OBVIOUS
  <2>1. PICK k \in Broken : \A q \in Broken : ~(<<q, k>> \in OpToRel(<, Nat))
    BY NatLessThanWellFounded, WFMin
  <2>2. k # 0
    <3>1. LoopInv(after[0], en, date)
      <4>1. after[0] = Setting(en)
        BY <1>1
      <4> QED
        BY <4>1, LoopStarts
    <3> QED
      BY <2>1, <3>1
  <2>3. k - 1 \in Nat /\ <<k - 1, k>> \in OpToRel(<, Nat) /\ k - 1 <= events /\ k \in 1..events
    BY <2>1, <2>2 DEF OpToRel
  <2>4. LoopInv(after[k - 1], en, date)
    BY <2>1, <2>3
  <2>5. after[k] = Turn(after[k - 1], date)
    BY <1>1, <2>3
  <2>6. LoopInv(after[k], en, date)
    BY <2>4, <2>5, LoopTurns
  <2> QED
    BY <2>1, <2>6
<1> DEFINE last == after[events]
<1>3. LoopInv(last, en, date)
  BY <1>2
<1>4. done = [last EXCEPT !.stop = IF last.stop = None THEN "incomplete" ELSE last.stop]
  BY <1>1
<1> HIDE DEF last
<1>5. CASE last.stop # None
  <2>1. last = [engine |-> last.engine, instant |-> last.instant, at |-> last.at,
                stop |-> last.stop]
    BY <1>3 DEF LoopInv
  <2>2. done = [last EXCEPT !.stop = last.stop]
    BY <1>4, <1>5
  <2>3. done = last
    BY <2>1, <2>2
  <2> QED
    BY <1>3, <1>5, <2>3
<1>6. CASE last.stop = None
  <2>1. /\ last = [engine |-> last.engine, instant |-> last.instant, at |-> last.at,
                   stop |-> last.stop]
        /\ last.engine.error = None
    BY <1>3, <1>6, StopNames DEF LoopInv
  <2>2. done = [last EXCEPT !.stop = "incomplete"]
    BY <1>4, <1>6
  <2>3. /\ done.engine = last.engine /\ done.instant = last.instant /\ done.at = last.at
        /\ done.stop = "incomplete"
        /\ done = [engine |-> done.engine, instant |-> done.instant, at |-> done.at,
                   stop |-> done.stop]
    BY <2>1, <2>2
  <2> QED
    BY <1>3, <2>1, <2>3, StopNames DEF LoopInv
<1> QED
  BY <1>5, <1>6

-----------------------------------------------------------------------------
(* The model does not change                                               *)

(* The engine a call leaves is judged by the same compiled model.          *)
LEMMA SameModel ==
  ASSUME model' = model
  PROVE  /\ \A t : T(t)' = T(t)
         /\ Mode' = Mode
         /\ \A t : Choice(t)' = Choice(t)
         /\ \A t : Held(t)' = Held(t)
<1>1. \A t : T(t)' = T(t)
  BY DEF T
<1>2. Mode' = Mode
  BY DEF Mode
<1>3. \A t : Branches(t)' = Branches(t)
  BY <1>1 DEF Branches
<1>4. \A t : Choice(t)' = Choice(t)
  BY <1>1, <1>3 DEF Choice
<1> QED
  BY <1>1, <1>2, <1>4 DEF Held

LEMMA SamePredicates ==
  ASSUME model' = model, NEW t, NEW s, NEW u
  PROVE  /\ Watched(t)' = Watched(t) /\ HasAge(t)' = HasAge(t)
         /\ Rides(t, s)' = Rides(t, s) /\ InSource(t, s)' = InSource(t, s)
<1>1. Watched(t)' = Watched(t)
  BY SameModel DEF Watched
<1>2. HasAge(t)' = HasAge(t)
  BY SameModel DEF HasAge
<1>3. Rides(t, s)' = Rides(t, s)
  BY SameModel DEF Rides, Enabled
<1>4. InSource(t, s)' = InSource(t, s)
  BY SameModel DEF InSource
<1> QED
  BY <1>1, <1>2, <1>3, <1>4

LEMMA SameFits ==
  ASSUME model' = model, NEW t, NEW s, NEW en, FitsAt(en, t, s)
  PROVE  FitsAt(en, t, s)'
<1>1. HasAge(t) => ClockFits([age |-> en.ages[t], hazard |-> en.hazards[t]], en.lived[t], t, s, en.time)'
  BY SameModel DEF FitsAt, ClockFits, Rides, Enabled
<1>2. DateFits(en.dates[t], en.lived[t], t, s, en.time)'
  BY SameModel DEF FitsAt, DateFits, Rides, Enabled, Watched
<1>3. SlotFits(en.slots[t], en.lived[t], t, s)'
  BY SameModel DEF FitsAt, SlotFits, Rides, Enabled, Watched, InSource
<1>4. HasAge(t)' = HasAge(t)
  BY SameModel DEF HasAge
<1> QED
  BY <1>1, <1>2, <1>3, <1>4 DEF FitsAt

LEMMA SameInv ==
  ASSUME model' = model, NEW en, EngineInv(en)
  PROVE  EngineInv(en)'
<1>1. Typed(en)'
  BY DEF EngineInv, Typed
<1>2. ASSUME NEW t \in Trans  PROVE FitsAt(en, t, en.store)'
  BY SameFits DEF EngineInv, Fits
<1>3. HeldNow(en)'
  BY SameModel DEF EngineInv, HeldNow
<1> QED
  BY <1>1, <1>2, <1>3 DEF EngineInv, Fits

LEMMA PrimedInv ==
  ASSUME model' = model, NEW x, e' = x, EngineInv(x)
  PROVE  EngineInv(e)'
<1>1. EngineInv(x)'
  BY SameInv
<1> QED
  BY <1>1

LEMMA PrimedSaved ==
  ASSUME model' = model, NEW x, saved' = x, EngineInv(x)
  PROVE  EngineInv(saved)'
<1>1. EngineInv(x)'
  BY SameInv
<1> QED
  BY <1>1

-----------------------------------------------------------------------------
(* Setting the clock, going to a date                                      *)

LEMMA ClockAtFacts ==
  ASSUME OInv, e.error = None, NEW date \in Int, Reachable(e, Later(date, e.time)),
         Later(date, e.time) = e.time \/ NoHeldDated(e), NEW x, x = ClockAt(date)
  PROVE  Went(x, e, Later(date, e.time))
<1>1. EngineInv(e) /\ e.time \in Int /\ model \in Models
  BY DEF OInv, EngineInv, Typed
<1>2. CASE e.time < date
  <2>1. Later(date, e.time) = date /\ x = RestartedAt(e, date)
    BY <1>1, <1>2 DEF Later, ClockAt
  <2> QED
    BY <1>1, <2>1, GoneTo
<1>3. CASE ~(e.time < date)
  <2>1. Later(date, e.time) = e.time /\ x = e
    BY <1>1, <1>3 DEF Later, ClockAt
  <2> QED
    BY <1>1, <2>1, StoodStill
<1> QED
  BY <1>2, <1>3

(* An engine that a call may leave: it went past nothing.                  *)
Legal(x) == StandsAt(x, x.time) /\ Reachable(e, x.time)

LEMMA WentIsLegal ==
  ASSUME NEW x, NEW time, Went(x, e, time), Reachable(e, time)
  PROVE  Legal(x)
  BY DEF Legal, Went, StandsAt, EngineInv, Typed

LEMMA StandsIsLegal ==
  ASSUME NEW x, NEW time, StandsAt(x, time), Reachable(e, time)
  PROVE  Legal(x)
  BY DEF Legal, StandsAt

(* `step`, engine/run.rs, stopping at a held choice, and returning at a    *)
(* horizon.                                                                *)
LEMMA StepsLegal ==
  ASSUME OInv, e.error = None, NEW horizon \in Int, NEW x \in Steps(horizon)
  PROVE  Legal(x)
<1>1. EngineInv(e) /\ e.time \in Int /\ model \in Models /\ Typed(e)
  BY DEF OInv, EngineInv, Typed
<1>2. CASE Ready(e) # {}
  <2>1. x \in WatchedFired(e, FirstReady(e), None)
    BY <1>2 DEF Steps
  <2>2. StandsAt(x, e.time)
    BY <1>1, <1>2, <2>1, FirstReadyFacts, NoneIsABranch, WatchedFiredInv
  <2> QED
    BY <1>1, <2>2, ReachableNow, StandsIsLegal
<1>3. CASE Ready(e) = {}
  <2> DEFINE t == NextDated(e)
             date == Later(DateOf(e, t), e.time)
             at == RestartedAt(e, date)
  <2>1. DueBy(e, horizon) /\ x \in Fired(at, t, None)
    BY <1>3 DEF Steps
  <2>2. t # None /\ t \in Trans
    BY <1>1, <2>1, NextIsFirst DEF DueBy
  <2>3. Reachable(e, date) /\ (date = e.time \/ NoHeldDated(e))
    BY <1>1, <1>3, <2>2, DatedIsReachable
  <2> HIDE DEF t, date
  <2>4. Went(at, e, date)
    BY <1>1, <2>3, GoneTo
  <2> HIDE DEF at
  <2>5. StandsAt(x, at.time) /\ at.time = date
    BY <1>1, <2>1, <2>2, <2>4, NoneIsABranch, FiredInv DEF Went
  <2> QED
    BY <2>3, <2>5, StandsIsLegal
<1> QED
  BY <1>2, <1>3

LEMMA StopsAtHeldLegal ==
  ASSUME OInv, e.error = None, NEW horizon, StopsAtHeld(horizon)
  PROVE  Legal(AtHeld)
<1>1. EngineInv(e) /\ model \in Models
  BY DEF OInv
<1> DEFINE date == Later(DateOf(e, NextDated(e)), e.time)
<1>2. Reachable(e, date) /\ (date = e.time \/ NoHeldDated(e))
  BY <1>1, DatedIsReachable DEF StopsAtHeld, DueBy
<1>3. AtHeld = RestartedAt(e, date)
  BY DEF AtHeld
<1> HIDE DEF date
<1>4. Went(AtHeld, e, date)
  BY <1>1, <1>2, <1>3, GoneTo
<1> QED
  BY <1>2, <1>4, WentIsLegal

LEMMA NothingWithinLegal ==
  ASSUME OInv, e.error = None, NEW date \in Int, NothingWithin(date)
  PROVE  Legal(ClockAt(date))
<1>1. EngineInv(e) /\ model \in Models /\ e.time \in Int /\ Typed(e)
  BY DEF OInv, EngineInv, Typed
<1> DEFINE to == Later(date, e.time)
<1>2. Reachable(e, to) /\ (to = e.time \/ NoHeldDated(e))
  <2>1. CASE date <= e.time
    <3>1. to = e.time
      BY <1>1, <2>1 DEF Later
    <3> QED
      BY <1>1, <3>1, ReachableNow
  <2>2. CASE e.time < date
    <3>1. to = date
      BY <1>1, <2>2 DEF Later
    <3>2. NextDated(e) # None => date < DateOf(e, NextDated(e)) /\ DateOf(e, NextDated(e)) \in Int
      BY <1>1, NotDueFacts, NextIsFirst DEF NothingWithin
    <3>3. NextDated(e) # None => date <= DateOf(e, NextDated(e))
      BY <3>2
    <3>4. Ready(e) = {}
      BY DEF NothingWithin
    <3>5. Reachable(e, date) /\ (date = e.time \/ NoHeldDated(e))
      BY <1>1, <2>2, <3>3, <3>4, UndueIsReachable
    <3> QED
      BY <3>1, <3>5
  <2> QED
    BY <1>1, <2>1, <2>2
<1>3. Went(ClockAt(date), e, to)
  BY <1>2, ClockAtFacts
<1> HIDE DEF to
<1> QED
  BY <1>2, <1>3, WentIsLegal

-----------------------------------------------------------------------------
(* Snapshots and transactions                                              *)

LEMMA RestoredIs ==
  ASSUME NEW now, IsEngine(now), NEW snap, IsEngine(snap), snap.error = None
  PROVE  Restored(now, snap) = snap
<1> DEFINE r == Restored(now, snap)
<1>1. /\ IsEngine(r)
      /\ r.store = snap.store /\ r.time = snap.time /\ r.wave = snap.wave
      /\ r.slots = snap.slots /\ r.ages = snap.ages /\ r.hazards = snap.hazards
      /\ r.dates = snap.dates /\ r.streak = snap.streak /\ r.firings = snap.firings
      /\ r.seqEnd = snap.seqEnd /\ r.error = snap.error /\ r.drawn = snap.drawn
      /\ r.lived = snap.lived
  BY DEF Restored, IsEngine, EngineFields
<1> HIDE DEF r
<1>2. \A x \in EngineFields : r[x] = snap[x]
  BY <1>1 DEF EngineFields
<1>3. r = snap
  BY <1>1, <1>2 DEF IsEngine
<1> QED
  BY <1>3 DEF r

(* A refused call of the operator is rolled back to where it began.        *)
LEMMA OutcomeFacts ==
  ASSUME OInv, e.error = None, NEW after, IsEngine(after), Outcome(after)
  PROVE  /\ e' = e \/ e' = after
         /\ e' = after \/ after.error # None
         /\ after.error # None /\ Mode = "operator" => e' = e
  BY RestoredIs DEF Outcome, OInv

(* What a step keeps when the engine it leaves is known.                   *)
LEMMA KeepsInv ==
  ASSUME OInv, model' = model, calls' \in Nat, e' = e \/ StandsAt(e', e'.time),
         NEW x, saved' = x, x # None => EngineInv(x) /\ x.error = None,
         bound' # None => e'.error = None /\ Automatic /\ bound' \in Int
  PROVE  OInv'
<1>1. IsEngine(e')
  BY DEF OInv, StandsAt
<1>2. e'.error = None => EngineInv(e')
  BY DEF OInv, StandsAt
<1>3. (e.error = None => EngineInv(e))'
  <2>1. SUFFICES ASSUME e'.error = None  PROVE EngineInv(e)'
    OBVIOUS
  <2> DEFINE y == e'
  <2>2. EngineInv(y)
    BY <1>2, <2>1
  <2> QED
    BY <2>2, PrimedInv
<1>4. (saved # None => EngineInv(saved) /\ saved.error = None)'
  BY PrimedSaved
<1>5. (bound # None => e.error = None /\ Automatic /\ bound \in Int)'
  BY SameModel DEF Automatic
<1>6. (model \in Models)'
  BY DEF OInv, Models
<1>7. IsEngine(e)'
  BY <1>1 DEF IsEngine
<1> QED
  BY <1>3, <1>4, <1>5, <1>6, <1>7 DEF OInv

-----------------------------------------------------------------------------
(* The calls                                                               *)

(* What a step of the operator keeps.                                      *)
Atomic == Mode = "operator" /\ did'.stop = "refused" => e' = e

StepKeeps == OInv' /\ NothingSkipped /\ OneInstant /\ Atomic

(* What a call that ends keeps: the engine is sound, nothing due was       *)
(* passed over, and it was left alone if the call was refused.             *)
LEMMA CommandKeeps ==
  ASSUME OInv, NEW call, NEW after, Command(call, after), call # "operate",
         StandsAt(after, after.time), Legal(after) \/ call = "fire_idx"
  PROVE  StepKeeps
<1>1. /\ e.error = None /\ bound = None /\ calls' = calls + 1 /\ Outcome(after)
      /\ did' = [call |-> call, stop |-> Ending(after), instants |-> {after.time}]
      /\ model' = model /\ bound' = bound /\ saved' = saved
  BY DEF Command, Call, Says
<1>2. did'.call = call /\ did'.stop = Ending(after)
  BY <1>1
<1>3. /\ e' = e \/ e' = after
      /\ e' = after \/ after.error # None
      /\ after.error # None /\ Mode = "operator" => e' = e
  BY <1>1, OutcomeFacts DEF StandsAt
<1>4. OInv'
  <2>1. calls' \in Nat
    BY <1>1 DEF OInv
  <2>2. saved # None => EngineInv(saved) /\ saved.error = None
    BY DEF OInv
  <2>3. e' = e \/ StandsAt(e', e'.time)
    BY <1>3
  <2> QED
    BY <1>1, <2>1, <2>2, <2>3, KeepsInv
<1>5. e.time \in Int
  BY <1>1 DEF OInv, EngineInv, Typed
<1>6. NothingSkipped
  <2> SUFFICES ASSUME e'.time > e.time, did'.call \notin {"fire_idx", "rewind"}
               PROVE  Ready(e) = {} /\ \A t \in Dated(e) : DateOf(e, t) >= e'.time
    BY DEF NothingSkipped
  <2>1. e' = after
    BY <1>3, <1>5
  <2>2. Reachable(e, after.time)
    BY <1>2 DEF Legal
  <2> QED
    BY <2>1, <2>2 DEF Reachable
<1>7. OneInstant
  BY <1>2 DEF OneInstant, Operates
<1>8. Atomic
  BY <1>2, <1>3 DEF Atomic, Ending
<1> QED
  BY <1>4, <1>6, <1>7, <1>8 DEF StepKeeps

LEMMA LegalStands ==
  ASSUME NEW x, Legal(x)
  PROVE  StandsAt(x, x.time)
  BY DEF Legal

(* The dates a caller gives.                                               *)
LEMMA DatesFacts == Dates \subseteq Int /\ TMax \in Nat
  BY DeferredAssumption DEF Dates

(* A call finds an engine that stands.                                     *)
LEMMA CallFacts ==
  ASSUME OInv, e.error = None
  PROVE  EngineInv(e) /\ Typed(e) /\ IsEngine(e) /\ e.time \in Int /\ model \in Models
  BY DEF OInv, EngineInv, Typed

(* `step_until`.                                                           *)
LEMMA StepUntilKeeps ==
  ASSUME OInv, NEW date \in Dates, StepUntil(date)
  PROVE  StepKeeps
<1>1. PICK after \in Steps(date)
                      \cup (IF StopsAtHeld(date) THEN {AtHeld} ELSE {})
                      \cup (IF NothingWithin(date) THEN {ClockAt(date)} ELSE {}) :
        Command("step", after)
  BY DEF StepUntil
<1>2. e.error = None /\ date \in Int
  BY <1>1, DatesFacts DEF Command, Call
<1>3. Legal(after)
  <2>1. \/ after \in Steps(date)
        \/ StopsAtHeld(date) /\ after = AtHeld
        \/ NothingWithin(date) /\ after = ClockAt(date)
    BY <1>1
  <2> QED
    BY <1>2, <2>1, StepsLegal, StopsAtHeldLegal, NothingWithinLegal
<1> QED
  BY <1>1, <1>3, LegalStands, CommandKeeps

(* `advance_to`: it begins, steps, and returns.                            *)
LEMMA AdvanceToKeeps ==
  ASSUME OInv, NEW date \in Dates, AdvanceTo(date)
  PROVE  StepKeeps
<1>1. /\ e.error = None /\ calls' = calls + 1 /\ Automatic /\ bound' = date /\ date \in Int
      /\ did' = [call |-> "advance", stop |-> "going", instants |-> {}]
      /\ model' = model /\ e' = e /\ saved' = saved
  BY DatesFacts DEF AdvanceTo, Call, Says
<1>2. did'.call = "advance" /\ did'.stop = "going"
  BY <1>1
<1>3. OInv'
  <2>1. calls' \in Nat
    BY <1>1 DEF OInv
  <2>2. saved # None => EngineInv(saved) /\ saved.error = None
    BY DEF OInv
  <2> QED
    BY <1>1, <2>1, <2>2, KeepsInv
<1>4. e.time \in Int
  BY <1>1, CallFacts
<1> QED
  BY <1>1, <1>2, <1>3, <1>4 DEF StepKeeps, NothingSkipped, OneInstant, Operates, Atomic

(* A step inside a call of the automatic modes.                            *)
LEMMA InnerStepKeeps ==
  ASSUME OInv, bound # None, Legal(e'), bound' # None => bound' = bound /\ e'.error = None,
         UNCHANGED <<model, saved, calls, did>>
  PROVE  StepKeeps
<1>1. e.error = None /\ Automatic /\ bound \in Int /\ calls \in Nat
  BY DEF OInv
<1>2. OInv'
  <2>1. saved # None => EngineInv(saved) /\ saved.error = None
    BY DEF OInv
  <2>2. StandsAt(e', e'.time)
    BY DEF Legal
  <2> QED
    BY <1>1, <2>1, <2>2, KeepsInv
<1>3. e.time \in Int
  BY <1>1, CallFacts
<1>4. NothingSkipped
  BY <1>3 DEF NothingSkipped, Legal, Reachable
<1>5. OneInstant
  BY <1>1 DEF OneInstant, Operates
<1>6. Atomic
  BY <1>1 DEF Atomic, Automatic
<1> QED
  BY <1>2, <1>4, <1>5, <1>6 DEF StepKeeps

LEMMA AdvanceStepKeeps ==
  ASSUME OInv, AdvanceStep
  PROVE  StepKeeps
<1>1. PICK after \in Steps(bound) :
        e' = after /\ bound' = IF after.error = None THEN bound ELSE None
  BY DEF AdvanceStep
<1>2. e.error = None /\ bound \in Int /\ bound # None
  BY DEF OInv, AdvanceStep
<1>3. Legal(after)
  BY <1>2, StepsLegal
<1> QED
  BY <1>1, <1>2, <1>3, InnerStepKeeps DEF AdvanceStep

LEMMA AdvanceReturnKeeps ==
  ASSUME OInv, AdvanceReturn
  PROVE  StepKeeps
<1>1. e.error = None /\ bound \in Int /\ bound # None
  BY DEF OInv, AdvanceReturn
<1>2. Legal(e')
  BY <1>1, NothingWithinLegal, StopsAtHeldLegal DEF AdvanceReturn
<1> QED
  BY <1>1, <1>2, InnerStepKeeps DEF AdvanceReturn

(* `probe_deferred`.                                                       *)
LEMMA ProbeKeeps ==
  ASSUME OInv, NEW limit \in Dates, ProbeDeferred(limit)
  PROVE  StepKeeps
<1> DEFINE p == Probed(e, limit)
<1>1. Command("probe", p.engine) /\ e.time <= limit
  BY DEF ProbeDeferred
<1>2. EngineInv(e) /\ limit \in Int /\ model \in Models
  BY <1>1, CallFacts, DatesFacts DEF Command, Call
<1>3. Reachable(e, p.engine.time) /\ Went(p.engine, e, p.engine.time)
  BY <1>1, <1>2, ProbedFacts
<1> HIDE DEF p
<1>4. Legal(p.engine)
  BY <1>3, WentIsLegal
<1> QED
  BY <1>1, <1>4, LegalStands, CommandKeeps

(* `advance_operator_to`.                                                  *)
LEMMA AdvanceOperatorKeeps ==
  ASSUME OInv, NEW date \in Dates, NEW n \in Budgets, AdvanceOperatorTo(date, n)
  PROVE  StepKeeps
<1> DEFINE done == Advanced(e, date, n)
           x == done.engine
<1>1. /\ e.error = None /\ bound = None /\ calls' = calls + 1 /\ ~Automatic
      /\ e.time <= date /\ date <= TMax /\ Outcome(x)
      /\ did' = [call |-> "operate", stop |-> done.stop, instants |-> done.at]
      /\ model' = model /\ bound' = bound /\ saved' = saved
  BY DEF AdvanceOperatorTo, Call, Operated, Says
<1>2. /\ EngineInv(e) /\ date \in Int /\ model \in Models /\ n \in Nat /\ IsEngine(e)
      /\ e.time \in Int
  BY <1>1, CallFacts, DatesFacts, OperatorAssumption
<1>3. LoopInv(done, e, date)
  BY <1>1, <1>2, AdvancedFacts
<1> HIDE DEF done
<1>4. did'.call = "operate" /\ did'.stop = done.stop /\ did'.instants = done.at
  BY <1>1
<1>5. StandsAt(x, x.time) /\ Reachable(e, x.time)
  BY <1>3 DEF LoopInv
<1>6. Mode = "operator"
  BY <1>1 DEF Automatic
<1>7. /\ x.error = None => e' = x
      /\ x.error # None => e' = e
  BY <1>1, <1>5, <1>6, OutcomeFacts DEF StandsAt
<1>8. OInv'
  <2>1. calls' \in Nat
    BY <1>1 DEF OInv
  <2>2. saved # None => EngineInv(saved) /\ saved.error = None
    BY DEF OInv
  <2>3. e' = e \/ StandsAt(e', e'.time)
    BY <1>5, <1>7
  <2> QED
    BY <1>1, <2>1, <2>2, <2>3, KeepsInv
<1>9. NothingSkipped
  <2> SUFFICES ASSUME e'.time > e.time
               PROVE  Ready(e) = {} /\ \A t \in Dated(e) : DateOf(e, t) >= e'.time
    BY DEF NothingSkipped
  <2>1. e' = x
    BY <1>2, <1>7
  <2> QED
    BY <1>5, <2>1 DEF Reachable
<1>10. OneInstant
  <2>1. CASE x.error = None
    <3>1. e' = x /\ done.stop # "refused"
      BY <1>3, <1>7, <2>1 DEF LoopInv
    <3>2. done.at \subseteq {e'.time}
      BY <1>3, <3>1 DEF LoopInv
    <3>3. done.stop \in {"event", "target"} =>
            Ready(e') = {} /\ \A t \in Dated(e') : e'.time < DateOf(e', t)
      BY <1>3, <3>1 DEF LoopInv, Completed
    <3>4. done.stop = "target" => e'.store = e.store
      BY <1>3, <3>1 DEF LoopInv
    <3> QED
      BY <1>4, <3>2, <3>3, <3>4 DEF OneInstant, Dated
  <2>2. CASE x.error # None
    <3>1. done.stop = "refused" /\ done.at = {}
      BY <1>3, <2>2 DEF LoopInv
    <3> QED
      BY <1>4, <3>1 DEF OneInstant
  <2> QED
    BY <2>1, <2>2
<1>11. Atomic
  BY <1>3, <1>4, <1>7 DEF Atomic, LoopInv
<1> QED
  BY <1>8, <1>9, <1>10, <1>11 DEF StepKeeps

-----------------------------------------------------------------------------
(* Firing by hand                                                          *)

LEMMA FireDeferredKeeps ==
  ASSUME OInv, NEW t \in Trans, NEW date \in Dates, NEW branch \in BranchOrNone(t),
         FireDeferredAt(t, date, branch)
  PROVE  StepKeeps
<1>1. PICK after \in Fired(ClockAt(date), t, branch) : Command("fire_deferred", after)
  BY DEF FireDeferredAt
<1>2. e.error = None /\ EngineInv(e) /\ e.time \in Int /\ model \in Models /\ date \in Int
  BY <1>1, CallFacts, DatesFacts DEF Command, Call
<1>3. e.time <= date /\ Later(date, e.time) = date
  BY <1>2 DEF FireDeferredAt, Later
<1>4. Reachable(e, date) /\ (date = e.time \/ NoHeldDated(e))
  BY <1>2, <1>3, UndueIsReachable DEF FireDeferredAt
<1> DEFINE at == ClockAt(date)
<1>5. Went(at, e, date)
  BY <1>2, <1>3, <1>4, ClockAtFacts
<1> HIDE DEF at
<1>6. StandsAt(after, at.time) /\ at.time = date
  BY <1>1, <1>2, <1>5, FiredInv DEF Went, at
<1>7. Legal(after)
  BY <1>4, <1>6, StandsIsLegal
<1> QED
  BY <1>1, <1>7, LegalStands, CommandKeeps

(* `fire_idx`.                                                             *)
LEMMA FireIdxKeeps ==
  ASSUME OInv, NEW t \in Trans, NEW branch \in BranchOrNone(t), FireIdx(t, branch)
  PROVE  StepKeeps
<1>1. CASE DateToFire(t) # None
  <2> DEFINE date == Later(DateToFire(t), e.time)
             at == RestartedAt(e, date)
  <2>1. ~HeldBefore(t, date) /\ \E x \in Fired(at, t, branch) : Command("fire_idx", x)
    BY <1>1 DEF FireIdx
  <2>2. PICK after \in Fired(at, t, branch) : Command("fire_idx", after)
    BY <2>1
  <2>3. e.error = None /\ EngineInv(e) /\ e.time \in Int /\ model \in Models /\ Typed(e)
    BY <2>2, CallFacts DEF Command, Call
  <2>4. /\ e.slots[t] \in Slots /\ e.dates[t] \in PlannedAt \cup {None}
    BY <2>3 DEF Typed
  <2>5. DateToFire(t) \in Int
    BY <1>1, <2>3, <2>4 DEF DateToFire, Slots, PlannedAt
  <2>6. date \in Int /\ e.time <= date
    BY <2>3, <2>5, LaterFacts
  <2>7. date = e.time \/ NoHeldDated(e)
    <3> SUFFICES ASSUME NEW h \in Trans, Held(h), e.slots[h].date # None
                 PROVE  date = e.time
      BY DEF NoHeldDated
    <3>1. e.slots[h].date = e.time
      BY <2>3 DEF EngineInv, HeldNow
    <3>2. CASE h # t
      <4>1. ~(e.slots[h].date < date)
        BY <2>1, <3>2 DEF HeldBefore
      <4> QED
        BY <2>3, <2>6, <3>1, <4>1
    <3>3. CASE h = t
      <4>1. DateFits(e.dates[t], e.lived[t], t, e.store, e.time)
        BY <2>3 DEF EngineInv, Fits, FitsAt
      <4>2. e.dates[t] = None
        BY <3>3, <4>1 DEF DateFits, Held
      <4>3. DateToFire(t) = e.time
        BY <3>1, <3>3, <4>2 DEF DateToFire
      <4> QED
        BY <2>3, <4>3 DEF Later
    <3> QED
      BY <3>2, <3>3
  <2> HIDE DEF date
  <2>8. EngineInv(at)
    BY <2>3, <2>6, <2>7, MovedInv
  <2> HIDE DEF at
  <2>9. StandsAt(after, at.time)
    BY <2>2, <2>3, <2>8, FiredInv
  <2>10. StandsAt(after, after.time)
    BY <2>9 DEF StandsAt
  <2> QED
    BY <2>2, <2>10, CommandKeeps
<1>2. CASE DateToFire(t) = None
  <2>1. PICK after \in WatchedFired(e, t, branch) : Command("fire_idx", after)
    BY <1>2 DEF FireIdx
  <2>2. e.error = None /\ EngineInv(e) /\ model \in Models
    BY <2>1, CallFacts DEF Command, Call
  <2>3. StandsAt(after, e.time)
    BY <2>1, <2>2, WatchedFiredInv
  <2>4. StandsAt(after, after.time)
    BY <2>3 DEF StandsAt
  <2> QED
    BY <2>1, <2>4, CommandKeeps
<1> QED
  BY <1>1, <1>2

(* `fire_now`.                                                             *)
LEMMA FireNowKeeps ==
  ASSUME OInv, NEW t \in Trans, NEW branch \in BranchOrNone(t), FireNow(t, branch)
  PROVE  StepKeeps
<1>1. PICK after \in Fired(e, t, branch) \cup WatchedFired(e, t, branch) :
        Command("fire_now", after)
  BY DEF FireNow
<1>2. e.error = None /\ EngineInv(e) /\ model \in Models
  BY <1>1, CallFacts DEF Command, Call
<1>3. StandsAt(after, e.time)
  BY <1>1, <1>2, FiredInv, WatchedFiredInv
<1>4. Legal(after)
  BY <1>2, <1>3, ReachableNow, StandsIsLegal
<1> QED
  BY <1>1, <1>4, LegalStands, CommandKeeps

-----------------------------------------------------------------------------
(* Dating by hand                                                          *)

(* What can be fired is not watched, has started and runs.                 *)
LEMMA ArmedFacts ==
  ASSUME NEW en, EngineInv(en), NEW t \in Trans, Armed(en, t), ~Held(t)
  PROVE  ~Watched(t) /\ en.lived[t].started /\ Rides(t, en.store)
<1>1. FitsAt(en, t, en.store)
  BY DEF EngineInv, Fits
<1>2. CASE en.slots[t].date # None
  BY <1>1, <1>2 DEF FitsAt, SlotFits
<1>3. CASE en.slots[t].date = None
  <2>1. en.ages[t] # None /\ en.ages[t].running
    BY <1>3 DEF Armed, Running
  <2>2. HasAge(t)
    BY <1>1, <2>1 DEF FitsAt
  <2>3. ClockFits([age |-> en.ages[t], hazard |-> en.hazards[t]], en.lived[t], t, en.store, en.time)
    BY <1>1, <2>2 DEF FitsAt
  <2>4. en.lived[t].started /\ Rides(t, en.store)
    BY <2>1, <2>3 DEF ClockFits
  <2> QED
    BY <2>2, <2>4 DEF HasAge, Watched
<1> QED
  BY <1>2, <1>3

(* The engine in which the operator dated a transition.                    *)
PlannedBy(en, t, date) ==
  [en EXCEPT !.dates[t] = Programmed(date), !.lived[t].left = date - en.time]

(* A date of the operator given to a transition that runs is what it has   *)
(* left.                                                                   *)
LEMMA PlannedInv ==
  ASSUME NEW en, EngineInv(en), NEW t \in Trans, Mode = "operator", Armed(en, t),
         NEW date \in Int, en.time <= date,
         NEW m, m = PlannedBy(en, t, date)
  PROVE  EngineInv(m) /\ m.time = en.time
<1>1. Typed(en) /\ IsEngine(en) /\ en.time \in Int
  BY DEF EngineInv, Typed
<1>2. ~Held(t)
  BY DEF Held
<1>3. ~Watched(t) /\ en.lived[t].started /\ Rides(t, en.store)
  BY <1>2, ArmedFacts
<1> DEFINE planned == Programmed(date)
           left == date - en.time
           life == [en.lived[t] EXCEPT !.left = left]
           dates == [en.dates EXCEPT ![t] = planned]
           lived == [en.lived EXCEPT ![t] = life]
<1>4. m = [en EXCEPT !.dates = dates, !.lived = lived]
  BY <1>1 DEF IsEngine, EngineFields, PlannedBy
<1>5. planned \in PlannedAt /\ planned.active = TRUE /\ planned.at = date
  BY DEF Programmed, PlannedAt
<1>6. left \in Int /\ left >= 0
  BY <1>1
<1> HIDE DEF planned, left
<1>7. /\ life \in Lives /\ life.started = en.lived[t].started /\ life.age = en.lived[t].age
      /\ life.hazard = en.lived[t].hazard /\ life.left = left
  BY <1>1, <1>6 DEF Typed, Lives
<1> HIDE DEF life
<1>8. /\ dates \in [Trans -> PlannedAt \cup {None}] /\ dates[t] = planned
      /\ \A u \in Trans \ {t} : dates[u] = en.dates[u]
  BY <1>1, <1>5 DEF Typed
<1>9. /\ lived \in [Trans -> Lives] /\ lived[t] = life
      /\ \A u \in Trans \ {t} : lived[u] = en.lived[u]
  BY <1>1, <1>7 DEF Typed
<1> HIDE DEF dates, lived
<1>10. /\ IsEngine(m) /\ m.dates = dates /\ m.lived = lived
       /\ m.slots = en.slots /\ m.ages = en.ages /\ m.hazards = en.hazards /\ m.wave = en.wave
       /\ m.store = en.store /\ m.time = en.time
  BY <1>1, <1>4 DEF IsEngine, EngineFields
<1>11. Typed(m)
  BY <1>1, <1>8, <1>9, <1>10 DEF Typed
<1>12. ASSUME NEW u \in Trans  PROVE FitsAt(m, u, m.store)
  <2>1. FitsAt(en, u, en.store)
    BY DEF EngineInv, Fits
  <2>2. CASE u # t
    <3>1. m.dates[u] = en.dates[u] /\ m.lived[u] = en.lived[u]
      BY <2>2, <1>8, <1>9, <1>10
    <3> QED
      BY <2>1, <3>1, <1>10 DEF FitsAt
  <2>3. CASE u = t
    <3>1. m.dates[t] = planned /\ m.lived[t] = life
      BY <1>8, <1>9, <1>10
    <3>2. DateFits(planned, life, t, m.store, m.time)
      <4>1. planned # None /\ left # None
        BY <1>5, <1>6, NoneApart
      <4>2. Later(planned.at - m.time, 0) = left
        BY <1>1, <1>5, <1>6, <1>10 DEF Later, left
      <4>3. planned.active = (life.started /\ Rides(t, m.store))
        BY <1>3, <1>5, <1>7, <1>10 DEF Rides
      <4> QED
        BY <1>3, <1>5, <1>7, <4>1, <4>2, <4>3 DEF DateFits
    <3>3. HasAge(t) => ClockFits([age |-> en.ages[t], hazard |-> en.hazards[t]], life, t,
                                 en.store, en.time)
      <4>1. SUFFICES ASSUME HasAge(t)
                     PROVE  ClockFits([age |-> en.ages[t], hazard |-> en.hazards[t]], life, t,
                                      en.store, en.time)
        OBVIOUS
      <4>2. ClockFits([age |-> en.ages[t], hazard |-> en.hazards[t]], en.lived[t], t,
                      en.store, en.time)
        BY <2>1, <2>3, <4>1 DEF FitsAt
      <4> QED
        BY <4>2, <1>7 DEF ClockFits
    <3>4. SlotFits(en.slots[t], life, t, en.store)
      BY <2>1, <2>3, <1>7 DEF FitsAt, SlotFits
    <3>5. life.started
      BY <1>3, <1>7
    <3>6. ~HasAge(t) => en.ages[t] = None /\ en.hazards[t] = None
      BY <2>1, <2>3 DEF FitsAt
    <3> QED
      BY <2>3, <3>1, <3>2, <3>3, <3>4, <3>5, <3>6, <1>10 DEF FitsAt
  <2> QED
    BY <2>2, <2>3
<1>13. HeldNow(m)
  BY <1>10 DEF EngineInv, HeldNow
<1> QED
  BY <1>10, <1>11, <1>12, <1>13 DEF EngineInv, Fits

(* A date given to a transition that keeps no age.                         *)
LEMMA RedatedInv ==
  ASSUME NEW en, EngineInv(en), NEW t \in Trans, en.ages[t] = None, en.slots[t].date # None,
         NEW date \in Int, NEW m, m = [en EXCEPT !.slots[t].date = date]
  PROVE  EngineInv(m) /\ m.time = en.time
<1>1. Typed(en) /\ IsEngine(en) /\ en.time \in Int
  BY DEF EngineInv, Typed
<1> DEFINE slot == [en.slots[t] EXCEPT !.date = date]
           slots == [en.slots EXCEPT ![t] = slot]
<1>2. m = [en EXCEPT !.slots = slots]
  BY <1>1 DEF IsEngine, EngineFields
<1>3. slot \in Slots
  BY <1>1 DEF Typed, Slots
<1> HIDE DEF slot
<1>4. /\ slots \in [Trans -> Slots] /\ \A u \in Trans \ {t} : slots[u] = en.slots[u]
  BY <1>1, <1>3 DEF Typed
<1> HIDE DEF slots
<1>5. /\ IsEngine(m) /\ m.slots = slots
      /\ m.dates = en.dates /\ m.lived = en.lived /\ m.ages = en.ages
      /\ m.hazards = en.hazards /\ m.wave = en.wave
      /\ m.store = en.store /\ m.time = en.time
  BY <1>1, <1>2 DEF IsEngine, EngineFields
<1>6. Typed(m)
  BY <1>1, <1>4, <1>5 DEF Typed
<1>7. FitsAt(en, t, en.store)
  BY DEF EngineInv, Fits
<1>8. ~Watched(t) /\ T(t).law # "clock" /\ en.lived[t].started /\ InSource(t, en.store)
      /\ Rides(t, en.store)
  BY <1>7 DEF FitsAt, SlotFits
<1>9. ASSUME NEW u \in Trans  PROVE FitsAt(m, u, m.store)
  <2>1. FitsAt(en, u, en.store)
    BY DEF EngineInv, Fits
  <2>2. CASE u # t
    <3>1. m.slots[u] = en.slots[u]
      BY <2>2, <1>4, <1>5
    <3> QED
      BY <2>1, <3>1, <1>5 DEF FitsAt
  <2>3. CASE u = t
    <3>1. SlotFits(m.slots[t], m.lived[t], t, m.store)
      BY <1>5, <1>8 DEF SlotFits
    <3> QED
      BY <2>1, <2>3, <3>1, <1>5 DEF FitsAt
  <2> QED
    BY <2>2, <2>3
<1>10. ~Held(t)
  <2> SUFFICES ASSUME Held(t)  PROVE FALSE
    OBVIOUS
  <2>1. ClockFits([age |-> en.ages[t], hazard |-> en.hazards[t]], en.lived[t], t, en.store, en.time)
    BY <1>7 DEF FitsAt, HasAge
  <2> QED
    BY <1>8, <2>1 DEF ClockFits
<1>11. HeldNow(m)
  <2> SUFFICES ASSUME NEW u \in Trans, Held(u), m.slots[u].date # None
               PROVE  m.slots[u].date = m.time
    BY DEF HeldNow
  <2>1. u # t
    BY <1>10
  <2>2. m.slots[u] = en.slots[u]
    BY <2>1, <1>4, <1>5
  <2> QED
    BY <2>2, <1>5 DEF EngineInv, HeldNow
<1> QED
  BY <1>5, <1>6, <1>9, <1>11 DEF EngineInv, Fits

(* `set_deferred_date`.                                                    *)
LEMMA SetDateKeeps ==
  ASSUME OInv, NEW t \in Trans, NEW date \in Dates, SetDate(t, date)
  PROVE  StepKeeps
<1> DEFINE planned == [e EXCEPT !.dates[t] = Programmed(date), !.lived[t].left = date - e.time]
           redated == [e EXCEPT !.slots[t].date = date]
<1>0. date \in Int /\ e.time <= date
  BY DatesFacts DEF SetDate
<1>1. CASE Mode = "operator" /\ Armed(e, t) /\ Command("set_date", planned)
  <2>1. EngineInv(e)
    BY <1>1, CallFacts DEF Command, Call
  <2>0. planned = PlannedBy(e, t, date)
    BY DEF PlannedBy
  <2> HIDE DEF planned
  <2>2. EngineInv(planned) /\ planned.time = e.time
    BY <1>0, <1>1, <2>0, <2>1, PlannedInv
  <2>3. StandsAt(planned, e.time)
    BY <2>2 DEF StandsAt, EngineInv, Typed
  <2>4. Legal(planned)
    BY <2>1, <2>3, ReachableNow, StandsIsLegal
  <2> QED
    BY <1>1, <2>4, LegalStands, CommandKeeps
<1>2. CASE e.ages[t] = None /\ e.slots[t].date # None /\ Command("set_date", redated)
  <2>1. EngineInv(e)
    BY <1>2, CallFacts DEF Command, Call
  <2>2. EngineInv(redated) /\ redated.time = e.time
    BY <1>0, <1>2, <2>1, RedatedInv
  <2> HIDE DEF redated
  <2>3. StandsAt(redated, e.time)
    BY <2>2 DEF StandsAt, EngineInv, Typed
  <2>4. Legal(redated)
    BY <2>1, <2>3, ReachableNow, StandsIsLegal
  <2> QED
    BY <1>2, <2>4, LegalStands, CommandKeeps
<1> QED
  BY <1>1, <1>2 DEF SetDate

-----------------------------------------------------------------------------
(* A new input refreshes the clocks as a firing does.                      *)
LEMMA PropagatedInv ==
  ASSUME OInv, e.error = None, NEW l \in Inputs, NEW v \in Value, NEW x, x = Propagated(l, v)
  PROVE  EngineInv(x) /\ x.time = e.time /\ x.error = None
<1>1. EngineInv(e) /\ Typed(e) /\ IsEngine(e) /\ model \in Models /\ e.store \in Store
  BY CallFacts DEF Typed
<1> DEFINE store == [e.store EXCEPT ![l] = v]
           w == [e EXCEPT !.store = store]
           r == Refreshed(w)
<1>2. x = Latched(r)
  <2>1. w = [e EXCEPT !.store[l] = v]
    BY <1>1 DEF IsEngine, EngineFields
  <2> QED
    BY <2>1 DEF Propagated
<1>3. store \in Store
  BY <1>1, OperatorAssumption DEF Store
<1> HIDE DEF store
<1>4. /\ IsEngine(w) /\ w.store = store /\ w.time = e.time /\ w.error = e.error
      /\ w.wave = e.wave /\ w.slots = e.slots /\ w.ages = e.ages
      /\ w.hazards = e.hazards /\ w.dates = e.dates /\ w.lived = e.lived
  BY <1>1 DEF IsEngine, EngineFields
<1> HIDE DEF w
<1>5. Typed(w)
  BY <1>1, <1>3, <1>4 DEF Typed
<1>6. ASSUME NEW u \in Trans  PROVE FitsAt(w, u, e.store)
  BY <1>1, <1>4 DEF EngineInv, Fits, FitsAt
<1>7. HeldNow(w)
  BY <1>1, <1>4 DEF EngineInv, HeldNow
<1>8. EngineInv(r)
  BY <1>1, <1>5, <1>6, <1>7, RefreshedFits DEF Fits
<1>9. IsEngine(r) /\ r.time = w.time /\ r.error = w.error
  BY <1>4, RefreshedFields
<1> HIDE DEF r
<1> QED
  BY <1>2, <1>4, <1>8, <1>9, LatchedInv

(* `set_input`.                                                            *)
LEMMA SetInputKeeps ==
  ASSUME OInv, NEW l \in Inputs, NEW v \in Value, SetInput(l, v)
  PROVE  StepKeeps
<1> DEFINE x == Propagated(l, v)
<1>1. e.error = None /\ bound = None /\ calls' = calls + 1 /\ model' = model /\ saved' = saved
  BY DEF SetInput, Call
<1>2. EngineInv(e) /\ IsEngine(e) /\ e.time \in Int /\ model \in Models
  BY <1>1, CallFacts
<1>3. EngineInv(x) /\ x.time = e.time /\ x.error = None
  BY <1>1, PropagatedInv
<1>4. calls' \in Nat /\ (saved # None => EngineInv(saved) /\ saved.error = None)
  BY <1>1 DEF OInv
<1>5. CASE Automatic
  <2>1. /\ e' = x /\ bound' = IF e.time <= TMax THEN e.time ELSE None
        /\ did' = [call |-> "set_input", stop |-> "going", instants |-> {}]
    BY <1>5 DEF SetInput, Says
  <2> HIDE DEF x
  <2>2. did'.call = "set_input"
    BY <2>1
  <2>3. StandsAt(e', e'.time)
    BY <1>3, <2>1 DEF StandsAt, EngineInv, Typed
  <2>4. OInv'
    BY <1>1, <1>2, <1>3, <1>4, <1>5, <2>1, <2>3, KeepsInv
  <2> QED
    BY <1>2, <1>3, <1>5, <2>1, <2>2, <2>4
       DEF StepKeeps, NothingSkipped, OneInstant, Operates, Atomic, Automatic
<1>6. CASE ~Automatic
  <2> DEFINE refused == [e EXCEPT !.error = "AdvanceTimeInvalid"]
             done == IF e.time > TMax THEN [engine |-> refused, at |-> {}]
                     ELSE Advanced(x, e.time, Unlimited)
             y == done.engine
  <2>1. /\ Outcome(y) /\ bound' = bound
        /\ did' = [call |-> "set_input", stop |-> Ending(y), instants |-> done.at]
    BY <1>6 DEF SetInput, Reacted, Says
  <2>2. StandsAt(y, e.time)
    <3>1. CASE e.time > TMax
      <4>1. IsEngine(refused) /\ refused.time = e.time /\ refused.error = "AdvanceTimeInvalid"
        BY <1>2 DEF IsEngine, EngineFields
      <4>2. y = refused
        BY <3>1
      <4> HIDE DEF refused, done
      <4> QED
        BY <4>1, <4>2, FailureNames DEF StandsAt, ErrorNames
    <3>2. CASE ~(e.time > TMax)
      <4>1. done = Advanced(x, e.time, Unlimited)
        BY <3>2
      <4>2. Unlimited \in Nat
        BY DeferredAssumption DEF Unlimited
      <4>3. e.time <= TMax /\ x.time <= e.time
        BY <1>2, <1>3, <3>2, DatesFacts
      <4> HIDE DEF done, x
      <4>4. LoopInv(done, x, e.time)
        BY <1>2, <1>3, <4>1, <4>2, <4>3, AdvancedFacts
      <4>5. y.time = e.time
        BY <1>2, <1>3, <4>4 DEF LoopInv, Reachable
      <4> QED
        BY <4>4, <4>5 DEF LoopInv
    <3> QED
      BY <3>1, <3>2
  <2> HIDE DEF done
  <2>3. did'.call = "set_input" /\ did'.stop = Ending(y)
    BY <2>1
  <2>4. /\ e' = e \/ e' = y
        /\ y.error # None /\ Mode = "operator" => e' = e
    BY <1>1, <2>1, <2>2, OutcomeFacts DEF StandsAt
  <2>5. e'.time = e.time /\ (e' = e \/ StandsAt(e', e'.time))
    BY <2>2, <2>4 DEF StandsAt
  <2>6. OInv'
    BY <1>1, <1>4, <2>1, <2>5, KeepsInv
  <2>7. Atomic
    BY <2>3, <2>4 DEF Atomic, Ending
  <2> QED
    BY <1>2, <2>3, <2>5, <2>6, <2>7 DEF StepKeeps, NothingSkipped, OneInstant, Operates
<1> QED
  BY <1>5, <1>6

-----------------------------------------------------------------------------
(* `snapshot`.                                                             *)
LEMMA SnapshotKeeps ==
  ASSUME OInv, Snapshot
  PROVE  StepKeeps
<1>1. /\ e.error = None /\ calls' = calls + 1 /\ saved' = e
      /\ did' = [call |-> "snapshot", stop |-> "done", instants |-> {}]
      /\ model' = model /\ e' = e /\ bound' = bound /\ bound = None
  BY DEF Snapshot, Call, Says
<1>2. did'.call = "snapshot" /\ did'.stop = "done"
  BY <1>1
<1>3. EngineInv(e) /\ e.time \in Int
  BY <1>1, CallFacts
<1>4. calls' \in Nat
  BY <1>1 DEF OInv
<1>5. OInv'
  BY <1>1, <1>3, <1>4, KeepsInv
<1> QED
  BY <1>1, <1>2, <1>3, <1>5 DEF StepKeeps, NothingSkipped, OneInstant, Operates, Atomic

(* Going back, to a snapshot or to the start.                              *)
LEMMA RewoundKeeps ==
  ASSUME OInv, StandsAt(e', e'.time), calls' = calls + 1, bound = None \/ e.error # None,
         Says("rewind", "done", {}), UNCHANGED <<model, bound, saved>>
  PROVE  StepKeeps
<1>1. did'.call = "rewind" /\ did'.stop = "done"
  BY DEF Says
<1>2. bound' = None
  BY DEF OInv
<1>3. calls' \in Nat /\ (saved # None => EngineInv(saved) /\ saved.error = None)
  BY DEF OInv
<1>4. OInv'
  BY <1>2, <1>3, KeepsInv
<1> QED
  BY <1>1, <1>4 DEF StepKeeps, NothingSkipped, OneInstant, Operates, Atomic

(* `restore`.                                                              *)
LEMMA RestoreKeeps ==
  ASSUME OInv, Restore
  PROVE  StepKeeps
<1>1. /\ calls' = calls + 1 /\ (bound = None \/ e.error # None)
      /\ e' = Restored(e, saved) /\ saved # None
      /\ Says("rewind", "done", {}) /\ UNCHANGED <<model, bound, saved>>
  BY DEF Restore, Call, Failed
<1>2. EngineInv(saved) /\ saved.error = None /\ IsEngine(saved) /\ IsEngine(e)
  BY <1>1 DEF OInv, EngineInv, Typed
<1>3. e' = saved
  BY <1>1, <1>2, RestoredIs
<1>4. StandsAt(e', e'.time)
  BY <1>2, <1>3 DEF StandsAt
<1> QED
  BY <1>1, <1>4, RewoundKeeps

(* An engine that was just built.                                          *)
LEMMA BuiltInv ==
  ASSUME model \in Models
  PROVE  EngineInv(Built) /\ IsEngine(Built) /\ Built.error = None
<1> DEFINE init == ModelOf[model].init
           blank == [store |-> init, time |-> 0, wave |-> 0,
                     slots |-> [t \in Trans |-> [date |-> None, wave |-> 0, frozen |-> None]],
                     ages |-> [t \in Trans |-> None], hazards |-> [t \in Trans |-> None],
                     dates |-> [t \in Trans |-> None], streak |-> [at |-> 0, count |-> 0],
                     firings |-> [t \in Trans |-> 0], seqEnd |-> None, error |-> None,
                     drawn |-> FALSE, lived |-> [t \in Trans |-> Unborn]]
           r == Refreshed(blank)
<1>1. Built = Latched(r)
  BY DEF Built
<1>2. init \in Store
  BY ModelFacts
<1> HIDE DEF init
<1>3. IsEngine(blank)
  BY DEF IsEngine, EngineFields
<1>4. [date |-> None, wave |-> 0, frozen |-> None] \in Slots
  BY DEF Slots
<1>5. Typed(blank)
  BY <1>2, <1>3, <1>4, UnbornFacts DEF Typed
<1>6. ASSUME NEW t \in Trans  PROVE FitsAt(blank, t, init)
  BY FiredFits
<1>7. HeldNow(blank) /\ blank.error = None
  BY DEF HeldNow
<1> HIDE DEF blank
<1>8. EngineInv(r)
  BY <1>2, <1>5, <1>6, <1>7, RefreshedFits DEF Fits
<1>9. IsEngine(r) /\ r.error = None
  BY <1>3, <1>7, RefreshedFields
<1> HIDE DEF r
<1> QED
  BY <1>1, <1>8, <1>9, LatchedInv

(* `reset`.                                                                *)
LEMMA ResetKeeps ==
  ASSUME OInv, Reset
  PROVE  StepKeeps
<1>1. /\ calls' = calls + 1 /\ (bound = None \/ e.error # None)
      /\ e' = IF Automatic THEN [Built EXCEPT !.firings = e.firings] ELSE Built
      /\ Says("rewind", "done", {}) /\ UNCHANGED <<model, bound, saved>>
  BY DEF Reset, Call, Failed
<1> DEFINE b == Built
<1>2. EngineInv(b) /\ IsEngine(b)
  BY BuiltInv DEF OInv
<1> HIDE DEF b
<1>3. e' = b \/ e' = [b EXCEPT !.firings = e.firings]
  BY <1>1 DEF b
<1>4. /\ IsEngine(e') /\ e'.store = b.store /\ e'.time = b.time
      /\ e'.wave = b.wave /\ e'.slots = b.slots /\ e'.ages = b.ages
      /\ e'.hazards = b.hazards /\ e'.dates = b.dates /\ e'.lived = b.lived
  BY <1>2, <1>3 DEF IsEngine, EngineFields
<1>5. EngineInv(e')
  BY <1>2, <1>4, InvOf
<1>6. StandsAt(e', e'.time)
  BY <1>4, <1>5 DEF StandsAt
<1> QED
  BY <1>1, <1>6, RewoundKeeps

-----------------------------------------------------------------------------
(* The first engine stands, every step keeps it, and it says what is       *)
(* promised.                                                               *)
LEMMA InitInv == OInit => OInv
<1> SUFFICES ASSUME OInit  PROVE OInv
  OBVIOUS
<1>1. model \in Models /\ e = Built /\ bound = None /\ saved = None /\ calls = 0
  BY DEF OInit
<1>2. EngineInv(Built) /\ IsEngine(Built)
  BY <1>1, BuiltInv
<1> QED
  BY <1>1, <1>2 DEF OInv

LEMMA NextKeeps == OInv /\ ONext => StepKeeps
<1> SUFFICES ASSUME OInv, ONext  PROVE StepKeeps
  OBVIOUS
<1>1. CASE Snapshot
  BY <1>1, SnapshotKeeps
<1>2. CASE Restore
  BY <1>2, RestoreKeeps
<1>3. CASE Reset
  BY <1>3, ResetKeeps
<1>4. ASSUME NEW date \in Dates, StepUntil(date)  PROVE StepKeeps
  BY <1>4, StepUntilKeeps
<1>5. ASSUME NEW date \in Dates, AdvanceTo(date)  PROVE StepKeeps
  BY <1>5, AdvanceToKeeps
<1>6. ASSUME NEW date \in Dates, ProbeDeferred(date)  PROVE StepKeeps
  BY <1>6, ProbeKeeps
<1>7. ASSUME NEW date \in Dates, NEW n \in Budgets, AdvanceOperatorTo(date, n)
      PROVE  StepKeeps
  BY <1>7, AdvanceOperatorKeeps
<1>8. ASSUME NEW date \in Dates, NEW t \in Trans, SetDate(t, date)  PROVE StepKeeps
  BY <1>8, SetDateKeeps
<1>9. ASSUME NEW date \in Dates, NEW t \in Trans, NEW b \in BranchOrNone(t),
             FireDeferredAt(t, date, b)
      PROVE  StepKeeps
  BY <1>9, FireDeferredKeeps
<1>10. ASSUME NEW t \in Trans, NEW b \in BranchOrNone(t), FireIdx(t, b)  PROVE StepKeeps
  BY <1>10, FireIdxKeeps
<1>11. ASSUME NEW t \in Trans, NEW b \in BranchOrNone(t), FireNow(t, b)  PROVE StepKeeps
  BY <1>11, FireNowKeeps
<1>12. ASSUME NEW l \in Inputs, NEW v \in Value, SetInput(l, v)  PROVE StepKeeps
  BY <1>12, SetInputKeeps
<1>13. CASE AdvanceStep
  BY <1>13, AdvanceStepKeeps
<1>14. CASE AdvanceReturn
  BY <1>14, AdvanceReturnKeeps
<1> QED
  BY <1>1, <1>2, <1>3, <1>4, <1>5, <1>6, <1>7, <1>8, <1>9, <1>10, <1>11, <1>12, <1>13,
     <1>14 DEF ONext, Calling

LEMMA StutterKeeps == OInv /\ UNCHANGED ovars => OInv'
<1> SUFFICES ASSUME OInv, UNCHANGED ovars  PROVE OInv'
  OBVIOUS
<1>1. model' = model /\ e' = e /\ bound' = bound /\ saved' = saved /\ calls' = calls
  BY DEF ovars
<1>2. /\ calls \in Nat /\ (saved # None => EngineInv(saved) /\ saved.error = None)
      /\ (bound # None => e.error = None /\ Automatic /\ bound \in Int)
  BY DEF OInv
<1> QED
  BY <1>1, <1>2, KeepsInv

LEMMA InvImplies == OInv => DurationsAreExact /\ HeldAtItsInstant
<1> SUFFICES ASSUME OInv, e.error = None
             PROVE  AgesAreExact /\ ProgrammedDurationKept /\ HeldAtItsInstant
  BY DEF DurationsAreExact, AgesAreExact, ProgrammedDurationKept, HeldAtItsInstant, Between
<1>1. EngineInv(e)
  BY DEF OInv
<1>2. HeldAtItsInstant
  BY <1>1 DEF EngineInv, HeldNow, HeldAtItsInstant
<1>3. ASSUME NEW t \in Trans, HasAge(t)
      PROVE  /\ (e.ages[t] # None) = e.lived[t].started
             /\ e.ages[t] # None =>
                  /\ Age(e.ages[t], e.time) = e.lived[t].age
                  /\ e.ages[t].running = Runs(e, t)
             /\ e.hazards[t] # None =>
                  e.lived[t].hazard = e.hazards[t].accumulated
                    + IF Runs(e, t) THEN e.hazards[t].rate * (e.time - e.hazards[t].since) ELSE 0
  <2> DEFINE c == [age |-> e.ages[t], hazard |-> e.hazards[t]]
  <2>1. ClockFits(c, e.lived[t], t, e.store, e.time)
    BY <1>1, <1>3 DEF EngineInv, Fits, FitsAt
  <2>2. c.age = e.ages[t] /\ c.hazard = e.hazards[t]
    OBVIOUS
  <2> HIDE DEF c
  <2>3. (e.ages[t] # None) = e.lived[t].started
    BY <2>1, <2>2 DEF ClockFits
  <2>4. e.ages[t] # None =>
          /\ Age(e.ages[t], e.time) = e.lived[t].age
          /\ e.ages[t].running = Runs(e, t)
    BY <2>1, <2>2, <2>3 DEF ClockFits, Runs, Rides
  <2>5. e.hazards[t] # None => e.ages[t] # None
    BY <2>1, <2>2 DEF ClockFits
  <2>6. e.hazards[t] # None =>
          e.lived[t].hazard = e.hazards[t].accumulated
            + IF Runs(e, t) THEN e.hazards[t].rate * (e.time - e.hazards[t].since) ELSE 0
    BY <2>1, <2>2, <2>4, <2>5 DEF ClockFits
  <2> QED
    BY <2>3, <2>4, <2>6
<1>4. ASSUME NEW t \in Trans
      PROVE  /\ (e.dates[t] # None) = (e.lived[t].left # None)
             /\ e.dates[t] # None =>
                  /\ e.dates[t].active = Runs(e, t)
                  /\ e.lived[t].left = IF e.dates[t].active THEN Later(e.dates[t].at - e.time, 0)
                                       ELSE e.dates[t].at
  <2>1. DateFits(e.dates[t], e.lived[t], t, e.store, e.time)
    BY <1>1 DEF EngineInv, Fits, FitsAt
  <2> QED
    BY <2>1 DEF DateFits, Runs, Rides
<1>5. AgesAreExact
  BY <1>3 DEF AgesAreExact
<1>6. ProgrammedDurationKept
  BY <1>4 DEF ProgrammedDurationKept
<1> QED
  BY <1>2, <1>5, <1>6

(* Between two calls, and inside one, an engine that has not failed is     *)
(* sound: the books of every clock and every date of the operator agree    *)
(* with what its transition has lived (refresh_clock, banking, restart     *)
(* and rollback of engine/deferred.rs and engine/interactive.rs), and a    *)
(* held choice waits at the present instant. So is the engine of a         *)
(* snapshot. For every model, mode, horizon and sequence of calls.         *)
THEOREM OInvariant == OSpec => []OInv
<1>1. OInit => OInv
  BY InitInv
<1>2. OInv /\ [ONext]_ovars => OInv'
  BY NextKeeps, StutterKeeps DEF StepKeeps
<1> QED
  BY <1>1, <1>2, PTL DEF OSpec

(* However often a state change pauses or drops it, time is advanced, a    *)
(* call is rolled back or a snapshot restored, the age and the hazard      *)
(* that a clock reports are the time and the hazard it lived since it      *)
(* started, and a duration the operator programmed runs out after exactly  *)
(* that long of running.                                                   *)
THEOREM DurationsTheorem == OSpec => []DurationsAreExact
  BY OInvariant, InvImplies, PTL

(* A choice that the run holds for its caller is due at the instant the    *)
(* engine stands at, never before or after it.                             *)
THEOREM HeldTheorem == OSpec => []HeldAtItsInstant
  BY OInvariant, InvImplies, PTL

(* No call moves the clock past an event that was due, and the events      *)
(* that one advance of the operator fires, it fires at one instant, which  *)
(* it completes unless it stops at a choice or runs out of its budget.     *)
THEOREM InstantsTheorem == OSpec => InstantsAreCompleted
<1>1. OInv /\ [ONext]_ovars => [NothingSkipped /\ OneInstant]_ovars
  BY NextKeeps DEF StepKeeps
<1> QED
  BY <1>1, OInvariant, PTL DEF OSpec, InstantsAreCompleted

(* A call of the operator that is refused leaves the engine as it found    *)
(* it, though the events it had fired had already changed the state, the   *)
(* clocks and the dates.                                                   *)
THEOREM AtomicTheorem == OSpec => CommandsAreAtomic
<1>1. OInv /\ [ONext]_ovars => [Mode = "operator" /\ did'.stop = "refused" => e' = e]_ovars
  BY NextKeeps DEF StepKeeps, Atomic
<1> QED
  BY <1>1, OInvariant, PTL DEF OSpec, CommandsAreAtomic
=============================================================================
