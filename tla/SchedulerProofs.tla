-------------------------- MODULE SchedulerProofs --------------------------
(***************************************************************************)
(* Proofs about Scheduler, for every compiled model, horizon and cap: the  *)
(* type invariant, that no scheduled date is ever overtaken, that the      *)
(* schedule agrees with the state between two steps, and, step by step,    *)
(* that every run is a run of Race: a step of the scheduler is an event    *)
(* of the race after the time that went by, the return of its run a        *)
(* return, and an error a failure.                                         *)
(***************************************************************************)
EXTENDS Scheduler, TLAPS

-----------------------------------------------------------------------------
(* The inductive invariant.  What a slot may hold, whatever the state and  *)
(* the time:                                                               *)
Sound(t, slot) ==
  /\ Watched(t) => slot.date = None /\ slot.frozen = None /\ slot.hazard = None
  /\ slot.frozen # None => /\ slot.date = None
                           /\ T(t).policy = "resume"
                           /\ T(t).law = "dated"
  /\ slot.hazard # None => T(t).law = "rate"
  /\ slot.hazard # None /\ slot.date = None => T(t).policy = "resume"
  /\ slot.date # None => (slot.hazard # None <=> T(t).law = "rate")

(* with the time: nothing is overdue, what is left is not negative, and the *)
(* date of a hazard is the one it gave when it was last banked.  This is    *)
(* what makes banking at a later time leave the hazard below its threshold. *)
Timely(slot, now) ==
  /\ slot.date # None => slot.date >= now
  /\ slot.frozen # None => slot.frozen >= 0
  /\ slot.hazard # None => /\ slot.hazard.accumulated <= slot.hazard.threshold
                           /\ slot.hazard.since <= now
  /\ slot.date # None /\ slot.hazard # None =>
       slot.date = HazardDate(slot.hazard, slot.hazard.since)

(* and with the state.                                                      *)
Fits(t, s, slot) ==
  /\ slot.date # None => InSource(t, s) /\ (Enabled(t, s) \/ T(t).policy = "continue")
  /\ ~Watched(t) /\ InSource(t, s) /\ Enabled(t, s) => slot.date # None
  /\ ~InSource(t, s) => slot.frozen = None /\ slot.hazard = None
  /\ slot.frozen # None => ~Enabled(t, s)

Inv ==
  /\ TypeOK
  /\ status = "running" => /\ streak.count <= WatchedLimit
                           /\ \A t \in Trans : Timely(slots[t], time)
  /\ status \in {"running", "ended"} =>
       \A t \in Trans : Sound(t, slots[t]) /\ Fits(t, store, slots[t])

-----------------------------------------------------------------------------
(* Arithmetic of hazards.                                                  *)

LEMMA DivBound ==
  ASSUME NEW a \in Nat, NEW r \in Nat \ {0}, NEW k \in Nat, k <= a \div r
  PROVE  r * k <= a
BY SMT

LEMMA DivNat ==
  ASSUME NEW a \in Nat, NEW r \in Nat \ {0}
  PROVE  a \div r \in Nat
BY SMT

(* The lemmas on hazards and refreshes hold up to the infinite date.        *)
LEMMA BeforeNever ==
  ASSUME NEW now \in 0..TMax
  PROVE  now \in 0..Never
BY SchedulerAssumption

LEMMA MulNat ==
  ASSUME NEW a \in Nat, NEW b \in Nat
  PROVE  a * b \in Nat
BY SMT

(* A hazard below its threshold reaches it now or later.                    *)
LEMMA HazardDateLater ==
  ASSUME NEW h \in Hazard, h.accumulated <= h.threshold, NEW now \in 0..Never
  PROVE  /\ HazardDate(h, now) \in Int
         /\ HazardDate(h, now) >= now
<1>1. h.threshold - h.accumulated \in Nat /\ h.rate \in Nat
  BY DEF Hazard
<1>2. h.rate > 0 => (h.threshold - h.accumulated) \div h.rate \in Nat
  BY <1>1, DivNat
<1> QED BY <1>1, <1>2, SchedulerAssumption DEF HazardDate

(* Banked before its date, it stays below its threshold.                    *)
LEMMA BankBelow ==
  ASSUME NEW h \in Hazard, h.accumulated <= h.threshold,
         NEW now \in 0..Never, h.since <= now, now <= HazardDate(h, h.since)
  PROVE  /\ Bank(h, now) \in Hazard
         /\ Bank(h, now).accumulated <= Bank(h, now).threshold
         /\ Bank(h, now).since = now
<1> DEFINE k == now - h.since
           a == h.threshold - h.accumulated
           total == h.accumulated + h.rate * k
<1>1. /\ k \in Nat /\ a \in Nat /\ h.rate \in Nat /\ h.accumulated \in Int
      /\ h.since \in Nat /\ h.threshold \in Nat
  BY SchedulerAssumption DEF Hazard
<1>2. h.rate * k \in Nat
  BY <1>1, MulNat
<1>3. h.rate * k <= a
  <2>1. CASE h.rate = 0
    <3>1. h.rate * k = 0
      BY <2>1, <1>1
    <3> QED BY <3>1, <1>1
  <2>2. CASE h.rate # 0
    <3>1. k <= a \div h.rate
      <4>1. a \div h.rate \in Nat
        BY <2>2, <1>1, DivNat
      <4>2. now <= h.since + (a \div h.rate)
        BY <2>2, <1>1 DEF HazardDate
      <4> QED BY <4>1, <4>2, <1>1, SchedulerAssumption
    <3> QED BY <3>1, <2>2, <1>1, DivBound
  <2> QED BY <2>1, <2>2
<1>4. now \in Nat
  BY SchedulerAssumption
<1>5. total \in Int /\ total <= h.threshold
  <2> HIDE DEF k
  <2> QED BY <1>1, <1>2, <1>3 DEF a
<1>6. Bank(h, now) = [h EXCEPT !.accumulated = total, !.since = now]
  BY Zenon DEF Bank
<1> HIDE DEF k, total
<1>7. /\ Bank(h, now) \in Hazard
      /\ Bank(h, now).accumulated = total /\ Bank(h, now).since = now
      /\ Bank(h, now).threshold = h.threshold
  BY <1>4, <1>5, <1>6 DEF Hazard
<1> QED BY <1>5, <1>7

-----------------------------------------------------------------------------
(* The refresh of one transition.                                          *)

LEMMA TransFacts ==
  ASSUME model \in Models, NEW t \in Trans
  PROVE  T(t) \in TransDef
<1>1. ModelOf[model] \in Model
  BY SchedulerAssumption
<1> QED BY <1>1 DEF Model, T

(* What arming leaves of a slot.                                            *)
LEMMA ArmFields ==
  ASSUME NEW slot \in Slot, NEW w \in Nat, NEW date \in Int
  PROVE  /\ Arm(slot, date, w) \in Slot
         /\ Arm(slot, date, w).date = date
         /\ Arm(slot, date, w).frozen = slot.frozen
         /\ Arm(slot, date, w).hazard = slot.hazard
BY DEF Arm, Slot

LEMMA WithHazard ==
  ASSUME NEW slot \in Slot, NEW h \in Hazard \cup {None}
  PROVE  /\ [slot EXCEPT !.hazard = h] \in Slot
         /\ [slot EXCEPT !.hazard = h].date = slot.date
         /\ [slot EXCEPT !.hazard = h].frozen = slot.frozen
         /\ [slot EXCEPT !.hazard = h].hazard = h
BY DEF Slot

LEMMA Thawed ==
  ASSUME NEW slot \in Slot
  PROVE  /\ [slot EXCEPT !.frozen = None] \in Slot
         /\ [slot EXCEPT !.frozen = None].frozen = None
         /\ [slot EXCEPT !.frozen = None].hazard = slot.hazard
BY DEF Slot

LEMMA ArmedRate ==
  ASSUME model \in Models, NEW t \in Trans, NEW s \in Store, NEW now \in 0..Never,
         NEW w \in Nat, NEW d \in Nat, NEW slot \in Slot,
         T(t).law = "rate", InSource(t, s), Enabled(t, s), slot.date = None,
         Sound(t, slot), Timely(slot, now)
  PROVE  /\ Armed(t, slot, s, now, w, d) \in Slot
         /\ Sound(t, Armed(t, slot, s, now, w, d))
         /\ Timely(Armed(t, slot, s, now, w, d), now)
         /\ Fits(t, s, Armed(t, slot, s, now, w, d))
<1> DEFINE fresh == [threshold |-> d, accumulated |-> 0, rate |-> T(t).rate[s], since |-> now]
           h == IF slot.hazard = None THEN fresh
                ELSE [slot.hazard EXCEPT !.rate = T(t).rate[s], !.since = now]
           r == Armed(t, slot, s, now, w, d)
<1>1. T(t).rate[s] \in Nat
  BY TransFacts DEF TransDef
<1>2. now \in Nat
  BY SchedulerAssumption
<1>3. h \in Hazard /\ h.accumulated <= h.threshold /\ h.since = now /\ h # None
  <2>1. CASE slot.hazard = None
    BY <2>1, <1>1, <1>2, SchedulerAssumption DEF Hazard
  <2>2. CASE slot.hazard # None
    <3>1. slot.hazard \in Hazard /\ slot.hazard.accumulated <= slot.hazard.threshold
      BY <2>2 DEF Slot, Timely
    <3> QED BY <3>1, <2>2, <1>1, <1>2, SchedulerAssumption DEF Hazard
  <2> QED BY <2>1, <2>2
<1>4. r = Arm([slot EXCEPT !.hazard = h], HazardDate(h, now), w)
  BY DEF Armed
<1>5. slot.frozen = None
  BY DEF Sound
<1> HIDE DEF h, r
<1>6. HazardDate(h, now) \in Int /\ HazardDate(h, now) >= now
  BY <1>3, HazardDateLater
<1>7. r \in Slot /\ r.date = HazardDate(h, now) /\ r.frozen = None /\ r.hazard = h
  <2>1. /\ [slot EXCEPT !.hazard = h] \in Slot
        /\ [slot EXCEPT !.hazard = h].frozen = None
        /\ [slot EXCEPT !.hazard = h].hazard = h
    BY <1>3, <1>5, WithHazard
  <2> QED BY <1>4, <1>6, <2>1, ArmFields
<1>8. r.date # None
  BY <1>6, <1>7, SchedulerAssumption
<1>9. Sound(t, r)
  BY <1>3, <1>7, <1>8 DEF Sound, Watched
<1>10. Timely(r, now)
  BY <1>2, <1>3, <1>6, <1>7 DEF Timely
<1>11. Fits(t, s, r)
  BY <1>7, <1>8 DEF Fits
<1> QED BY <1>7, <1>9, <1>10, <1>11 DEF r

LEMMA ArmedDated ==
  ASSUME model \in Models, NEW t \in Trans, NEW s \in Store, NEW now \in 0..Never,
         NEW w \in Nat, NEW d \in Nat, NEW slot \in Slot,
         T(t).law = "dated", InSource(t, s), Enabled(t, s), slot.date = None,
         Sound(t, slot), Timely(slot, now)
  PROVE  /\ Armed(t, slot, s, now, w, d) \in Slot
         /\ Sound(t, Armed(t, slot, s, now, w, d))
         /\ Timely(Armed(t, slot, s, now, w, d), now)
         /\ Fits(t, s, Armed(t, slot, s, now, w, d))
<1> DEFINE r == Armed(t, slot, s, now, w, d)
<1>1. now \in Nat
  BY SchedulerAssumption
<1>2. slot.hazard = None
  BY DEF Sound
<1>3. r \in Slot /\ r.date \in Int /\ r.date >= now /\ r.frozen = None /\ r.hazard = None
  <2>1. CASE slot.frozen # None
    <3>1. slot.frozen \in Int /\ slot.frozen >= 0
      BY <2>1 DEF Slot, Timely
    <3>2. r = Arm([slot EXCEPT !.frozen = None], now + slot.frozen, w)
      BY <2>1 DEF Armed
    <3> DEFINE date == now + slot.frozen
               thawed == [slot EXCEPT !.frozen = None]
    <3>3. date \in Int /\ date >= now
      BY <3>1, <1>1
    <3>4. thawed \in Slot /\ thawed.frozen = None /\ thawed.hazard = None
      BY <1>2, Thawed
    <3> HIDE DEF r, date, thawed
    <3> QED BY <3>2, <3>3, <3>4, ArmFields DEF date, thawed
  <2>2. CASE slot.frozen = None
    <3>1. r = Arm(slot, now + d, w)
      BY <2>2 DEF Armed
    <3>2. now + d \in Int /\ now + d >= now
      BY <1>1
    <3> HIDE DEF r
    <3> QED BY <3>1, <3>2, <2>2, <1>2, ArmFields
  <2> QED BY <2>1, <2>2
<1> HIDE DEF r
<1>4. r.date # None
  BY <1>3, SchedulerAssumption
<1>5. Sound(t, r)
  BY <1>3, <1>4 DEF Sound, Watched
<1>6. Timely(r, now)
  BY <1>3 DEF Timely
<1>7. Fits(t, s, r)
  BY <1>3, <1>4 DEF Fits
<1> QED BY <1>3, <1>5, <1>6, <1>7 DEF r

(* A dated hazard is banked below its threshold.                            *)
LEMMA DatedHazard ==
  ASSUME NEW t \in Trans, NEW now \in 0..Never, NEW slot \in Slot,
         slot.date # None, slot.hazard # None, Timely(slot, now)
  PROVE  /\ slot.hazard \in Hazard /\ slot.date \in Int
         /\ Bank(slot.hazard, now) \in Hazard
         /\ Bank(slot.hazard, now).accumulated <= Bank(slot.hazard, now).threshold
         /\ Bank(slot.hazard, now).since = now
<1>1. slot.hazard \in Hazard /\ slot.date \in Int
  BY DEF Slot
<1>2. /\ slot.hazard.accumulated <= slot.hazard.threshold
      /\ slot.hazard.since <= now
      /\ now <= HazardDate(slot.hazard, slot.hazard.since)
  BY <1>1, SchedulerAssumption DEF Timely
<1> QED BY <1>1, <1>2, BankBelow

LEMMA InterruptedSlot ==
  ASSUME model \in Models, NEW t \in Trans, NEW s \in Store, NEW now \in 0..Never, NEW slot \in Slot,
         ~Watched(t), InSource(t, s), ~Enabled(t, s), slot.date # None,
         T(t).policy # "continue", Sound(t, slot), Timely(slot, now)
  PROVE  /\ Interrupted(t, slot, now) \in Slot
         /\ Sound(t, Interrupted(t, slot, now))
         /\ Timely(Interrupted(t, slot, now), now)
         /\ Fits(t, s, Interrupted(t, slot, now))
<1> DEFINE r == Interrupted(t, slot, now)
<1>1. now \in Nat
  BY SchedulerAssumption
<1>2. slot.frozen = None
  BY DEF Sound
<1>3. CASE T(t).policy # "resume"
  <2>1. r = [slot EXCEPT !.date = None, !.hazard = None]
    BY <1>3 DEF Interrupted
  <2> HIDE DEF r
  <2>2. r \in Slot /\ r.date = None /\ r.frozen = None /\ r.hazard = None
    BY <2>1, <1>2 DEF Slot
  <2> QED BY <2>2 DEF r, Sound, Timely, Fits
<1>4. CASE T(t).policy = "resume" /\ slot.hazard # None
  <2>1. r = [slot EXCEPT !.date = None, !.hazard = Bank(slot.hazard, now)]
    BY <1>4 DEF Interrupted
  <2>2. /\ Bank(slot.hazard, now) \in Hazard /\ Bank(slot.hazard, now) # None
        /\ Bank(slot.hazard, now).accumulated <= Bank(slot.hazard, now).threshold
        /\ Bank(slot.hazard, now).since = now
    <3>1. Hazard \cap {None} = {}
      BY SchedulerAssumption DEF Hazard
    <3> QED BY <3>1, <1>4, DatedHazard
  <2> HIDE DEF r
  <2>3. r \in Slot /\ r.date = None /\ r.frozen = None /\ r.hazard = Bank(slot.hazard, now)
    BY <2>1, <2>2, <1>2 DEF Slot
  <2>4. T(t).law = "rate"
    BY <1>4 DEF Sound
  <2>5. Sound(t, r)
    BY <2>3, <2>4, <1>4 DEF Sound, Watched
  <2>6. Timely(r, now)
    BY <2>2, <2>3, <1>1 DEF Timely
  <2>7. Fits(t, s, r)
    BY <2>3 DEF Fits
  <2> QED BY <2>3, <2>5, <2>6, <2>7 DEF r
<1>5. CASE T(t).policy = "resume" /\ slot.hazard = None
  <2>1. r = [slot EXCEPT !.date = None, !.frozen = slot.date - now]
    BY <1>5 DEF Interrupted
  <2>2. slot.date - now \in Int /\ slot.date - now >= 0
    BY <1>1 DEF Slot, Timely
  <2> HIDE DEF r
  <2>3. r \in Slot /\ r.date = None /\ r.frozen = slot.date - now /\ r.hazard = None
    BY <2>1, <2>2, <1>5 DEF Slot
  <2>4. T(t).law = "dated"
    BY <1>5, TransFacts DEF Sound, Watched, TransDef
  <2>5. Sound(t, r)
    BY <2>3, <2>4, <1>5 DEF Sound, Watched
  <2>6. Timely(r, now)
    BY <2>2, <2>3 DEF Timely
  <2>7. Fits(t, s, r)
    BY <2>3 DEF Fits
  <2> QED BY <2>3, <2>5, <2>6, <2>7 DEF r
<1> QED BY <1>3, <1>4, <1>5

LEMMA RescheduledSlot ==
  ASSUME model \in Models, NEW t \in Trans, NEW s \in Store, NEW now \in 0..Never,
         NEW w \in Nat, NEW slot \in Slot,
         ~Watched(t), InSource(t, s), slot.date # None,
         Enabled(t, s) \/ T(t).policy = "continue",
         Sound(t, slot), Timely(slot, now)
  PROVE  /\ Rescheduled(t, slot, s, now, w) \in Slot
         /\ Sound(t, Rescheduled(t, slot, s, now, w))
         /\ Timely(Rescheduled(t, slot, s, now, w), now)
         /\ Fits(t, s, Rescheduled(t, slot, s, now, w))
<1> DEFINE r == Rescheduled(t, slot, s, now, w)
<1>1. slot.frozen = None
  BY DEF Sound
<1>2. CASE slot.hazard = None \/ T(t).rate[s] = slot.hazard.rate
  <2>1. r = slot
    BY <1>2 DEF Rescheduled
  <2> HIDE DEF r
  <2> QED BY <2>1, <1>1 DEF r, Fits
<1>3. CASE slot.hazard # None /\ T(t).rate[s] # slot.hazard.rate
  <2> DEFINE b == Bank(slot.hazard, now)
             h == [b EXCEPT !.rate = T(t).rate[s]]
  <2>1. now \in Nat /\ T(t).rate[s] \in Nat
    BY TransFacts, SchedulerAssumption DEF TransDef
  <2>2. b \in Hazard /\ b.accumulated <= b.threshold /\ b.since = now
    BY <1>3, DatedHazard
  <2>3. h \in Hazard /\ h.accumulated <= h.threshold /\ h.since = now
    <3> HIDE DEF b
    <3> QED BY <2>1, <2>2 DEF Hazard
  <2>4. h # None
    BY <2>3, SchedulerAssumption DEF Hazard
  <2>5. r = Arm([slot EXCEPT !.hazard = h], HazardDate(h, now), w)
    BY <1>3 DEF Rescheduled
  <2> HIDE DEF h, r
  <2>6. HazardDate(h, now) \in Int /\ HazardDate(h, now) >= now
    BY <2>3, HazardDateLater
  <2>7. r \in Slot /\ r.date = HazardDate(h, now) /\ r.frozen = None /\ r.hazard = h
    <3>1. /\ [slot EXCEPT !.hazard = h] \in Slot
          /\ [slot EXCEPT !.hazard = h].frozen = None
          /\ [slot EXCEPT !.hazard = h].hazard = h
      BY <2>3, <1>1, WithHazard
    <3> QED BY <2>5, <2>6, <3>1, ArmFields
  <2>8. r.date # None
    BY <2>6, <2>7, SchedulerAssumption
  <2>9. Sound(t, r)
    <3>1. T(t).law = "rate"
      BY <1>3 DEF Sound
    <3> QED BY <2>4, <2>7, <2>8, <3>1 DEF Sound, Watched
  <2>10. Timely(r, now)
    BY <2>1, <2>3, <2>6, <2>7 DEF Timely
  <2>11. Fits(t, s, r)
    BY <2>7, <2>8 DEF Fits
  <2> QED BY <2>7, <2>9, <2>10, <2>11 DEF r
<1> QED BY <1>2, <1>3

LEMMA SourceLeftSlot ==
  ASSUME NEW slot \in Slot
  PROVE  /\ SourceLeft(slot) \in Slot
         /\ SourceLeft(slot).date = None
         /\ SourceLeft(slot).frozen = None
         /\ SourceLeft(slot).hazard = None
BY DEF SourceLeft, Slot

(* Whatever the old slot held, if nothing of it was overdue, the refreshed  *)
(* slot is sound, on time, and fits the state it was refreshed on.          *)
LEMMA RefreshedSlot ==
  ASSUME model \in Models, NEW t \in Trans, NEW s \in Store, NEW now \in 0..Never,
         NEW w \in Nat, NEW d \in Nat, NEW slot \in Slot,
         Sound(t, slot), Timely(slot, now)
  PROVE  /\ Refreshed(t, slot, s, now, w, d) \in Slot
         /\ Sound(t, Refreshed(t, slot, s, now, w, d))
         /\ Timely(Refreshed(t, slot, s, now, w, d), now)
         /\ Fits(t, s, Refreshed(t, slot, s, now, w, d))
<1> DEFINE r == Refreshed(t, slot, s, now, w, d)
<1>1. CASE Watched(t)
  <2>1. r = slot
    BY <1>1 DEF Refreshed
  <2> HIDE DEF r
  <2> QED BY <2>1, <1>1 DEF r, Sound, Fits
<1>2. CASE ~Watched(t) /\ ~InSource(t, s)
  <2>1. r = SourceLeft(slot)
    BY <1>2 DEF Refreshed
  <2> HIDE DEF r
  <2>2. r \in Slot /\ r.date = None /\ r.frozen = None /\ r.hazard = None
    BY <2>1, SourceLeftSlot
  <2> QED BY <1>2, <2>2 DEF r, Sound, Timely, Fits
<1>3. CASE /\ ~Watched(t) /\ InSource(t, s) /\ slot.date # None
           /\ ~(Enabled(t, s) \/ T(t).policy = "continue")
  <2>1. r = Interrupted(t, slot, now)
    BY <1>3 DEF Refreshed
  <2> HIDE DEF r
  <2> QED BY <1>3, <2>1, InterruptedSlot DEF r
<1>4. CASE /\ ~Watched(t) /\ InSource(t, s) /\ slot.date # None
           /\ Enabled(t, s) \/ T(t).policy = "continue"
  <2>1. r = Rescheduled(t, slot, s, now, w)
    BY <1>4 DEF Refreshed
  <2> HIDE DEF r
  <2> QED BY <1>4, <2>1, RescheduledSlot DEF r
<1>5. CASE ~Watched(t) /\ InSource(t, s) /\ slot.date = None /\ Enabled(t, s)
  <2>1. r = Armed(t, slot, s, now, w, d)
    BY <1>5 DEF Refreshed
  <2>2. T(t).law \in {"dated", "rate"}
    BY <1>5, TransFacts DEF Watched, TransDef
  <2> HIDE DEF r
  <2> QED BY <1>5, <2>1, <2>2, ArmedDated, ArmedRate DEF r
<1>6. CASE ~Watched(t) /\ InSource(t, s) /\ slot.date = None /\ ~Enabled(t, s)
  <2>1. r = slot
    BY <1>6 DEF Refreshed
  <2> HIDE DEF r
  <2> QED BY <1>6, <2>1 DEF r, Fits
<1> QED BY <1>1, <1>2, <1>3, <1>4, <1>5, <1>6

-----------------------------------------------------------------------------
(* One firing.                                                             *)

LEMMA DrawsAreNat ==
  ASSUME model \in Models, NEW d \in Draws, NEW u \in Trans
  PROVE  d[u] \in Nat
<1>1. d[u] \in T(u).draws
  BY DEF Draws, DrawsOf, T
<1>2. T(u).draws \subseteq Nat
  BY TransFacts DEF TransDef
<1> QED BY <1>1, <1>2

LEMMA LatchedType ==
  ASSUME model \in Models, NEW s \in Store, NEW now \in 0..TMax,
         seqEnd \in [cause : Nat, at : 0..TMax] \cup {None}, NEW e \in Latched(s, now, seqEnd)
  PROVE  e \in [cause : Nat, at : 0..TMax] \cup {None}
<1>1. ModelOf[model].goals \in Seq(Loc \X Value)
  BY SchedulerAssumption DEF Model
<1>2. Active(s) \subseteq Nat
  BY <1>1 DEF Active
<1> QED BY <1>2 DEF Latched

LEMMA FiredStore ==
  ASSUME model \in Models, NEW t \in Trans, NEW s \in Store, NEW to \in T(t).targets
  PROVE  Moved(t, to, s) \in Store /\ Written(t, Moved(t, to, s)) \in Store
<1>1. /\ T(t).aut \in Loc /\ to \in Value
      /\ T(t).writes \in UNION {[L -> Value] : L \in SUBSET Loc}
  BY TransFacts DEF TransDef
<1>2. PICK L \in SUBSET Loc : T(t).writes \in [L -> Value]
  BY <1>1
<1>3. Moved(t, to, s) \in Store
  BY <1>1 DEF Moved, Store
<1> QED BY <1>2, <1>3 DEF Written, Store

(* A schedule none of whose slots is overdue is refreshed into one that is  *)
(* sound, on time, and fits the new state.                                  *)
LEMMA RefreshedSchedule ==
  ASSUME model \in Models, NEW old \in [Trans -> Slot], NEW s \in Store,
         NEW now \in 0..Never, NEW w \in Nat, NEW d \in Draws,
         \A u \in Trans : Sound(u, old[u]) /\ Timely(old[u], now)
  PROVE  LET new == RefreshSchedule(old, s, now, w, d)
         IN  /\ new \in [Trans -> Slot]
             /\ \A u \in Trans : /\ Sound(u, new[u])
                                 /\ Timely(new[u], now)
                                 /\ Fits(u, s, new[u])
<1> DEFINE new == RefreshSchedule(old, s, now, w, d)
<1>1. \A u \in Trans : /\ new[u] = Refreshed(u, old[u], s, now, w, d[u])
                       /\ new[u] \in Slot
                       /\ Sound(u, new[u]) /\ Timely(new[u], now) /\ Fits(u, s, new[u])
  <2> SUFFICES ASSUME NEW u \in Trans
               PROVE  /\ new[u] = Refreshed(u, old[u], s, now, w, d[u])
                      /\ new[u] \in Slot
                      /\ Sound(u, new[u]) /\ Timely(new[u], now) /\ Fits(u, s, new[u])
    OBVIOUS
  <2>1. new[u] = Refreshed(u, old[u], s, now, w, d[u])
    BY DEF RefreshSchedule
  <2>2. d[u] \in Nat /\ old[u] \in Slot
    BY DrawsAreNat
  <2> HIDE DEF new
  <2> QED BY <2>1, <2>2, RefreshedSlot
<1>2. new \in [Trans -> Slot]
  <2>1. new = [u \in Trans |-> Refreshed(u, old[u], s, now, w, d[u])]
    BY DEF RefreshSchedule
  <2> QED BY <1>1, <2>1
<1> QED BY <1>1, <1>2

(* Clearing the slot of the transition that fires leaves nothing overdue    *)
(* at an instant no other date is before.                                   *)
LEMMA ClearedSchedule ==
  ASSUME NEW t \in Trans, slots \in [Trans -> Slot], time \in 0..Never,
         NEW now \in 0..Never, time <= now,
         \A u \in Trans : Sound(u, slots[u]) /\ Timely(slots[u], time),
         \A u \in Trans \ {t} : slots[u].date # None => now <= slots[u].date
  PROVE  LET cleared == [slots EXCEPT ![t] = SourceLeft(@)]
         IN  /\ cleared \in [Trans -> Slot]
             /\ \A u \in Trans : Sound(u, cleared[u]) /\ Timely(cleared[u], now)
<1> DEFINE cleared == [slots EXCEPT ![t] = SourceLeft(@)]
<1>1. cleared \in [Trans -> Slot]
  BY SourceLeftSlot
<1>2. ASSUME NEW u \in Trans
      PROVE  Sound(u, cleared[u]) /\ Timely(cleared[u], now)
  <2>1. CASE u = t
    <3>1. cleared[u].date = None /\ cleared[u].frozen = None /\ cleared[u].hazard = None
      BY <2>1, SourceLeftSlot
    <3> HIDE DEF cleared
    <3> QED BY <3>1 DEF Sound, Timely
  <2>2. CASE u # t
    <3>1. cleared[u] = slots[u] /\ slots[u] \in Slot
      BY <2>2
    <3>2. slots[u].hazard # None => slots[u].hazard \in Hazard
      BY <3>1 DEF Slot
    <3>3. slots[u].date # None => slots[u].date \in Int
      BY <3>1 DEF Slot
    <3> HIDE DEF cleared
    <3>4. Timely(slots[u], now)
      BY <2>2, <3>2, <3>3, SchedulerAssumption DEF Timely, Hazard
    <3> QED BY <3>1, <3>4
  <2> QED BY <2>1, <2>2
<1> QED BY <1>1, <1>2

LEMMA CountedType ==
  ASSUME firings \in [Trans -> [count : Nat, first : Nat]], NEW t \in Trans, NEW now \in Nat
  PROVE  Counted(t, now) \in [Trans -> [count : Nat, first : Nat]]
BY DEF Counted

LEMMA FirePreserves ==
  ASSUME Inv, status = "running", NEW t \in Trans, NEW now \in 0..TMax, time <= now,
         \A u \in Trans \ {t} : slots[u].date # None => now <= slots[u].date,
         Fire(t, now)
  PROVE  /\ store' \in Store /\ slots' \in [Trans -> Slot] /\ wave' \in Nat
         /\ firings' \in [Trans -> [count : Nat, first : Nat]]
         /\ seqEnd' \in [cause : Nat, at : 0..TMax] \cup {None}
         /\ status' \in {"running", "TransitionChattering"}
         /\ status' = "running" =>
              \A u \in Trans : /\ Sound(u, slots'[u]) /\ Timely(slots'[u], now)
                               /\ Fits(u, store', slots'[u])
<1> DEFINE cleared == [slots EXCEPT ![t] = SourceLeft(@)]
<1>1. /\ model \in Models /\ store \in Store /\ slots \in [Trans -> Slot] /\ wave \in Nat
      /\ time \in 0..TMax /\ firings \in [Trans -> [count : Nat, first : Nat]]
      /\ seqEnd \in [cause : Nat, at : 0..TMax] \cup {None}
      /\ \A u \in Trans : Sound(u, slots[u]) /\ Timely(slots[u], time)
  BY DEF Inv, TypeOK
<1>2. wave' \in Nat /\ firings' \in [Trans -> [count : Nat, first : Nat]]
  <2>1. wave' = wave + 1 /\ firings' = IF MaxFirings > 0 THEN Counted(t, now) ELSE firings
    BY DEF Fire
  <2>2. now \in Nat
    BY SchedulerAssumption
  <2>3. Counted(t, now) \in [Trans -> [count : Nat, first : Nat]]
    BY <1>1, <2>2, CountedType
  <2> QED BY <1>1, <2>1, <2>3
<1>3. /\ cleared \in [Trans -> Slot]
      /\ \A u \in Trans : Sound(u, cleared[u]) /\ Timely(cleared[u], now)
  BY <1>1, BeforeNever, ClearedSchedule
<1>4. PICK to \in T(t).targets :
        LET after == Written(t, Moved(t, to, store))
        IN  IF Chatters(t)
            THEN /\ store' = Moved(t, to, store)
                 /\ slots' = cleared
                 /\ status' = "TransitionChattering"
                 /\ UNCHANGED seqEnd
            ELSE /\ store' = after
                 /\ \E d \in Draws :
                      slots' = RefreshSchedule(cleared, after, now, wave + 1, d)
                 /\ seqEnd' \in Latched(after, now, seqEnd)
                 /\ UNCHANGED status
  BY DEF Fire
<1> DEFINE after == Written(t, Moved(t, to, store))
<1>5. Moved(t, to, store) \in Store /\ after \in Store
  BY <1>1, FiredStore
<1> HIDE DEF cleared, after
<1>6. CASE Chatters(t)
  BY <1>1, <1>2, <1>3, <1>4, <1>5, <1>6 DEF cleared
<1>7. CASE ~Chatters(t)
  <2>1. /\ store' = after /\ status' = "running"
        /\ seqEnd' \in Latched(after, now, seqEnd)
    BY <1>4, <1>7 DEF after
  <2>2. PICK d \in Draws : slots' = RefreshSchedule(cleared, after, now, wave + 1, d)
    BY <1>4, <1>7 DEF after, cleared
  <2>3. wave + 1 \in Nat
    BY <1>1
  <2>4. /\ slots' \in [Trans -> Slot]
        /\ \A u \in Trans : /\ Sound(u, slots'[u]) /\ Timely(slots'[u], now)
                            /\ Fits(u, after, slots'[u])
    BY <1>1, <1>3, <1>5, <2>2, <2>3, BeforeNever, RefreshedSchedule
  <2>5. seqEnd' \in [cause : Nat, at : 0..TMax] \cup {None}
    BY <1>1, <1>5, <2>1, LatchedType
  <2> QED BY <1>2, <1>5, <2>1, <2>4, <2>5
<1> QED BY <1>6, <1>7

(* A step keeps the model, so what is said of a slot in the new state may   *)
(* be read in the old one.                                                  *)
LEMMA Reread ==
  ASSUME model' = model, NEW u \in Trans
  PROVE  /\ Sound(u, slots[u])' <=> Sound(u, slots'[u])
         /\ Fits(u, store, slots[u])' <=> Fits(u, store', slots'[u])
BY DEF Sound, Fits, T, InSource, Enabled, Watched

-----------------------------------------------------------------------------
(* The invariant.                                                          *)

LEMMA InitInv == Init => Inv
<1> SUFFICES ASSUME Init PROVE Inv
  OBVIOUS
<1> DEFINE blank == [t \in Trans |-> Blank]
<1>1. /\ model \in Models /\ store = ModelOf[model].init /\ time = 0 /\ wave = 0
      /\ streak = [at |-> 0, count |-> 0] /\ status = "running"
      /\ firings = [t \in Trans |-> Unfired]
      /\ seqEnd \in Latched(store, 0, None)
  BY DEF Init
<1>2. store \in Store
  BY <1>1, SchedulerAssumption DEF Model
<1>3. 0 \in 0..TMax
  BY SchedulerAssumption
<1>4. /\ blank \in [Trans -> Slot]
      /\ \A t \in Trans : Sound(t, blank[t]) /\ Timely(blank[t], 0)
  BY DEF Blank, Slot, Sound, Timely
<1>5. PICK d \in Draws : slots = RefreshSchedule(blank, store, 0, 0, d)
  BY DEF Init
<1> HIDE DEF blank
<1>6. /\ slots \in [Trans -> Slot]
      /\ \A t \in Trans : /\ Sound(t, slots[t]) /\ Timely(slots[t], 0)
                          /\ Fits(t, store, slots[t])
  BY <1>1, <1>2, <1>3, <1>4, <1>5, BeforeNever, RefreshedSchedule
<1>7. seqEnd \in [cause : Nat, at : 0..TMax] \cup {None}
  <2>1. ModelOf[model].goals \in Seq(Loc \X Value)
    BY <1>1, SchedulerAssumption DEF Model
  <2>2. Active(store) \subseteq Nat
    BY <2>1 DEF Active
  <2> QED BY <1>1, <1>3, <2>2 DEF Latched
<1>8. firings \in [Trans -> [count : Nat, first : Nat]]
  BY <1>1 DEF Unfired
<1>9. streak \in [at : Nat, count : 0..(WatchedLimit + 1)] /\ streak.count <= WatchedLimit
  BY <1>1, SchedulerAssumption
<1>10. TypeOK
  BY <1>1, <1>2, <1>3, <1>6, <1>7, <1>8, <1>9 DEF TypeOK, Statuses
<1> QED BY <1>1, <1>6, <1>9, <1>10 DEF Inv

LEMMA WatchedInv ==
  ASSUME Inv, status = "running", NEW t \in Trans, FireWatched(t)
  PROVE  Inv'
<1>1. /\ status = "running" /\ t \in Immediate /\ time \in 0..TMax /\ time \in Nat
      /\ streak \in [at : Nat, count : 0..(WatchedLimit + 1)] /\ streak.count <= WatchedLimit
      /\ streak' = NextStreak /\ model' = model /\ time' = time
      /\ model \in Models
  BY SchedulerAssumption DEF FireWatched, WatchedFiring, Inv, TypeOK
<1>2. NextStreak \in [at : Nat, count : 0..(WatchedLimit + 1)]
  BY <1>1, SchedulerAssumption DEF NextStreak
<1>3. CASE NextStreak.count > WatchedLimit
  <2>1. status' = "WatchedLoop" /\ UNCHANGED <<store, slots, wave, firings, seqEnd>>
    BY <1>3 DEF FireWatched, WatchedFiring
  <2> QED BY <1>1, <1>2, <2>1 DEF Inv, TypeOK, Statuses
<1>4. CASE ~(NextStreak.count > WatchedLimit)
  <2>1. Fire(t, time)
    BY <1>4 DEF FireWatched, WatchedFiring
  <2>2. \A u \in Trans \ {t} : slots[u].date # None => time <= slots[u].date
    BY <1>1, SchedulerAssumption DEF Inv, Timely, TypeOK, Slot
  <2>3. /\ store' \in Store /\ slots' \in [Trans -> Slot] /\ wave' \in Nat
        /\ firings' \in [Trans -> [count : Nat, first : Nat]]
        /\ seqEnd' \in [cause : Nat, at : 0..TMax] \cup {None}
        /\ status' \in {"running", "TransitionChattering"}
        /\ status' = "running" =>
             \A u \in Trans : /\ Sound(u, slots'[u]) /\ Timely(slots'[u], time)
                              /\ Fits(u, store', slots'[u])
    BY <1>1, <2>1, <2>2, FirePreserves
  <2>4. NextStreak.count <= WatchedLimit
    BY <1>2, <1>4, SchedulerAssumption
  <2>5. TypeOK'
    BY <1>1, <1>2, <2>3 DEF TypeOK, Statuses
  <2> QED BY <1>1, <2>3, <2>4, <2>5, Reread DEF Inv, Timely, HazardDate
<1> QED BY <1>3, <1>4

LEMMA DatedInv ==
  ASSUME Inv, status = "running", NEW t \in Trans, FireDated(t, TMax)
  PROVE  Inv'
<1>1. /\ status = "running" /\ IsNext(t) /\ time \in 0..TMax /\ slots \in [Trans -> Slot]
      /\ model' = model /\ model \in Models /\ slots[t].date <= TMax
      /\ streak' = [at |-> time', count |-> 0] /\ Fire(t, time')
      /\ time' = Later(slots[t].date, time)
  BY DEF FireDated, Inv, TypeOK
<1>2. slots[t].date \in Int /\ slots[t].date >= time
  BY <1>1 DEF IsNext, Scheduled, Inv, Timely, Slot
<1>3. time' = slots[t].date /\ time' \in 0..TMax /\ time <= time'
  BY <1>1, <1>2, SchedulerAssumption DEF Later
<1>4. \A u \in Trans \ {t} : slots[u].date # None => time' <= slots[u].date
  BY <1>1, <1>2, <1>3 DEF IsNext, Scheduled, Slot
<1> DEFINE now == time'
<1>5. now \in 0..TMax /\ time <= now /\ Fire(t, now)
  BY <1>1, <1>3
<1>6. /\ store' \in Store /\ slots' \in [Trans -> Slot] /\ wave' \in Nat
      /\ firings' \in [Trans -> [count : Nat, first : Nat]]
      /\ seqEnd' \in [cause : Nat, at : 0..TMax] \cup {None}
      /\ status' \in {"running", "TransitionChattering"}
      /\ status' = "running" =>
           \A u \in Trans : /\ Sound(u, slots'[u]) /\ Timely(slots'[u], now)
                            /\ Fits(u, store', slots'[u])
  BY <1>1, <1>4, <1>5, FirePreserves
<1>7. TypeOK' /\ streak'.count <= WatchedLimit
  BY <1>1, <1>3, <1>6, SchedulerAssumption DEF TypeOK, Statuses
<1> QED BY <1>1, <1>6, <1>7, Reread DEF Inv, Timely, HazardDate

LEMMA EndInv ==
  ASSUME Inv, EndRun
  PROVE  Inv'
<1>1. /\ status = "running" /\ status' = "ended"
      /\ UNCHANGED <<model, store, slots, wave, streak, firings, seqEnd>>
      /\ time' = IF seqEnd # None THEN seqEnd.at ELSE TMax
  BY DEF EndRun
<1>2. time' \in 0..TMax
  BY <1>1, SchedulerAssumption DEF Inv, TypeOK
<1>3. TypeOK'
  BY <1>1, <1>2 DEF Inv, TypeOK, Statuses
<1> QED BY <1>1, <1>3, Reread DEF Inv

(* The inductive invariant holds in every reachable state.                  *)
THEOREM Invariant == Spec => []Inv
<1>1. Inv /\ [Next]_vars => Inv'
  <2> SUFFICES ASSUME Inv, [Next]_vars PROVE Inv'
    OBVIOUS
  <2>1. CASE UNCHANGED vars
    BY <2>1 DEF vars, Inv, TypeOK, Sound, Timely, Fits, T, InSource, Enabled, Watched, HazardDate
  <2>2. CASE Next
    BY <2>2, WatchedInv, DatedInv, EndInv DEF Next, Step, StepWatched, StepDated, MayStep
  <2> QED BY <2>1, <2>2
<1> QED BY <1>1, InitInv, PTL DEF Spec

(* Every variable keeps its type, for every model, horizon and cap.         *)
THEOREM TypeCorrect == Spec => []TypeOK
<1>1. Inv => TypeOK
  BY DEF Inv
<1> QED BY <1>1, Invariant, PTL

(* No scheduled date is ever before the clock of a running engine: `max` in *)
(* `step` is a no-op, whatever was paused, re-dated or banked on the way.   *)
THEOREM NothingOverdue == Spec => []NoOverdue
<1>1. Inv => NoOverdue
  BY DEF Inv, NoOverdue, Timely, Scheduled
<1> QED BY <1>1, Invariant, PTL

(* Between two steps the schedule holds exactly what the state allows.      *)
THEOREM ScheduleTheorem == Spec => []ScheduleMatchesState
<1>1. Inv => ScheduleMatchesState
  BY DEF Inv, ScheduleMatchesState, Sound, Fits
<1> QED BY <1>1, Invariant, PTL

-----------------------------------------------------------------------------
(* A reached target stops the clock.                                       *)

LEMMA FireLatches ==
  ASSUME NEW t \in Trans, NEW now \in 0..TMax, Fire(t, now), status' = "running",
         seqEnd # None => seqEnd.at = now
  PROVE  seqEnd' # None => seqEnd'.at = now
<1>1. \E s \in {Written(t, Moved(t, to, store)) : to \in T(t).targets} :
        seqEnd' \in Latched(s, now, seqEnd)
  BY DEF Fire
<1> QED BY <1>1 DEF Latched

LEMMA TargetStep ==
  ASSUME Inv, TargetStopsClock, Next
  PROVE  TargetStopsClock'
<1>1. /\ status = "running" /\ time \in 0..TMax /\ slots \in [Trans -> Slot]
      /\ seqEnd \in [cause : Nat, at : 0..TMax] \cup {None}
      /\ seqEnd # None => time = seqEnd.at
      /\ \A u \in Scheduled : slots[u].date \in Int /\ slots[u].date >= time
  BY DEF Inv, TypeOK, Next, Step, StepWatched, StepDated, EndRun, MayStep,
         TargetStopsClock, Timely, Scheduled, Slot
<1>2. ASSUME NEW t \in Trans, StepWatched(t)
      PROVE  TargetStopsClock'
  <2>1. CASE NextStreak.count > WatchedLimit
    BY <1>1, <1>2, <2>1 DEF StepWatched, FireWatched, WatchedFiring, TargetStopsClock
  <2>2. CASE ~(NextStreak.count > WatchedLimit)
    <3>1. Fire(t, time) /\ time' = time
      BY <1>2, <2>2 DEF StepWatched, FireWatched, WatchedFiring
    <3>2. status' \in {"running", "TransitionChattering"}
      BY <1>1, <3>1 DEF Fire
    <3> QED BY <1>1, <3>1, <3>2, FireLatches DEF TargetStopsClock
  <2> QED BY <2>1, <2>2
<1>3. ASSUME NEW t \in Trans, StepDated(t)
      PROVE  TargetStopsClock'
  <2>1. /\ t \in Scheduled /\ Fire(t, time') /\ slots[t].date <= TMax
        /\ \A u \in Scheduled : slots[t].date <= slots[u].date
        /\ seqEnd # None => StillDue
        /\ time' = Later(slots[t].date, time)
    BY <1>1, <1>3 DEF StepDated, FireDated, IsNext, MayStep
  <2>2. time' = slots[t].date /\ time' \in 0..TMax
    BY <1>1, <2>1, SchedulerAssumption DEF Later
  <2>3. seqEnd # None => seqEnd.at = time'
    <3> SUFFICES ASSUME seqEnd # None PROVE seqEnd.at = time'
      OBVIOUS
    <3>1. PICK u \in Scheduled : slots[u].date <= seqEnd.at
      BY <2>1 DEF StillDue
    <3>2. seqEnd.at \in 0..TMax /\ time = seqEnd.at
      BY <1>1
    <3> QED BY <1>1, <2>1, <2>2, <3>1, <3>2, SchedulerAssumption
  <2>4. status' \in {"running", "TransitionChattering"}
    BY <1>1, <2>1 DEF Fire
  <2> DEFINE now == time'
  <2>5. now \in 0..TMax /\ Fire(t, now) /\ (seqEnd # None => seqEnd.at = now)
    BY <2>1, <2>2, <2>3
  <2>6. status' = "running" => (seqEnd' # None => seqEnd'.at = now)
    <3> HIDE DEF now
    <3> QED BY <2>5, FireLatches
  <2> QED BY <2>4, <2>6 DEF TargetStopsClock
<1>4. ASSUME EndRun
      PROVE  TargetStopsClock'
  <2>1. /\ UNCHANGED <<slots, seqEnd>>
        /\ NothingWithin(TMax) \/ (seqEnd # None /\ ~StillDue)
        /\ time' = IF seqEnd # None THEN seqEnd.at ELSE TMax
    BY <1>4 DEF EndRun
  <2>2. seqEnd # None => ~StillDue
    BY <1>1, <2>1, SchedulerAssumption DEF NothingWithin, StillDue
  <2> QED BY <2>1, <2>2 DEF TargetStopsClock, StillDue, Scheduled
<1> QED BY <1>2, <1>3, <1>4 DEF Next, Step

(* Once a target is reached, the run only completes that instant: no event  *)
(* moves the clock, and the run ends there with nothing scheduled at it.    *)
THEOREM TargetTheorem == Spec => []TargetStopsClock
<1>1. Init => TargetStopsClock
  BY DEF Init, Latched, TargetStopsClock
<1>2. Inv /\ TargetStopsClock /\ [Next]_vars => TargetStopsClock'
  <2>1. ASSUME UNCHANGED vars, TargetStopsClock PROVE TargetStopsClock'
    BY <2>1 DEF vars, TargetStopsClock, StillDue, Scheduled
  <2> QED BY <2>1, TargetStep
<1> QED BY <1>1, <1>2, Invariant, PTL DEF Spec

-----------------------------------------------------------------------------
(* Observers.  An observer is armed no later than what would leave the      *)
(* state it waits for: by the order of the waves it is then due first.      *)
ArmedFirst ==
  status = "running" =>
    /\ \A t \in Trans : slots[t].date # None => slots[t].wave <= wave
    /\ \A t, o \in Trans :
         Observes(o, t) /\ slots[t].date # None /\ slots[o].date # None
           => slots[o].wave <= slots[t].wave

(* A date that stays keeps its wave; a new one takes the present wave.      *)
LEMMA ArmWave ==
  ASSUME NEW slot \in Slot, NEW w \in Nat, NEW date
  PROVE  Arm(slot, date, w).wave = IF slot.date = None THEN w ELSE slot.wave
BY DEF Arm, Slot

LEMMA RefreshedWave ==
  ASSUME model \in Models, NEW t \in Trans, NEW s \in Store, NEW now, NEW w \in Nat,
         NEW d, NEW slot \in Slot, Sound(t, slot),
         Refreshed(t, slot, s, now, w, d).date # None
  PROVE  Refreshed(t, slot, s, now, w, d).wave = IF slot.date = None THEN w ELSE slot.wave
<1> DEFINE r == Refreshed(t, slot, s, now, w, d)
<1>1. CASE Watched(t)
  <2>1. r = slot
    BY <1>1 DEF Refreshed
  <2> QED BY <1>1, <2>1 DEF Sound
<1>2. CASE ~Watched(t) /\ ~InSource(t, s)
  <2>1. r = SourceLeft(slot)
    BY <1>2 DEF Refreshed
  <2> QED BY <2>1, SourceLeftSlot
<1>3. CASE /\ ~Watched(t) /\ InSource(t, s) /\ slot.date # None
           /\ ~(Enabled(t, s) \/ T(t).policy = "continue")
  <2>1. r = Interrupted(t, slot, now)
    BY <1>3 DEF Refreshed
  <2>2. Interrupted(t, slot, now).date = None
    BY DEF Interrupted, Slot
  <2> QED BY <2>1, <2>2
<1>4. CASE /\ ~Watched(t) /\ InSource(t, s) /\ slot.date # None
           /\ Enabled(t, s) \/ T(t).policy = "continue"
  <2> DEFINE h == [Bank(slot.hazard, now) EXCEPT !.rate = T(t).rate[s]]
  <2>1. r = Rescheduled(t, slot, s, now, w)
    BY <1>4 DEF Refreshed
  <2>2. r = slot \/ r = Arm([slot EXCEPT !.hazard = h], HazardDate(h, now), w)
    BY <2>1 DEF Rescheduled
  <2> HIDE DEF h, r
  <2>3. /\ [slot EXCEPT !.hazard = h].date = slot.date
        /\ [slot EXCEPT !.hazard = h].wave = slot.wave
    BY DEF Slot
  <2>4. Arm([slot EXCEPT !.hazard = h], HazardDate(h, now), w).wave = slot.wave
    <3> DEFINE x == [slot EXCEPT !.hazard = h]
    <3>1. x.date # None /\ x.wave = slot.wave /\ x = [x EXCEPT !.date = x.date]
      BY <1>4, <2>3 DEF Slot
    <3>2. "wave" \in DOMAIN x /\ "date" \in DOMAIN x
      BY DEF Slot
    <3> HIDE DEF x
    <3>3. Arm(x, HazardDate(h, now), w).wave = x.wave
      BY <3>1, <3>2 DEF Arm
    <3> QED BY <3>1, <3>3 DEF x
  <2> QED BY <1>4, <2>2, <2>4 DEF r
<1>5. CASE ~Watched(t) /\ InSource(t, s) /\ slot.date = None /\ Enabled(t, s)
  <2>1. r = Armed(t, slot, s, now, w, d)
    BY <1>5 DEF Refreshed
  <2>2. \E h, date : r = Arm([slot EXCEPT !.hazard = h], date, w)
                     \/ r = Arm([slot EXCEPT !.frozen = None], date, w)
                     \/ r = Arm(slot, date, w)
    BY <2>1 DEF Armed
  <2>3. PICK x, date : r = Arm(x, date, w) /\ x.date = None /\ "wave" \in DOMAIN x
                       /\ "date" \in DOMAIN x
    <3>1. \A h : [slot EXCEPT !.hazard = h].date = None /\ [slot EXCEPT !.frozen = None].date = None
                 /\ "wave" \in DOMAIN [slot EXCEPT !.hazard = h]
                 /\ "date" \in DOMAIN [slot EXCEPT !.hazard = h]
                 /\ "wave" \in DOMAIN [slot EXCEPT !.frozen = None] /\ "wave" \in DOMAIN slot
                 /\ "date" \in DOMAIN [slot EXCEPT !.frozen = None] /\ "date" \in DOMAIN slot
      BY <1>5 DEF Slot
    <3> HIDE DEF r
    <3> QED BY <1>5, <2>2, <3>1
  <2> HIDE DEF r
  <2>4. r.wave = w
    BY <2>3 DEF Arm
  <2> QED BY <1>5, <2>4 DEF r
<1>6. CASE ~Watched(t) /\ InSource(t, s) /\ slot.date = None /\ ~Enabled(t, s)
  <2>1. r = slot
    BY <1>6 DEF Refreshed
  <2> QED BY <1>6, <2>1
<1> QED BY <1>1, <1>2, <1>3, <1>4, <1>5, <1>6

LEMMA InitArmedFirst == Init => ArmedFirst
<1> SUFFICES ASSUME Init PROVE ArmedFirst
  OBVIOUS
<1>1. model \in Models /\ store \in Store /\ wave = 0
  BY SchedulerAssumption DEF Init, Model
<1>2. PICK d \in Draws : slots = RefreshSchedule([t \in Trans |-> Blank], store, 0, 0, d)
  BY DEF Init
<1>3. ASSUME NEW t \in Trans, slots[t].date # None
      PROVE  slots[t].wave = 0
  <2>1. slots[t] = Refreshed(t, Blank, store, 0, 0, d[t])
    BY <1>2 DEF RefreshSchedule
  <2>2. Blank \in Slot /\ Sound(t, Blank) /\ Blank.date = None
    BY DEF Blank, Slot, Sound
  <2> QED BY <1>1, <1>3, <2>1, <2>2, RefreshedWave
<1> QED BY <1>1, <1>3 DEF ArmedFirst

LEMMA FireArmedFirst ==
  ASSUME Inv, ArmedFirst, status = "running", NEW t0 \in Trans, NEW now \in 0..TMax, time <= now,
         \A u \in Trans \ {t0} : slots[u].date # None => now <= slots[u].date,
         Fire(t0, now), status' = "running", model' = model
  PROVE  ArmedFirst'
<1> DEFINE cleared == [slots EXCEPT ![t0] = SourceLeft(@)]
<1>1. /\ model \in Models /\ store \in Store /\ slots \in [Trans -> Slot] /\ wave \in Nat
      /\ time \in 0..TMax /\ wave + 1 \in Nat /\ wave' = wave + 1
      /\ \A u \in Trans : Sound(u, slots[u]) /\ Timely(slots[u], time) /\ Fits(u, store, slots[u])
  BY DEF Inv, TypeOK, Fire
<1>2. /\ cleared \in [Trans -> Slot]
      /\ \A u \in Trans : Sound(u, cleared[u]) /\ Timely(cleared[u], now)
  BY <1>1, BeforeNever, ClearedSchedule
<1>3. PICK to \in T(t0).targets : \E d \in Draws :
        /\ store' = Written(t0, Moved(t0, to, store))
        /\ slots' = RefreshSchedule(cleared, store', now, wave + 1, d)
  <2>1. ~Chatters(t0)
    BY DEF Fire
  <2> QED BY <2>1 DEF Fire
<1>4. PICK d \in Draws : slots' = RefreshSchedule(cleared, store', now, wave + 1, d)
  BY <1>3
<1>5. /\ store' \in Store
      /\ \A u \in Trans : slots'[u] \in Slot /\ Fits(u, store', slots'[u])
  BY <1>1, <1>3, FiredStore, FirePreserves
<1>6. ASSUME NEW u \in Trans
      PROVE  /\ cleared[u].date # None => u # t0 /\ cleared[u] = slots[u]
             /\ u # t0 => cleared[u] = slots[u]
  <2>1. slots[u] \in Slot
    BY <1>1
  <2> QED BY <1>1, <2>1, SourceLeftSlot
<1> HIDE DEF cleared
<1>7. ASSUME NEW u \in Trans, slots'[u].date # None
      PROVE  slots'[u].wave = IF cleared[u].date = None THEN wave + 1 ELSE cleared[u].wave
  <2>1. slots'[u] = Refreshed(u, cleared[u], store', now, wave + 1, d[u])
    BY <1>4 DEF RefreshSchedule
  <2> QED BY <1>1, <1>2, <1>5, <1>7, <2>1, RefreshedWave
<1>8. ASSUME NEW u \in Trans, slots'[u].date # None
      PROVE  slots'[u].wave <= wave + 1
  <2>1. CASE cleared[u].date = None
    BY <1>1, <1>7, <1>8, <2>1
  <2>2. CASE cleared[u].date # None
    <3>1. slots[u].wave <= wave /\ slots[u].wave \in Nat /\ cleared[u] = slots[u]
      BY <1>1, <1>6, <2>2 DEF ArmedFirst, Slot
    <3> QED BY <1>1, <1>7, <1>8, <2>2, <3>1
  <2> QED BY <2>1, <2>2
<1>9. ASSUME NEW t \in Trans, NEW o \in Trans, Observes(o, t),
             slots'[t].date # None, slots'[o].date # None
      PROVE  slots'[o].wave <= slots'[t].wave
  <2>1. CASE cleared[t].date = None
    BY <1>7, <1>8, <1>9, <2>1
  <2>2. CASE cleared[t].date # None
    <3>1. t # t0 /\ cleared[t] = slots[t] /\ slots[t].date # None
      BY <1>6, <2>2
    <3>2. Enabled(o, store)
      BY <1>1, <1>9, <3>1 DEF Fits, Observes, Enabled
    <3>3. store'[T(o).aut] = T(o).source
      BY <1>5, <1>9 DEF Fits, InSource
    <3>4. T(o).aut \in Loc /\ T(t0).aut \in Loc /\ store \in [Loc -> Value]
      BY <1>1, TransFacts DEF TransDef, Store
    <3>5. store'[T(o).aut] = IF T(t0).aut = T(o).aut THEN to ELSE store[T(o).aut]
      BY <1>3, <1>9, <3>4 DEF Observes, Written, Moved
    <3>6. T(t0).aut # T(o).aut /\ InSource(o, store)
      BY <1>3, <1>9, <3>3, <3>5 DEF Observes, InSource
    <3>7. slots[o].date # None
      BY <1>1, <1>9, <3>2, <3>6 DEF Fits, Watched, Observes
    <3>8. cleared[o] = slots[o]
      BY <1>6, <3>6
    <3>9. slots[o].wave <= slots[t].wave
      BY <1>9, <3>1, <3>7 DEF ArmedFirst
    <3> QED BY <1>7, <1>9, <3>1, <3>7, <3>8, <3>9
  <2> QED BY <2>1, <2>2
<1>10. \A t, o \in Trans : Observes(o, t)' <=> Observes(o, t)
  BY DEF Observes, T, InSource
<1> QED BY <1>1, <1>8, <1>9, <1>10 DEF ArmedFirst

LEMMA StepArmedFirst ==
  ASSUME Inv, ArmedFirst, [Next]_vars
  PROVE  ArmedFirst'
<1>1. CASE UNCHANGED vars
  BY <1>1 DEF vars, ArmedFirst, Observes, T, InSource
<1>2. CASE status' # "running"
  BY <1>2 DEF ArmedFirst
<1>3. ASSUME status' = "running", NEW t \in Trans, StepWatched(t)
      PROVE  ArmedFirst'
  <2>1. status = "running" /\ model' = model /\ time \in 0..TMax /\ Fire(t, time)
    BY <1>3 DEF StepWatched, FireWatched, WatchedFiring, MayStep, Inv, TypeOK
  <2>2. time <= time /\ \A u \in Trans \ {t} : slots[u].date # None => time <= slots[u].date
    BY <2>1, SchedulerAssumption DEF Inv, Timely, TypeOK, Slot
  <2> QED BY <1>3, <2>1, <2>2, FireArmedFirst
<1>4. ASSUME status' = "running", NEW t \in Trans, StepDated(t)
      PROVE  ArmedFirst'
  <2>1. /\ status = "running" /\ IsNext(t) /\ time \in 0..TMax /\ slots \in [Trans -> Slot]
        /\ model' = model /\ slots[t].date <= TMax
        /\ Fire(t, time') /\ time' = Later(slots[t].date, time)
    BY <1>4 DEF StepDated, FireDated, MayStep, Inv, TypeOK
  <2>2. slots[t].date \in Int /\ slots[t].date >= time
    BY <2>1 DEF IsNext, Scheduled, Inv, Timely, Slot
  <2> DEFINE now == time'
  <2>3. now = slots[t].date /\ now \in 0..TMax /\ time <= now /\ Fire(t, now)
    BY <2>1, <2>2, SchedulerAssumption DEF Later
  <2>4. \A u \in Trans \ {t} : slots[u].date # None => now <= slots[u].date
    BY <2>1, <2>2, <2>3 DEF IsNext, Scheduled, Slot
  <2> HIDE DEF now
  <2> QED BY <1>4, <2>1, <2>3, <2>4, FireArmedFirst
<1>5. EndRun => status' # "running"
  BY DEF EndRun
<1> QED BY <1>1, <1>2, <1>3, <1>4, <1>5 DEF Next, Step

(* A dated transition never takes an automaton out of a state while a       *)
(* one-shot observer of that state waits to fire at the same instant,       *)
(* wherever the two are declared (`next_pending`).                          *)
THEOREM ObservedTheorem == Spec => ObservedBeforeLeft
<1>1. ASSUME Inv, ArmedFirst, NEW t \in Trans, NEW o \in Trans,
             StepDated(t), Observes(o, t), slots[o].date # None
      PROVE  slots[o].date > time'
  <2>1. /\ status = "running" /\ IsNext(t) /\ time \in 0..TMax /\ slots \in [Trans -> Slot]
        /\ time' = Later(slots[t].date, time)
    BY <1>1 DEF StepDated, FireDated, MayStep, Inv, TypeOK
  <2>2. slots[t].date \in Int /\ slots[t].date >= time /\ slots[o].date \in Int
    BY <1>1, <2>1 DEF IsNext, Scheduled, Inv, Timely, Slot
  <2>3. time' = slots[t].date
    BY <2>1, <2>2, SchedulerAssumption DEF Later
  <2>4. slots[o].wave <= slots[t].wave /\ slots[o].wave \in Nat /\ slots[t].wave \in Nat
    BY <1>1, <2>1 DEF ArmedFirst, IsNext, Scheduled, Slot
  <2>5. o # t /\ o \in Scheduled
    BY <1>1 DEF Observes, Scheduled
  <2>6. Rank(t) = <<slots[t].wave, 1, t>> /\ Rank(o) = <<slots[o].wave, 0, o>>
    BY <1>1 DEF Observes, Rank
  <2>7. ~RankBefore(Rank(t), Rank(o))
    BY <2>4, <2>6 DEF RankBefore
  <2>8. slots[t].date < slots[o].date
    BY <2>1, <2>5, <2>7 DEF IsNext
  <2> QED BY <2>2, <2>3, <2>8
<1>2. Inv /\ ArmedFirst /\ [Next]_vars => ArmedFirst'
  BY StepArmedFirst
<1>3. Inv /\ ArmedFirst =>
        [\A t, o \in Trans :
           (StepDated(t) /\ Observes(o, t) /\ slots[o].date # None)
             => slots[o].date > time']_vars
  BY <1>1
<1> QED BY <1>2, <1>3, Invariant, InitArmedFirst, PTL DEF Spec, ObservedBeforeLeft

-----------------------------------------------------------------------------
(* What is left of one slot, as a function of the slot and the time.       *)
HazardIn(slot, now) == IF slot.date = None THEN slot.hazard ELSE Bank(slot.hazard, now)

SlotLeft(slot, now) ==
  IF slot.hazard # None THEN HazardIn(slot, now).threshold - HazardIn(slot, now).accumulated
  ELSE IF slot.date # None THEN slot.date - now
  ELSE slot.frozen

LEMMA LeftIsSlotLeft ==
  ASSUME NEW t \in Trans
  PROVE  Left(t) = SlotLeft(slots[t], time)
BY DEF Left, HazardLeft, SlotLeft, HazardIn

(* The rate of a running hazard is the one of the present state.            *)
RateIsPresent(t, s, slot) ==
  slot.date # None /\ slot.hazard # None => slot.hazard.rate = T(t).rate[s]

RateInv == status = "running" => \A t \in Trans : RateIsPresent(t, store, slots[t])

-----------------------------------------------------------------------------
(* Banking.                                                                *)

LEMMA BankFields ==
  ASSUME NEW h \in Hazard, NEW now \in Nat
  PROVE  /\ Bank(h, now).threshold = h.threshold
         /\ Bank(h, now).accumulated = h.accumulated + h.rate * (now - h.since)
         /\ Bank(h, now).rate = h.rate
         /\ Bank(h, now).since = now
         /\ Bank(h, now).accumulated \in Int
         /\ h.threshold \in Int
<1> DEFINE total == h.accumulated + h.rate * (now - h.since)
<1>1. total \in Int /\ h.threshold \in Int
  <2>1. h.rate * (now - h.since) \in Int /\ h.accumulated \in Int
    BY DEF Hazard
  <2> QED BY <2>1 DEF Hazard
<1>2. Bank(h, now) = [h EXCEPT !.accumulated = total, !.since = now]
  BY Zenon DEF Bank
<1> HIDE DEF total
<1>3. /\ Bank(h, now).threshold = h.threshold /\ Bank(h, now).accumulated = total
      /\ Bank(h, now).rate = h.rate /\ Bank(h, now).since = now
  BY <1>2 DEF Hazard
<1> QED BY <1>1, <1>3 DEF total

(* A hazard banked at the present instant is banked.                        *)
LEMMA BankedNow ==
  ASSUME NEW h \in Hazard, NEW now \in Nat, h.since = now
  PROVE  Bank(h, now).accumulated = h.accumulated
<1>1. h.rate * (now - h.since) = 0 /\ h.accumulated \in Int
  BY DEF Hazard
<1> QED BY <1>1, BankFields

LEMMA Distributed ==
  ASSUME NEW a \in Int, NEW b \in Int, NEW c \in Int
  PROVE  a * (b + c) = a * b + a * c
BY SMT

(* The time that goes by takes the rate times as much off what is left.     *)
LEMMA BankTwice ==
  ASSUME NEW h \in Hazard, NEW now \in Nat, NEW later \in Nat
  PROVE  Bank(h, later).accumulated = Bank(h, now).accumulated + h.rate * (later - now)
<1>1. h.rate \in Int /\ h.since \in Int /\ h.accumulated \in Int
  BY DEF Hazard
<1> DEFINE b == now - h.since
           c == later - now
<1>2. b \in Int /\ c \in Int /\ later - h.since = b + c
  BY <1>1
<1>3. h.rate * (b + c) = h.rate * b + h.rate * c
  BY <1>1, <1>2, Distributed
<1>4. h.rate * b \in Int /\ h.rate * c \in Int
  BY <1>1, <1>2
<1> HIDE DEF b, c
<1>5. h.accumulated + (h.rate * b + h.rate * c) = (h.accumulated + h.rate * b) + h.rate * c
  BY <1>1, <1>4
<1> QED BY <1>2, <1>3, <1>5, BankFields DEF b, c

(* None is no number and no hazard.                                         *)
LEMMA NoneFacts == None \notin Int /\ None \notin Hazard
BY SchedulerAssumption DEF Hazard

-----------------------------------------------------------------------------
(* What is left of a slot: nothing negative while nothing is overdue, and   *)
(* as time goes by it shrinks at the speed of the race.                     *)

LEMMA LeftIsNumber ==
  ASSUME NEW t \in Trans, NEW slot \in Slot, NEW now \in 0..Never
  PROVE  /\ SlotLeft(slot, now) \in Int \cup {None}
         /\ SlotLeft(slot, now) # None <=>
              slot.hazard # None \/ slot.date # None \/ slot.frozen # None
<1>1. now \in Nat
  BY SchedulerAssumption
<1>2. CASE slot.hazard # None
  <2>1. slot.hazard \in Hazard
    BY <1>2 DEF Slot
  <2>2. HazardIn(slot, now).threshold \in Int /\ HazardIn(slot, now).accumulated \in Int
    BY <1>1, <2>1, BankFields DEF HazardIn, Hazard
  <2> QED BY <1>2, <2>2, NoneFacts DEF SlotLeft
<1>3. CASE slot.hazard = None
  BY <1>1, <1>3, NoneFacts DEF SlotLeft, Slot
<1> QED BY <1>2, <1>3

LEMMA LeftNotNegative ==
  ASSUME NEW t \in Trans, NEW slot \in Slot, NEW now \in 0..Never, Timely(slot, now),
         SlotLeft(slot, now) # None
  PROVE  SlotLeft(slot, now) >= 0
<1>1. now \in Nat
  BY SchedulerAssumption
<1>2. CASE slot.hazard # None
  <2>1. slot.hazard \in Hazard /\ slot.hazard.accumulated <= slot.hazard.threshold
    BY <1>2 DEF Slot, Timely
  <2>2. CASE slot.date # None
    <3>1. /\ Bank(slot.hazard, now) \in Hazard
          /\ Bank(slot.hazard, now).accumulated <= Bank(slot.hazard, now).threshold
      BY <1>2, <2>2, DatedHazard
    <3> DEFINE b == Bank(slot.hazard, now)
    <3> HIDE DEF b
    <3>2. b.threshold - b.accumulated >= 0
      BY <3>1 DEF b, Hazard
    <3> QED BY <1>2, <2>2, <3>2 DEF b, SlotLeft, HazardIn
  <2>3. CASE slot.date = None
    BY <1>2, <2>1, <2>3 DEF SlotLeft, HazardIn, Hazard
  <2> QED BY <2>2, <2>3
<1>3. CASE slot.hazard = None
  BY <1>1, <1>3 DEF SlotLeft, Slot, Timely
<1> QED BY <1>2, <1>3

(* The speed at which a lifetime shrinks in the state `s`.                  *)
SpeedIn(t, s) ==
  CASE ~(Enabled(t, s) \/ T(t).policy = "continue") -> 0
    [] (Enabled(t, s) \/ T(t).policy = "continue") /\ T(t).law = "rate" -> T(t).rate[s]
    [] OTHER -> 1

LEMMA SpeedIsNat ==
  ASSUME model \in Models, NEW t \in Trans, NEW s \in Store
  PROVE  SpeedIn(t, s) \in Nat
<1>1. T(t).rate[s] \in Nat
  BY TransFacts DEF TransDef
<1> QED BY <1>1 DEF SpeedIn

LEMMA LeftElapses ==
  ASSUME model \in Models, NEW t \in Trans, NEW s \in Store, NEW slot \in Slot,
         NEW now \in 0..Never, NEW later \in 0..Never,
         Sound(t, slot), Fits(t, s, slot), RateIsPresent(t, s, slot)
  PROVE  SlotLeft(slot, later) =
           IF SlotLeft(slot, now) = None THEN None
           ELSE SlotLeft(slot, now) - SpeedIn(t, s) * (later - now)
<1> DEFINE runs == Enabled(t, s) \/ T(t).policy = "continue"
<1>1. now \in Nat /\ later \in Nat
  BY SchedulerAssumption
<1>2. CASE slot.hazard # None /\ slot.date # None
  <2>1. slot.hazard \in Hazard /\ T(t).law = "rate" /\ runs
    BY <1>2 DEF Slot, Sound, Fits
  <2>2. SpeedIn(t, s) = slot.hazard.rate
    BY <1>2, <2>1 DEF SpeedIn, RateIsPresent
  <2>3. /\ Bank(slot.hazard, later).threshold = slot.hazard.threshold
        /\ Bank(slot.hazard, now).threshold = slot.hazard.threshold
        /\ Bank(slot.hazard, now).accumulated \in Int
        /\ slot.hazard.threshold \in Int
        /\ Bank(slot.hazard, later).accumulated
             = Bank(slot.hazard, now).accumulated + slot.hazard.rate * (later - now)
    BY <1>1, <2>1, BankFields, BankTwice
  <2>4. slot.hazard.rate * (later - now) \in Int
    BY <1>1, <2>1 DEF Hazard
  <2>5. SlotLeft(slot, later) = slot.hazard.threshold - Bank(slot.hazard, later).accumulated
    BY <1>2, <2>3 DEF SlotLeft, HazardIn
  <2>6. SlotLeft(slot, now) = slot.hazard.threshold - Bank(slot.hazard, now).accumulated
    BY <1>2, <2>3 DEF SlotLeft, HazardIn
  <2> DEFINE x == slot.hazard.rate * (later - now)
             y == Bank(slot.hazard, now).accumulated
             z == slot.hazard.threshold
  <2>7. SlotLeft(slot, now) # None
    BY <2>3, <2>6, NoneFacts
  <2>8. SlotLeft(slot, later) = z - (y + x) /\ SlotLeft(slot, now) = z - y
        /\ x \in Int /\ y \in Int /\ z \in Int /\ SpeedIn(t, s) * (later - now) = x
    BY <2>2, <2>3, <2>4, <2>5, <2>6
  <2> HIDE DEF x, y, z
  <2> QED BY <2>7, <2>8
<1>3. CASE slot.hazard # None /\ slot.date = None
  <2>1. ~runs
    BY <1>3 DEF Sound, Fits, Watched
  <2>2. SpeedIn(t, s) = 0
    BY <2>1 DEF SpeedIn
  <2>3. SlotLeft(slot, later) = SlotLeft(slot, now)
    BY <1>3 DEF SlotLeft, HazardIn
  <2> QED BY <1>1, <2>2, <2>3, LeftIsNumber
<1>4. CASE slot.hazard = None /\ slot.date # None
  <2>1. runs /\ T(t).law # "rate"
    BY <1>4 DEF Sound, Fits
  <2>2. SpeedIn(t, s) = 1
    BY <2>1 DEF SpeedIn
  <2>3. SlotLeft(slot, later) = slot.date - later /\ SlotLeft(slot, now) = slot.date - now
        /\ slot.date \in Int
    BY <1>4 DEF SlotLeft, Slot
  <2> QED BY <1>1, <2>2, <2>3, NoneFacts
<1>5. CASE slot.hazard = None /\ slot.date = None
  <2>1. SlotLeft(slot, later) = slot.frozen /\ SlotLeft(slot, now) = slot.frozen
    BY <1>5 DEF SlotLeft
  <2>2. CASE slot.frozen = None
    BY <2>1, <2>2
  <2>3. CASE slot.frozen # None
    <3>1. ~runs
      BY <2>3 DEF Sound, Fits
    <3>2. SpeedIn(t, s) = 0 /\ slot.frozen \in Int
      BY <2>3, <3>1 DEF SpeedIn, Slot
    <3> QED BY <1>1, <2>1, <2>3, <3>2
  <2> QED BY <2>2, <2>3
<1> QED BY <1>2, <1>3, <1>4, <1>5

-----------------------------------------------------------------------------
(* The refresh of one transition, seen by the race: the lifetimes that the  *)
(* new state allows for what was left.                                      *)
LifetimesIn(t, s, l) ==
  CASE T(t).law = "watched" \/ ~InSource(t, s) -> {None}
    [] T(t).law # "watched" /\ InSource(t, s) /\ Enabled(t, s) ->
         IF l = None THEN T(t).draws ELSE {l}
    [] OTHER -> IF T(t).policy = "reset" THEN {None} ELSE {l}

LEMMA NothingLeft ==
  ASSUME NEW slot, NEW now, slot.date = None, slot.frozen = None, slot.hazard = None
  PROVE  SlotLeft(slot, now) = None
BY DEF SlotLeft

LEMMA InterruptedLeft ==
  ASSUME model \in Models, NEW t \in Trans, NEW s \in Store, NEW now \in 0..Never, NEW slot \in Slot,
         ~Watched(t), InSource(t, s), ~Enabled(t, s), slot.date # None,
         T(t).policy # "continue", Sound(t, slot), Timely(slot, now)
  PROVE  SlotLeft(Interrupted(t, slot, now), now) \in LifetimesIn(t, s, SlotLeft(slot, now))
<1> DEFINE r == Interrupted(t, slot, now)
<1>1. slot.frozen = None
  BY DEF Sound
<1>2. CASE T(t).policy # "resume"
  <2>1. T(t).policy = "reset"
    BY <1>2, TransFacts DEF TransDef
  <2>2. r = [slot EXCEPT !.date = None, !.hazard = None]
    BY <1>2 DEF Interrupted
  <2> HIDE DEF r
  <2>3. r.date = None /\ r.frozen = None /\ r.hazard = None
    BY <2>2, <1>1 DEF Slot
  <2>4. SlotLeft(r, now) = None
    BY <2>3, NothingLeft
  <2> QED BY <2>1, <2>4 DEF r, LifetimesIn, Watched
<1>3. CASE T(t).policy = "resume" /\ slot.hazard # None
  <2> DEFINE b == Bank(slot.hazard, now)
  <2>1. b \in Hazard
    BY <1>3, DatedHazard
  <2> HIDE DEF b
  <2>2. r = [slot EXCEPT !.date = None, !.hazard = b]
    BY <1>3 DEF Interrupted, b
  <2> HIDE DEF r
  <2>3. r.date = None /\ r.hazard = b /\ b # None
    BY <2>1, <2>2, NoneFacts DEF Slot
  <2>4. SlotLeft(r, now) = b.threshold - b.accumulated
    BY <2>3 DEF SlotLeft, HazardIn
  <2>5. SlotLeft(slot, now) = b.threshold - b.accumulated
    BY <1>3 DEF SlotLeft, HazardIn, b
  <2> QED BY <1>3, <2>4, <2>5 DEF r, LifetimesIn, Watched
<1>4. CASE T(t).policy = "resume" /\ slot.hazard = None
  <2>1. r = [slot EXCEPT !.date = None, !.frozen = slot.date - now]
    BY <1>4 DEF Interrupted
  <2> HIDE DEF r
  <2>2. r.date = None /\ r.frozen = slot.date - now /\ r.hazard = None
    BY <2>1, <1>4 DEF Slot
  <2>3. SlotLeft(r, now) = slot.date - now /\ SlotLeft(slot, now) = slot.date - now
    BY <1>4, <2>2 DEF SlotLeft
  <2> QED BY <1>4, <2>3 DEF r, LifetimesIn, Watched
<1> QED BY <1>2, <1>3, <1>4

LEMMA RescheduledLeft ==
  ASSUME model \in Models, NEW t \in Trans, NEW s \in Store, NEW now \in 0..Never,
         NEW w \in Nat, NEW slot \in Slot,
         ~Watched(t), InSource(t, s), slot.date # None,
         Enabled(t, s) \/ T(t).policy = "continue",
         Sound(t, slot), Timely(slot, now)
  PROVE  /\ SlotLeft(Rescheduled(t, slot, s, now, w), now)
              \in LifetimesIn(t, s, SlotLeft(slot, now))
         /\ RateIsPresent(t, s, Rescheduled(t, slot, s, now, w))
<1> DEFINE r == Rescheduled(t, slot, s, now, w)
           l == SlotLeft(slot, now)
<1>1. l # None
  BY LeftIsNumber
<1>2. l \in LifetimesIn(t, s, l)
  <2> HIDE DEF l
  <2> QED BY <1>1 DEF LifetimesIn, Watched
<1>3. CASE slot.hazard = None \/ T(t).rate[s] = slot.hazard.rate
  <2>1. r = slot
    BY <1>3 DEF Rescheduled
  <2> HIDE DEF r
  <2> QED BY <1>2, <1>3, <2>1 DEF r, RateIsPresent
<1>4. CASE slot.hazard # None /\ T(t).rate[s] # slot.hazard.rate
  <2> DEFINE b == Bank(slot.hazard, now)
             h == [b EXCEPT !.rate = T(t).rate[s]]
  <2>1. now \in Nat /\ T(t).rate[s] \in Nat
    BY TransFacts, SchedulerAssumption DEF TransDef
  <2>2. b \in Hazard /\ b.accumulated <= b.threshold /\ b.since = now
    BY <1>4, DatedHazard
  <2>3. /\ h \in Hazard /\ h.since = now /\ h.rate = T(t).rate[s]
        /\ h.accumulated = b.accumulated /\ h.threshold = b.threshold
        /\ h.accumulated <= h.threshold
    <3> HIDE DEF b
    <3> QED BY <2>1, <2>2 DEF Hazard
  <2>4. r = Arm([slot EXCEPT !.hazard = h], HazardDate(h, now), w)
    BY <1>4 DEF Rescheduled
  <2>5. l = b.threshold - b.accumulated
    BY <1>4 DEF SlotLeft, HazardIn
  <2> HIDE DEF h, b, r
  <2>6. HazardDate(h, now) \in Int
    BY <2>3, HazardDateLater
  <2>7. [slot EXCEPT !.hazard = h] \in Slot /\ [slot EXCEPT !.hazard = h].hazard = h
    BY <2>3, WithHazard
  <2>8. r.date = HazardDate(h, now) /\ r.hazard = h
    BY <2>4, <2>6, <2>7, ArmFields
  <2>9. r.date # None /\ r.hazard # None
    BY <2>3, <2>6, <2>8, NoneFacts
  <2>10. Bank(h, now).accumulated = h.accumulated /\ Bank(h, now).threshold = h.threshold
    BY <2>1, <2>3, BankedNow, BankFields
  <2>11. SlotLeft(r, now) = l
    BY <2>3, <2>5, <2>8, <2>9, <2>10 DEF SlotLeft, HazardIn
  <2>12. RateIsPresent(t, s, r)
    BY <2>3, <2>8 DEF RateIsPresent
  <2> QED BY <1>2, <2>11, <2>12 DEF r
<1> QED BY <1>3, <1>4

LEMMA ArmedRateLeft ==
  ASSUME model \in Models, NEW t \in Trans, NEW s \in Store, NEW now \in 0..Never,
         NEW w \in Nat, NEW d \in T(t).draws, NEW slot \in Slot,
         T(t).law = "rate", InSource(t, s), Enabled(t, s), slot.date = None,
         Sound(t, slot), Timely(slot, now)
  PROVE  /\ SlotLeft(Armed(t, slot, s, now, w, d), now)
              \in LifetimesIn(t, s, SlotLeft(slot, now))
         /\ RateIsPresent(t, s, Armed(t, slot, s, now, w, d))
<1> DEFINE fresh == [threshold |-> d, accumulated |-> 0, rate |-> T(t).rate[s], since |-> now]
           h == IF slot.hazard = None THEN fresh
                ELSE [slot.hazard EXCEPT !.rate = T(t).rate[s], !.since = now]
           r == Armed(t, slot, s, now, w, d)
           l == SlotLeft(slot, now)
<1>1. T(t).rate[s] \in Nat /\ d \in Nat /\ now \in Nat
  BY TransFacts, SchedulerAssumption DEF TransDef
<1>2. /\ h \in Hazard /\ h.since = now /\ h.rate = T(t).rate[s] /\ h.accumulated <= h.threshold
      /\ IF slot.hazard = None THEN h.threshold - h.accumulated = d
         ELSE h.threshold - h.accumulated = slot.hazard.threshold - slot.hazard.accumulated
  <2>1. CASE slot.hazard = None
    BY <2>1, <1>1 DEF Hazard
  <2>2. CASE slot.hazard # None
    <3>1. slot.hazard \in Hazard /\ slot.hazard.accumulated <= slot.hazard.threshold
      BY <2>2 DEF Slot, Timely
    <3> QED BY <3>1, <2>2, <1>1 DEF Hazard
  <2> QED BY <2>1, <2>2
<1>3. r = Arm([slot EXCEPT !.hazard = h], HazardDate(h, now), w)
  BY DEF Armed
<1>4. slot.frozen = None
  BY DEF Sound
<1> HIDE DEF h, r
<1>5. HazardDate(h, now) \in Int
  BY <1>2, HazardDateLater
<1>6. [slot EXCEPT !.hazard = h] \in Slot /\ [slot EXCEPT !.hazard = h].hazard = h
  BY <1>2, WithHazard
<1>7. r.date = HazardDate(h, now) /\ r.hazard = h
  BY <1>3, <1>5, <1>6, ArmFields
<1>8. r.date # None /\ r.hazard # None
  BY <1>2, <1>5, <1>7, NoneFacts
<1>9. Bank(h, now).accumulated = h.accumulated /\ Bank(h, now).threshold = h.threshold
  BY <1>1, <1>2, BankedNow, BankFields
<1>10. SlotLeft(r, now) = h.threshold - h.accumulated
  BY <1>7, <1>8, <1>9 DEF SlotLeft, HazardIn
<1>11. SlotLeft(r, now) \in LifetimesIn(t, s, l)
  <2>1. CASE slot.hazard = None
    <3>1. l = None
      BY <2>1, <1>4 DEF SlotLeft
    <3> HIDE DEF l
    <3> QED BY <2>1, <3>1, <1>2, <1>10 DEF LifetimesIn
  <2>2. CASE slot.hazard # None
    <3>1. l = slot.hazard.threshold - slot.hazard.accumulated
      BY <2>2 DEF SlotLeft, HazardIn
    <3>2. l # None
      BY <2>2, LeftIsNumber
    <3> HIDE DEF l
    <3> QED BY <2>2, <3>1, <3>2, <1>2, <1>10 DEF LifetimesIn
  <2> QED BY <2>1, <2>2
<1>12. RateIsPresent(t, s, r)
  BY <1>2, <1>7 DEF RateIsPresent
<1> QED BY <1>11, <1>12 DEF r

LEMMA ArmedDatedLeft ==
  ASSUME model \in Models, NEW t \in Trans, NEW s \in Store, NEW now \in 0..Never,
         NEW w \in Nat, NEW d \in T(t).draws, NEW slot \in Slot,
         T(t).law = "dated", InSource(t, s), Enabled(t, s), slot.date = None,
         Sound(t, slot), Timely(slot, now)
  PROVE  /\ SlotLeft(Armed(t, slot, s, now, w, d), now)
              \in LifetimesIn(t, s, SlotLeft(slot, now))
         /\ RateIsPresent(t, s, Armed(t, slot, s, now, w, d))
<1> DEFINE r == Armed(t, slot, s, now, w, d)
           l == SlotLeft(slot, now)
<1>1. now \in Nat /\ d \in Nat
  BY TransFacts, SchedulerAssumption DEF TransDef
<1>2. slot.hazard = None
  BY DEF Sound
<1>3. l = slot.frozen
  BY <1>2 DEF SlotLeft
<1>4. CASE slot.frozen # None
  <2>1. slot.frozen \in Int
    BY <1>4 DEF Slot
  <2>2. r = Arm([slot EXCEPT !.frozen = None], now + slot.frozen, w)
    BY <1>4 DEF Armed
  <2> HIDE DEF r, l
  <2> DEFINE date == now + slot.frozen
             thawed == [slot EXCEPT !.frozen = None]
  <2>3. date \in Int /\ thawed \in Slot /\ thawed.hazard = None
    BY <1>1, <1>2, <2>1, Thawed
  <2>4. r.date = date /\ r.hazard = None
    <3> HIDE DEF date, thawed
    <3> QED BY <2>2, <2>3, ArmFields DEF date, thawed
  <2>5. SlotLeft(r, now) = slot.frozen
    BY <1>1, <2>1, <2>3, <2>4, NoneFacts DEF SlotLeft
  <2> QED BY <1>3, <1>4, <2>4, <2>5 DEF r, l, LifetimesIn, RateIsPresent
<1>5. CASE slot.frozen = None
  <2>1. r = Arm(slot, now + d, w)
    BY <1>5 DEF Armed
  <2> HIDE DEF r, l
  <2>2. now + d \in Int
    BY <1>1
  <2>3. r.date = now + d /\ r.hazard = None
    BY <1>2, <2>1, <2>2, ArmFields
  <2>4. SlotLeft(r, now) = d
    BY <1>1, <2>2, <2>3, NoneFacts DEF SlotLeft
  <2> QED BY <1>3, <1>5, <2>3, <2>4 DEF r, l, LifetimesIn, RateIsPresent
<1> QED BY <1>4, <1>5

(* What a refresh leaves of a slot is a lifetime the race allows, and the   *)
(* hazard it leaves running has the rate of the new state.                  *)
LEMMA RefreshedLeft ==
  ASSUME model \in Models, NEW t \in Trans, NEW s \in Store, NEW now \in 0..Never,
         NEW w \in Nat, NEW d \in T(t).draws, NEW slot \in Slot,
         Sound(t, slot), Timely(slot, now)
  PROVE  /\ SlotLeft(Refreshed(t, slot, s, now, w, d), now)
              \in LifetimesIn(t, s, SlotLeft(slot, now))
         /\ RateIsPresent(t, s, Refreshed(t, slot, s, now, w, d))
<1> DEFINE r == Refreshed(t, slot, s, now, w, d)
<1>1. CASE Watched(t)
  <2>1. r = slot
    BY <1>1 DEF Refreshed
  <2>2. slot.date = None /\ slot.frozen = None /\ slot.hazard = None
    BY <1>1 DEF Sound
  <2>3. SlotLeft(slot, now) = None
    BY <2>2, NothingLeft
  <2> HIDE DEF r
  <2> QED BY <1>1, <2>1, <2>2, <2>3 DEF r, LifetimesIn, Watched, RateIsPresent
<1>2. CASE ~Watched(t) /\ ~InSource(t, s)
  <2>1. r = SourceLeft(slot)
    BY <1>2 DEF Refreshed
  <2> HIDE DEF r
  <2>2. r.date = None /\ r.frozen = None /\ r.hazard = None
    BY <2>1, SourceLeftSlot
  <2>3. SlotLeft(r, now) = None
    BY <2>2, NothingLeft
  <2> QED BY <1>2, <2>2, <2>3 DEF r, LifetimesIn, RateIsPresent
<1>3. CASE /\ ~Watched(t) /\ InSource(t, s) /\ slot.date # None
           /\ ~(Enabled(t, s) \/ T(t).policy = "continue")
  <2>1. r = Interrupted(t, slot, now)
    BY <1>3 DEF Refreshed
  <2>2. Interrupted(t, slot, now).date = None
    BY DEF Interrupted, Slot
  <2> HIDE DEF r
  <2> QED BY <1>3, <2>1, <2>2, InterruptedLeft DEF r, RateIsPresent
<1>4. CASE /\ ~Watched(t) /\ InSource(t, s) /\ slot.date # None
           /\ Enabled(t, s) \/ T(t).policy = "continue"
  <2>1. r = Rescheduled(t, slot, s, now, w)
    BY <1>4 DEF Refreshed
  <2> HIDE DEF r
  <2> QED BY <1>4, <2>1, RescheduledLeft DEF r
<1>5. CASE ~Watched(t) /\ InSource(t, s) /\ slot.date = None /\ Enabled(t, s)
  <2>1. r = Armed(t, slot, s, now, w, d)
    BY <1>5 DEF Refreshed
  <2>2. T(t).law \in {"dated", "rate"}
    BY <1>5, TransFacts DEF Watched, TransDef
  <2> HIDE DEF r
  <2> QED BY <1>5, <2>1, <2>2, ArmedDatedLeft, ArmedRateLeft DEF r
<1>6. CASE ~Watched(t) /\ InSource(t, s) /\ slot.date = None /\ ~Enabled(t, s)
  <2>1. r = slot
    BY <1>6 DEF Refreshed
  <2> HIDE DEF r
  <2>2. T(t).policy = "reset" => SlotLeft(slot, now) = None
    <3> SUFFICES ASSUME T(t).policy = "reset" PROVE SlotLeft(slot, now) = None
      OBVIOUS
    <3>1. slot.hazard = None /\ slot.frozen = None
      BY <1>6 DEF Sound
    <3> QED BY <1>6, <3>1, NothingLeft
  <2> DEFINE l == SlotLeft(slot, now)
  <2> HIDE DEF l
  <2> QED BY <1>6, <2>1, <2>2 DEF r, l, LifetimesIn, Watched, RateIsPresent
<1> QED BY <1>1, <1>2, <1>3, <1>4, <1>5, <1>6

-----------------------------------------------------------------------------
(* One firing, seen by the race.                                           *)

LEMMA DrawsOfEach ==
  ASSUME model \in Models, NEW d \in Draws, NEW u \in Trans
  PROVE  d[u] \in T(u).draws
BY DEF Draws, DrawsOf, T

(* The names of Race, in those of Scheduler.  (Zenon: the translation to    *)
(* SMT does not tell two CASE expressions apart.)                           *)
LEMMA SameTerms ==
  ASSUME NEW t \in Trans, NEW s, NEW l
  PROVE  /\ Abstract!Speed(t) = SpeedIn(t, store)
         /\ Abstract!Lifetimes(t, s, l) = LifetimesIn(t, s, l)
         /\ Abstract!Running(t) <=> Enabled(t, store) \/ T(t).policy = "continue"
BY Zenon DEF Abstract!Speed, Abstract!Running, Abstract!Enabled, Abstract!T,
             Abstract!Lifetimes, Abstract!InSource, SpeedIn, LifetimesIn, Enabled, InSource, T

LEMMA ElapsedIsLeft ==
  ASSUME Inv, RateInv, status = "running", NEW u \in Trans, NEW now \in 0..TMax
  PROVE  /\ Abstract!Elapsed(u, now - time) = SlotLeft(slots[u], now)
         /\ SlotLeft(slots[u], time) = None <=> SlotLeft(slots[u], now) = None
         /\ Left(u) = SlotLeft(slots[u], time)
<1>1. /\ model \in Models /\ store \in Store /\ slots[u] \in Slot /\ time \in 0..TMax
      /\ Sound(u, slots[u]) /\ Fits(u, store, slots[u]) /\ RateIsPresent(u, store, slots[u])
  BY DEF Inv, RateInv, TypeOK
<1>2. Left(u) = SlotLeft(slots[u], time)
  BY LeftIsSlotLeft
<1>3. Abstract!Elapsed(u, now - time)
        = IF SlotLeft(slots[u], time) = None THEN None
          ELSE SlotLeft(slots[u], time) - SpeedIn(u, store) * (now - time)
  BY <1>2, SameTerms DEF Abstract!Elapsed
<1>4. SlotLeft(slots[u], now)
        = IF SlotLeft(slots[u], time) = None THEN None
          ELSE SlotLeft(slots[u], time) - SpeedIn(u, store) * (now - time)
  BY BeforeNever, <1>1, LeftElapses
<1>5. SlotLeft(slots[u], time) = None <=> SlotLeft(slots[u], now) = None
  BY BeforeNever, <1>1, LeftIsNumber
<1> QED BY <1>2, <1>3, <1>4, <1>5

LEMMA FireRefines ==
  ASSUME Inv, RateInv, status = "running", NEW t \in Trans, NEW now \in 0..TMax, time <= now,
         \A u \in Trans \ {t} : slots[u].date # None => now <= slots[u].date,
         Fire(t, now), status' = "running", time' = now, model' = model
  PROVE  /\ \E to \in T(t).targets : store' = Abstract!After(t, to)
         /\ \A u \in Trans :
              Left(u)' \in Abstract!Lifetimes(u, store',
                             IF u = t THEN None ELSE Abstract!Elapsed(u, now - time))
         /\ RateInv'
<1> DEFINE cleared == [slots EXCEPT ![t] = SourceLeft(@)]
<1>1. /\ model \in Models /\ store \in Store /\ slots \in [Trans -> Slot] /\ wave \in Nat
      /\ time \in 0..TMax /\ wave + 1 \in Nat
      /\ \A u \in Trans : Sound(u, slots[u]) /\ Timely(slots[u], time)
  BY DEF Inv, TypeOK
<1>2. /\ cleared \in [Trans -> Slot]
      /\ \A u \in Trans : Sound(u, cleared[u]) /\ Timely(cleared[u], now)
  BY BeforeNever, <1>1, ClearedSchedule
<1>3. PICK to \in T(t).targets : \E d \in Draws :
        /\ store' = Written(t, Moved(t, to, store))
        /\ slots' = RefreshSchedule(cleared, store', now, wave + 1, d)
  <2>1. ~Chatters(t)
    BY DEF Fire
  <2> QED BY <2>1 DEF Fire
<1>4. PICK d \in Draws : slots' = RefreshSchedule(cleared, store', now, wave + 1, d)
  BY <1>3
<1>5. store' \in Store
  BY <1>1, <1>3, FiredStore
<1>6. store' = Abstract!After(t, to)
  <2>1. T(t).aut \in Loc /\ store \in [Loc -> Value]
    BY <1>1, TransFacts DEF TransDef, Store
  <2>2. Moved(t, to, store) = [l \in Loc |-> IF l = T(t).aut THEN to ELSE store[l]]
    BY <2>1 DEF Moved
  <2> QED BY <1>3, <2>2 DEF Written, Abstract!After, Abstract!T, T
<1>7. ASSUME NEW u \in Trans
      PROVE  /\ cleared[u] \in Slot
             /\ SlotLeft(cleared[u], now)
                  = IF u = t THEN None ELSE Abstract!Elapsed(u, now - time)
  <2>1. CASE u = t
    <3>1. cleared[u] = SourceLeft(slots[u]) /\ slots[u] \in Slot
      BY <1>1, <2>1
    <3> HIDE DEF cleared
    <3> QED BY <2>1, <3>1, SourceLeftSlot, NothingLeft
  <2>2. CASE u # t
    <3>1. cleared[u] = slots[u] /\ slots[u] \in Slot
      BY <1>1, <2>2
    <3> HIDE DEF cleared
    <3> QED BY <2>2, <3>1, ElapsedIsLeft
  <2> QED BY <2>1, <2>2
<1> HIDE DEF cleared
<1>8. ASSUME NEW u \in Trans
      PROVE  /\ SlotLeft(slots'[u], now)
                  \in LifetimesIn(u, store', IF u = t THEN None ELSE Abstract!Elapsed(u, now - time))
             /\ RateIsPresent(u, store', slots'[u])
  <2>1. slots'[u] = Refreshed(u, cleared[u], store', now, wave + 1, d[u])
    BY <1>4 DEF RefreshSchedule
  <2>2. d[u] \in T(u).draws
    BY <1>1, DrawsOfEach
  <2> QED BY BeforeNever, <1>1, <1>2, <1>5, <1>7, <2>1, <2>2, RefreshedLeft
<1>9. ASSUME NEW u \in Trans
      PROVE  Left(u)' = SlotLeft(slots'[u], now)
  BY DEF Left, HazardLeft, SlotLeft, HazardIn
<1>10. RateInv'
  BY <1>8 DEF RateInv, RateIsPresent, T
<1> QED BY <1>6, <1>8, <1>9, <1>10, SameTerms

-----------------------------------------------------------------------------
(* The steps.                                                              *)

LEMMA MustFireIsImmediate ==
  ASSUME NEW t \in Trans
  PROVE  Abstract!MustFire(t) <=> t \in Immediate
BY DEF Abstract!MustFire, Abstract!InSource, Abstract!Enabled, Abstract!T,
       Immediate, Watched, InSource, Enabled, T

(* Nothing is overrun up to an instant that no date is before.              *)
LEMMA NothingOverrun ==
  ASSUME Inv, RateInv, status = "running", NEW now \in 0..TMax, time <= now,
         NEW u \in Trans, slots[u].date # None => now <= slots[u].date
  PROVE  /\ Timely(slots[u], now)
         /\ Left(u) # None => Left(u) >= Abstract!Speed(u) * (now - time)
<1>1. /\ model \in Models /\ store \in Store /\ slots[u] \in Slot /\ time \in 0..TMax
      /\ Sound(u, slots[u]) /\ Fits(u, store, slots[u]) /\ RateIsPresent(u, store, slots[u])
      /\ Timely(slots[u], time)
  BY DEF Inv, RateInv, TypeOK
<1>2. Timely(slots[u], now)
  <2>1. slots[u].hazard # None => slots[u].hazard.since \in Nat
    BY <1>1 DEF Slot, Hazard
  <2>2. time \in Nat /\ now \in Nat
    BY <1>1, SchedulerAssumption
  <2>3. slots[u].date # None => slots[u].date \in Int
    BY <1>1 DEF Slot
  <2> QED BY <1>1, <2>1, <2>2, <2>3 DEF Timely
<1>3. ASSUME Left(u) # None
      PROVE  Left(u) >= Abstract!Speed(u) * (now - time)
  <2> DEFINE before == SlotLeft(slots[u], time)
             after == SlotLeft(slots[u], now)
             lost == Abstract!Speed(u) * (now - time)
  <2>1. before # None /\ after # None /\ Left(u) = before
    BY <1>3, ElapsedIsLeft
  <2>2. after = before - lost
    BY BeforeNever, <1>1, <2>1, LeftElapses, SameTerms
  <2>3. before \in Int /\ after \in Int /\ after >= 0
    BY BeforeNever, <1>1, <1>2, <2>1, LeftIsNumber, LeftNotNegative
  <2>4. lost \in Int
    <3>1. Abstract!Speed(u) \in Nat /\ now - time \in Int
      BY <1>1, SameTerms, SpeedIsNat, SchedulerAssumption
    <3> QED BY <3>1
  <2> HIDE DEF before, after, lost
  <2>5. before >= lost
    BY <2>2, <2>3, <2>4
  <2> QED BY <2>1, <2>5 DEF lost
<1> QED BY <1>2, <1>3

(* An error of the run is a failure of the race.                            *)
LEMMA ErrorFails ==
  ASSUME status = "running", status' # "running", model' = model
  PROVE  Abstract!Fail
BY DEF Abstract!Fail

(* A firing that keeps the run going is an event of the race.               *)
LEMMA FireIsEvent ==
  ASSUME Inv, RateInv, status = "running", NEW t \in Trans, NEW now \in 0..TMax, time <= now,
         \A u \in Trans : slots[u].date # None => now <= slots[u].date,
         Fire(t, now), status' = "running", time' = now, model' = model,
         now > time => Immediate = {},
         \/ Abstract!Expires(t, now - time)
         \/ now = time /\ t \in Immediate
  PROVE  Abstract!Next /\ RateInv'
<1>1. time \in Nat /\ now \in Nat /\ TMax \in Nat
  BY SchedulerAssumption DEF Inv, TypeOK
<1> DEFINE d == now - time
<1>2. d \in 0..TMax /\ now = time + d /\ (d > 0 => now > time) /\ (now = time => d = 0)
  BY <1>1
<1>3. /\ \E to \in T(t).targets : store' = Abstract!After(t, to)
      /\ \A u \in Trans :
           Left(u)' \in Abstract!Lifetimes(u, store', IF u = t THEN None ELSE Abstract!Elapsed(u, d))
      /\ RateInv'
  BY FireRefines
<1>4. Abstract!MayElapse(d)
  <2>1. \A u \in Trans : Left(u) # None => Left(u) >= Abstract!Speed(u) * d
    BY NothingOverrun
  <2>2. d > 0 => ~\E u \in Trans : Abstract!MustFire(u)
    BY <1>2, MustFireIsImmediate
  <2> HIDE DEF d
  <2> QED BY <2>1, <2>2 DEF Abstract!MayElapse, Abstract!Trans, Trans
<1>5. Abstract!Expires(t, d) \/ (d = 0 /\ Abstract!MustFire(t))
  BY <1>2, MustFireIsImmediate
<1> HIDE DEF d
<1>6. Abstract!Event(t, d)
  BY <1>2, <1>3, <1>4, <1>5 DEF Abstract!Event, Abstract!T, T, Abstract!Trans, Trans
<1> QED BY <1>2, <1>3, <1>6 DEF Abstract!Next, Abstract!Trans, Trans

LEMMA WatchedRefines ==
  ASSUME Inv, RateInv, NEW t \in Trans, StepWatched(t)
  PROVE  Abstract!Next /\ RateInv'
<1>1. /\ status = "running" /\ t \in Immediate /\ model' = model /\ time' = time
      /\ time \in 0..TMax
  BY DEF StepWatched, FireWatched, WatchedFiring, MayStep, Inv, TypeOK
<1>2. CASE status' # "running"
  <2>1. Abstract!Fail
    BY <1>1, <1>2, ErrorFails
  <2> QED BY <1>2, <2>1 DEF Abstract!Next, RateInv
<1>3. CASE status' = "running"
  <2>1. Fire(t, time)
    BY <1>1, <1>3 DEF StepWatched, FireWatched, WatchedFiring
  <2>2. \A u \in Trans : slots[u].date # None => time <= slots[u].date
    BY <1>1, SchedulerAssumption DEF Inv, TypeOK, Timely, Slot
  <2>3. time <= time /\ ~(time > time)
    BY <1>1, SchedulerAssumption
  <2> QED BY <1>1, <1>3, <2>1, <2>2, <2>3, FireIsEvent
<1> QED BY <1>2, <1>3

(* A date within the horizon is the instant where nothing is left.          *)
LEMMA DueHasNothingLeft ==
  ASSUME Inv, RateInv, DatesAreExact, status = "running", NEW t \in Trans,
         slots[t].date # None, slots[t].date \in 0..TMax
  PROVE  Abstract!Expires(t, slots[t].date - time)
<1> DEFINE slot == slots[t]
           now == slots[t].date
<1>1. /\ slot \in Slot /\ Sound(t, slot) /\ Fits(t, store, slot) /\ Timely(slot, time)
      /\ now \in Nat
  BY SchedulerAssumption DEF Inv, TypeOK
<1>2. SlotLeft(slot, now) = 0
  <2>1. CASE slot.hazard = None
    BY <1>1, <2>1 DEF SlotLeft
  <2>2. CASE slot.hazard # None
    <3>1. slot.hazard \in Hazard /\ slot.hazard.since \in Nat /\ slot.hazard.rate \in Nat
      BY <1>1, <2>2 DEF Slot, Hazard
    <3>2. slot.hazard.rate > 0
      <4>1. now = HazardDate(slot.hazard, slot.hazard.since)
        BY <1>1, <2>2 DEF Timely
      <4>2. now < Never
        BY <1>1, SchedulerAssumption
      <4> QED BY <3>1, <4>1, <4>2, SchedulerAssumption DEF HazardDate
    <3>3. slot.hazard.rate * (now - slot.hazard.since)
            = slot.hazard.threshold - slot.hazard.accumulated
      BY <2>2, <3>2 DEF DatesAreExact
    <3>4. /\ Bank(slot.hazard, now).threshold = slot.hazard.threshold
          /\ Bank(slot.hazard, now).accumulated
               = slot.hazard.accumulated + slot.hazard.rate * (now - slot.hazard.since)
      BY <1>1, <3>1, BankFields
    <3>5. slot.hazard.threshold \in Int /\ slot.hazard.accumulated \in Int
      BY <3>1 DEF Hazard
    <3>6. Bank(slot.hazard, now).threshold - Bank(slot.hazard, now).accumulated = 0
      BY <3>3, <3>4, <3>5
    <3> QED BY <2>2, <3>6 DEF SlotLeft, HazardIn
  <2> QED BY <2>1, <2>2
<1>3. Enabled(t, store) \/ T(t).policy = "continue"
  BY <1>1 DEF Fits
<1>4. Left(t) # None
  <2>1. 0 # None
    BY NoneFacts
  <2> QED BY <1>2, <2>1, ElapsedIsLeft
<1>5. Abstract!Elapsed(t, now - time) = 0
  BY <1>2, ElapsedIsLeft
<1> HIDE DEF now
<1>6. Abstract!Expires(t, now - time)
  BY <1>3, <1>4, <1>5, SameTerms DEF Abstract!Expires
<1> QED BY <1>6 DEF now

LEMMA DatedRefines ==
  ASSUME Inv, RateInv, DatesAreExact, NEW t \in Trans, StepDated(t)
  PROVE  Abstract!Next /\ RateInv'
<1>1. /\ status = "running" /\ IsNext(t) /\ time \in 0..TMax /\ slots \in [Trans -> Slot]
      /\ model' = model /\ slots[t].date <= TMax /\ Immediate = {}
      /\ Fire(t, time') /\ time' = Later(slots[t].date, time)
  BY DEF StepDated, FireDated, MayStep, Inv, TypeOK
<1>2. slots[t].date \in Int /\ slots[t].date >= time /\ slots[t].date # None
  BY <1>1 DEF IsNext, Scheduled, Inv, Timely, Slot
<1>3. time' = slots[t].date /\ time' \in 0..TMax /\ time <= time'
  BY <1>1, <1>2, SchedulerAssumption DEF Later
<1>4. \A u \in Trans : slots[u].date # None => time' <= slots[u].date
  BY <1>1, <1>2, <1>3 DEF IsNext, Scheduled, Slot
<1>5. Abstract!Expires(t, time' - time)
  BY <1>1, <1>2, <1>3, DueHasNothingLeft
<1>6. CASE status' # "running"
  <2>1. Abstract!Fail
    BY <1>1, <1>6, ErrorFails
  <2> QED BY <1>6, <2>1 DEF Abstract!Next, RateInv
<1>7. CASE status' = "running"
  <2> DEFINE now == time'
  <2>1. now \in 0..TMax /\ time <= now /\ Fire(t, now) /\ time' = now
        /\ Abstract!Expires(t, now - time)
        /\ \A u \in Trans : slots[u].date # None => now <= slots[u].date
    BY <1>1, <1>3, <1>4, <1>5
  <2> HIDE DEF now
  <2> QED BY <1>1, <1>7, <2>1, FireIsEvent
<1> QED BY <1>6, <1>7

LEMMA EndRefines ==
  ASSUME Inv, RateInv, TargetStopsClock, EndRun
  PROVE  Abstract!Next /\ RateInv'
<1>1. /\ status = "running" /\ status' = "ended" /\ UNCHANGED <<model, store, slots>>
      /\ NothingWithin(TMax) \/ (seqEnd # None /\ ~StillDue)
      /\ time' = IF seqEnd # None THEN seqEnd.at ELSE TMax
  BY DEF EndRun
<1>2. /\ time \in 0..TMax /\ time \in Nat /\ slots \in [Trans -> Slot]
      /\ seqEnd # None => time = seqEnd.at
  BY <1>1, SchedulerAssumption DEF Inv, TypeOK, TargetStopsClock
<1> DEFINE now == time'
           d == now - time
<1>3. now \in 0..TMax /\ time <= now /\ d \in 0..TMax /\ time' = time + d
  BY <1>1, <1>2, SchedulerAssumption
<1>4. \A u \in Trans : slots[u].date # None => now <= slots[u].date
  <2>1. CASE seqEnd # None
    <3>1. now = time
      BY <1>1, <1>2, <2>1
    <3> QED BY <1>1, <1>2, <3>1 DEF Inv, Timely, Slot
  <2>2. CASE seqEnd = None
    BY <1>1, <1>2, <2>2, SchedulerAssumption DEF NothingWithin, Scheduled, Slot
  <2> QED BY <2>1, <2>2
<1> HIDE DEF now
<1>5. \A u \in Trans : Left(u) # None => Left(u) >= Abstract!Speed(u) * d
  BY <1>1, <1>3, <1>4, NothingOverrun
<1>6. ASSUME NEW u \in Trans
      PROVE  Left(u)' = Abstract!Elapsed(u, d)
  <2>1. Left(u)' = SlotLeft(slots[u], now)
    BY <1>1 DEF Left, HazardLeft, SlotLeft, HazardIn, now
  <2> QED BY <1>1, <1>3, <2>1, ElapsedIsLeft
<1> HIDE DEF d
<1>7. Abstract!Return(d)
  BY <1>1, <1>3, <1>5, <1>6 DEF Abstract!Return, Abstract!Trans, Trans
<1> QED BY <1>1, <1>3, <1>7 DEF Abstract!Next, RateInv

LEMMA InitRefines ==
  ASSUME Init
  PROVE  Abstract!Init /\ RateInv
<1>1. /\ model \in Models /\ store = ModelOf[model].init /\ time = 0 /\ status = "running"
      /\ store \in Store /\ 0 \in 0..TMax
  BY SchedulerAssumption DEF Init, Model
<1>2. PICK d \in Draws : slots = RefreshSchedule([t \in Trans |-> Blank], store, 0, 0, d)
  BY DEF Init
<1>3. ASSUME NEW t \in Trans
      PROVE  /\ SlotLeft(slots[t], 0) \in LifetimesIn(t, store, None)
             /\ RateIsPresent(t, store, slots[t])
  <2>1. slots[t] = Refreshed(t, Blank, store, 0, 0, d[t])
    BY <1>2 DEF RefreshSchedule
  <2>2. Blank \in Slot /\ Sound(t, Blank) /\ Timely(Blank, 0) /\ SlotLeft(Blank, 0) = None
    BY DEF Blank, Slot, Sound, Timely, SlotLeft
  <2>3. d[t] \in T(t).draws
    BY <1>1, DrawsOfEach
  <2> QED BY BeforeNever, <1>1, <2>1, <2>2, <2>3, RefreshedLeft
<1>4. \A t \in Trans : Left(t) \in Abstract!Lifetimes(t, store, None)
  BY <1>1, <1>3, LeftIsSlotLeft, SameTerms
<1> QED BY <1>1, <1>3, <1>4
     DEF Abstract!Init, Abstract!Trans, Trans, Models, RateInv

LEMMA StepRefines ==
  ASSUME Inv, RateInv, TargetStopsClock, DatesAreExact, [Next]_vars
  PROVE  [Abstract!Next]_(Abstract!vars) /\ RateInv'
<1>1. CASE UNCHANGED vars
  BY <1>1 DEF vars, Abstract!vars, Left, HazardLeft, Bank, RateInv, RateIsPresent, T
<1>2. CASE Next
  BY <1>2, WatchedRefines, DatedRefines, EndRefines DEF Next, Step
<1> QED BY <1>1, <1>2

(* However often a transition is paused, re-dated or banked on the way, it  *)
(* fires after exactly the lifetime it drew when it was enabled, and no     *)
(* event in between is overrun: every run of the scheduler is a run of the  *)
(* race of lifetimes, for every model, horizon and cap.  The hypothesis     *)
(* sets aside only the runs where a hazard would reach its threshold        *)
(* between two of the model's whole instants.                               *)
THEOREM RaceTheorem == Spec /\ []DatesAreExact => ImplementsRace
<1>1. Init => Abstract!Init /\ RateInv
  BY InitRefines
<1>2. Inv /\ RateInv /\ TargetStopsClock /\ DatesAreExact /\ [Next]_vars
        => [Abstract!Next]_(Abstract!vars) /\ RateInv'
  BY StepRefines
<1> QED BY <1>1, <1>2, Invariant, TargetTheorem, PTL DEF Spec, ImplementsRace, Abstract!Spec
=============================================================================
