---------------------------- MODULE CallerProofs ----------------------------
(***************************************************************************)
(* Proofs about the two kinds of caller, for every compiled model, horizon, *)
(* cap and set of inputs.  Interactive: whatever calls are mixed, the      *)
(* schedule stays the one of the state, and a date is overtaken only where *)
(* the caller asked for it.  Exposure: the tally of a transition is the    *)
(* time it spent armed.                                                    *)
(***************************************************************************)
EXTENDS Interactive, Exposure, SchedulerProofs

-----------------------------------------------------------------------------
(* The inductive invariant.  A schedule that was written by the caller may  *)
(* be late, so what holds of a late one is separated from what does not.    *)

(* What a trajectory is, wherever it is kept.                               *)
Kept(s, sl) ==
  /\ s \in Store /\ sl \in [Trans -> Slot]
  /\ \A t \in Trans : Sound(t, sl[t]) /\ Fits(t, s, sl[t])

Clocked(now, w) == now \in 0..(Never - 1) /\ w \in Nat

(* Unless the caller passed a date over, or moved the date of a running     *)
(* hazard, nothing is late.                                                 *)
OnTime(now, sl, passed, moved) ==
  ~passed /\ ~moved => \A t \in Trans : Timely(sl[t], now)

SavedInv ==
  saved # None =>
    /\ Kept(saved.store, saved.slots) /\ Clocked(saved.time, saved.wave)
    /\ OnTime(saved.time, saved.slots, saved.passedOver, saved.overruled)

LiveInv ==
  /\ status \in {"running", "ended"} => Kept(store, slots)
  /\ status = "running" => Clocked(time, wave) /\ OnTime(time, slots, passedOver, overruled)

IInv == model \in Models /\ bound \in 0..TMax \cup {None} /\ LiveInv /\ SavedInv

-----------------------------------------------------------------------------
(* The refresh of a slot that may be late.                                  *)

LEMMA HazardDateIsInt ==
  ASSUME NEW h \in Hazard, NEW now \in Nat
  PROVE  HazardDate(h, now) \in Int
<1>1. h.threshold - h.accumulated \in Int /\ h.rate \in Nat
  BY DEF Hazard
<1>2. h.rate > 0 => (h.threshold - h.accumulated) \div h.rate \in Int
  BY <1>1
<1> QED BY <1>1, <1>2, SchedulerAssumption DEF HazardDate

LEMMA BankIsHazard ==
  ASSUME NEW h \in Hazard, NEW now \in Nat
  PROVE  Bank(h, now) \in Hazard
<1> DEFINE total == h.accumulated + h.rate * (now - h.since)
<1>1. total \in Int
  <2>1. h.rate * (now - h.since) \in Int /\ h.accumulated \in Int
    BY DEF Hazard
  <2> QED BY <2>1
<1>2. Bank(h, now) = [h EXCEPT !.accumulated = total, !.since = now]
  BY Zenon DEF Bank
<1> HIDE DEF total
<1> QED BY <1>1, <1>2 DEF Hazard

LEMMA NoneIsNoNumber == None \notin Int /\ None \notin Hazard
BY SchedulerAssumption DEF Hazard

(* A slot armed at a date with a hazard, for a rate.                        *)
LEMMA HazardSlot ==
  ASSUME NEW t \in Trans, NEW s \in Store, NEW slot \in Slot, NEW h \in Hazard,
         NEW date \in Int, NEW w \in Nat, slot.frozen = None, T(t).law = "rate",
         InSource(t, s), Enabled(t, s) \/ T(t).policy = "continue"
  PROVE  LET r == Arm([slot EXCEPT !.hazard = h], date, w)
         IN  r \in Slot /\ Sound(t, r) /\ Fits(t, s, r)
<1> DEFINE x == [slot EXCEPT !.hazard = h]
           r == Arm(x, date, w)
<1>1. x \in Slot /\ x.frozen = None /\ x.hazard = h
  BY WithHazard
<1> HIDE DEF x
<1>2. r \in Slot /\ r.date = date /\ r.frozen = None /\ r.hazard = h
  BY <1>1, ArmFields
<1> HIDE DEF r
<1>3. r.date # None /\ r.hazard # None
  BY <1>2, NoneIsNoNumber
<1>4. Sound(t, r) /\ Fits(t, s, r)
  BY <1>2, <1>3 DEF Sound, Fits, Watched
<1> QED BY <1>2, <1>4 DEF r, x

LEMMA ArmedFits ==
  ASSUME model \in Models, NEW t \in Trans, NEW s \in Store, NEW now \in Nat,
         NEW w \in Nat, NEW d \in Nat, NEW slot \in Slot,
         ~Watched(t), InSource(t, s), Enabled(t, s), slot.date = None, Sound(t, slot)
  PROVE  LET r == Armed(t, slot, s, now, w, d)
         IN  r \in Slot /\ Sound(t, r) /\ Fits(t, s, r)
<1> DEFINE r == Armed(t, slot, s, now, w, d)
<1>1. CASE T(t).law = "rate"
  <2> DEFINE fresh == [threshold |-> d, accumulated |-> 0, rate |-> T(t).rate[s], since |-> now]
             h == IF slot.hazard = None THEN fresh
                  ELSE [slot.hazard EXCEPT !.rate = T(t).rate[s], !.since = now]
  <2>1. r = Arm([slot EXCEPT !.hazard = h], HazardDate(h, now), w)
    BY <1>1 DEF Armed
  <2>2. T(t).rate[s] \in Nat
    BY TransFacts DEF TransDef
  <2>3. h \in Hazard
    <3>1. CASE slot.hazard = None
      BY <2>2, <3>1 DEF Hazard
    <3>2. CASE slot.hazard # None
      <4>1. slot.hazard \in Hazard
        BY <3>2 DEF Slot
      <4> QED BY <2>2, <3>2, <4>1 DEF Hazard
    <3> QED BY <3>1, <3>2
  <2>4. slot.frozen = None
    BY <1>1 DEF Sound
  <2> HIDE DEF h, r
  <2>5. HazardDate(h, now) \in Int
    BY <2>3, HazardDateIsInt
  <2> QED BY <1>1, <2>1, <2>3, <2>4, <2>5, HazardSlot DEF r
<1>2. CASE T(t).law # "rate"
  <2>1. T(t).law = "dated" /\ slot.hazard = None
    BY <1>2, TransFacts DEF Watched, TransDef, Sound
  <2>2. \E x \in Slot, date \in Int : r = Arm(x, date, w) /\ x.frozen = None /\ x.hazard = None
    <3>1. CASE slot.frozen # None
      <4>1. r = Arm([slot EXCEPT !.frozen = None], now + slot.frozen, w)
        BY <2>1, <3>1 DEF Armed
      <4> DEFINE date == now + slot.frozen
                 thawed == [slot EXCEPT !.frozen = None]
      <4>2. date \in Int /\ thawed \in Slot /\ thawed.frozen = None /\ thawed.hazard = None
        <5>1. slot.frozen \in Int
          BY <3>1 DEF Slot
        <5>2. date \in Int
          BY <5>1
        <5> QED BY <2>1, <5>2, Thawed
      <4> HIDE DEF r, date, thawed
      <4>3. r = Arm(thawed, date, w)
        BY <4>1 DEF date, thawed
      <4> QED BY <4>2, <4>3
    <3>2. CASE slot.frozen = None
      <4>1. r = Arm(slot, now + d, w)
        BY <2>1, <3>2 DEF Armed
      <4>2. now + d \in Int
        OBVIOUS
      <4> HIDE DEF r
      <4> QED BY <2>1, <3>2, <4>1, <4>2
    <3> QED BY <3>1, <3>2
  <2> HIDE DEF r
  <2>3. r \in Slot /\ r.date # None /\ r.frozen = None /\ r.hazard = None
    BY <2>2, ArmFields, NoneIsNoNumber
  <2> QED BY <2>1, <2>3 DEF r, Sound, Fits, Watched
<1> QED BY <1>1, <1>2

LEMMA InterruptedFits ==
  ASSUME model \in Models, NEW t \in Trans, NEW s \in Store, NEW now \in Nat, NEW slot \in Slot,
         ~Watched(t), InSource(t, s), ~Enabled(t, s), slot.date # None,
         T(t).policy # "continue", Sound(t, slot)
  PROVE  LET r == Interrupted(t, slot, now)
         IN  r \in Slot /\ Sound(t, r) /\ Fits(t, s, r)
<1> DEFINE r == Interrupted(t, slot, now)
<1>1. slot.frozen = None /\ slot.date \in Int
  BY DEF Sound, Slot
<1>2. CASE T(t).policy # "resume"
  <2>1. r = [slot EXCEPT !.date = None, !.hazard = None]
    BY <1>2 DEF Interrupted
  <2> HIDE DEF r
  <2>2. r \in Slot /\ r.date = None /\ r.frozen = None /\ r.hazard = None
    BY <2>1, <1>1 DEF Slot
  <2> QED BY <2>2 DEF r, Sound, Fits
<1>3. CASE T(t).policy = "resume" /\ slot.hazard # None
  <2> DEFINE b == Bank(slot.hazard, now)
  <2>1. b \in Hazard
    <3>1. slot.hazard \in Hazard
      BY <1>3 DEF Slot
    <3> QED BY <3>1, BankIsHazard
  <2> HIDE DEF b
  <2>2. r = [slot EXCEPT !.date = None, !.hazard = b]
    BY <1>3 DEF Interrupted, b
  <2> HIDE DEF r
  <2>3. r \in Slot /\ r.date = None /\ r.frozen = None /\ r.hazard = b
    BY <2>1, <2>2, <1>1 DEF Slot
  <2>4. T(t).law = "rate"
    BY <1>3 DEF Sound
  <2> QED BY <1>3, <2>3, <2>4 DEF r, Sound, Fits, Watched
<1>4. CASE T(t).policy = "resume" /\ slot.hazard = None
  <2>1. r = [slot EXCEPT !.date = None, !.frozen = slot.date - now]
    BY <1>4 DEF Interrupted
  <2>2. slot.date - now \in Int
    BY <1>1
  <2> HIDE DEF r
  <2>3. r \in Slot /\ r.date = None /\ r.frozen = slot.date - now /\ r.hazard = None
    BY <2>1, <2>2, <1>4 DEF Slot
  <2>4. T(t).law = "dated"
    BY <1>4, TransFacts DEF Sound, Watched, TransDef
  <2> QED BY <1>4, <2>3, <2>4 DEF r, Sound, Fits, Watched
<1> QED BY <1>2, <1>3, <1>4

LEMMA RescheduledFits ==
  ASSUME model \in Models, NEW t \in Trans, NEW s \in Store, NEW now \in Nat,
         NEW w \in Nat, NEW slot \in Slot,
         ~Watched(t), InSource(t, s), slot.date # None,
         Enabled(t, s) \/ T(t).policy = "continue", Sound(t, slot)
  PROVE  LET r == Rescheduled(t, slot, s, now, w)
         IN  r \in Slot /\ Sound(t, r) /\ Fits(t, s, r)
<1> DEFINE r == Rescheduled(t, slot, s, now, w)
<1>1. slot.frozen = None
  BY DEF Sound
<1>2. CASE slot.hazard = None \/ T(t).rate[s] = slot.hazard.rate
  <2>1. r = slot
    BY <1>2 DEF Rescheduled
  <2> HIDE DEF r
  <2> QED BY <2>1, <1>1 DEF r, Fits
<1>3. CASE slot.hazard # None /\ T(t).rate[s] # slot.hazard.rate
  <2> DEFINE b == Bank(slot.hazard, now)
             h == [b EXCEPT !.rate = T(t).rate[s]]
  <2>1. T(t).rate[s] \in Nat /\ T(t).law = "rate"
    BY <1>3, TransFacts DEF TransDef, Sound
  <2>2. b \in Hazard
    <3>1. slot.hazard \in Hazard
      BY <1>3 DEF Slot
    <3> QED BY <3>1, BankIsHazard
  <2>3. h \in Hazard
    <3> HIDE DEF b
    <3> QED BY <2>1, <2>2 DEF Hazard
  <2>4. r = Arm([slot EXCEPT !.hazard = h], HazardDate(h, now), w)
    BY <1>3 DEF Rescheduled
  <2> HIDE DEF h, r
  <2>5. HazardDate(h, now) \in Int
    BY <2>3, HazardDateIsInt
  <2> QED BY <1>1, <2>1, <2>3, <2>4, <2>5, HazardSlot DEF r
<1> QED BY <1>2, <1>3

(* Late or not, a refreshed slot is sound and fits the state.               *)
LEMMA RefreshedFits ==
  ASSUME model \in Models, NEW t \in Trans, NEW s \in Store, NEW now \in Nat,
         NEW w \in Nat, NEW d \in Nat, NEW slot \in Slot, Sound(t, slot)
  PROVE  LET r == Refreshed(t, slot, s, now, w, d)
         IN  r \in Slot /\ Sound(t, r) /\ Fits(t, s, r)
<1> DEFINE r == Refreshed(t, slot, s, now, w, d)
<1>1. CASE Watched(t)
  <2>1. r = slot
    BY <1>1 DEF Refreshed
  <2> HIDE DEF r
  <2> QED BY <2>1, <1>1 DEF r, Sound, Fits
<1>2. CASE ~Watched(t) /\ ~InSource(t, s)
  <2>1. r = SourceLeft(slot)
    BY <1>2 DEF Refreshed
  <2> HIDE DEF r
  <2>2. r \in Slot /\ r.date = None /\ r.frozen = None /\ r.hazard = None
    BY <2>1, SourceLeftSlot
  <2> QED BY <1>2, <2>2 DEF r, Sound, Fits
<1>3. CASE /\ ~Watched(t) /\ InSource(t, s) /\ slot.date # None
           /\ ~(Enabled(t, s) \/ T(t).policy = "continue")
  <2>1. r = Interrupted(t, slot, now)
    BY <1>3 DEF Refreshed
  <2> HIDE DEF r
  <2> QED BY <1>3, <2>1, InterruptedFits DEF r
<1>4. CASE /\ ~Watched(t) /\ InSource(t, s) /\ slot.date # None
           /\ Enabled(t, s) \/ T(t).policy = "continue"
  <2>1. r = Rescheduled(t, slot, s, now, w)
    BY <1>4 DEF Refreshed
  <2> HIDE DEF r
  <2> QED BY <1>4, <2>1, RescheduledFits DEF r
<1>5. CASE ~Watched(t) /\ InSource(t, s) /\ slot.date = None /\ Enabled(t, s)
  <2>1. r = Armed(t, slot, s, now, w, d)
    BY <1>5 DEF Refreshed
  <2> HIDE DEF r
  <2> QED BY <1>5, <2>1, ArmedFits DEF r
<1>6. CASE ~Watched(t) /\ InSource(t, s) /\ slot.date = None /\ ~Enabled(t, s)
  <2>1. r = slot
    BY <1>6 DEF Refreshed
  <2> HIDE DEF r
  <2> QED BY <1>6, <2>1 DEF r, Fits
<1> QED BY <1>1, <1>2, <1>3, <1>4, <1>5, <1>6

(* The refresh of a whole schedule, late or not.                            *)
LEMMA RefreshKeeps ==
  ASSUME model \in Models, NEW old \in [Trans -> Slot], NEW s \in Store,
         NEW now \in 0..Never, NEW w \in Nat, NEW d \in Draws,
         \A u \in Trans : Sound(u, old[u])
  PROVE  LET new == RefreshSchedule(old, s, now, w, d)
         IN  /\ Kept(s, new)
             /\ (\A u \in Trans : Timely(old[u], now)) => \A u \in Trans : Timely(new[u], now)
<1> DEFINE new == RefreshSchedule(old, s, now, w, d)
<1>1. \A u \in Trans : new[u] \in Slot /\ Sound(u, new[u]) /\ Fits(u, s, new[u])
  <2> SUFFICES ASSUME NEW u \in Trans
               PROVE  new[u] \in Slot /\ Sound(u, new[u]) /\ Fits(u, s, new[u])
    OBVIOUS
  <2>1. new[u] = Refreshed(u, old[u], s, now, w, d[u])
    BY DEF RefreshSchedule
  <2>2. d[u] \in Nat /\ old[u] \in Slot /\ now \in Nat
    BY DrawsAreNat, SchedulerAssumption
  <2> HIDE DEF new
  <2> QED BY <2>1, <2>2, RefreshedFits
<1>2. new \in [Trans -> Slot]
  <2>1. new = [u \in Trans |-> Refreshed(u, old[u], s, now, w, d[u])]
    BY DEF RefreshSchedule
  <2> QED BY <1>1, <2>1
<1>3. (\A u \in Trans : Timely(old[u], now)) => \A u \in Trans : Timely(new[u], now)
  BY RefreshedSchedule
<1> HIDE DEF new
<1>4. Kept(s, new)
  BY <1>1, <1>2 DEF Kept
<1> QED BY <1>3, <1>4 DEF new

-----------------------------------------------------------------------------
(* One firing.                                                             *)

LEMMA FireKeeps ==
  ASSUME model \in Models, Kept(store, slots), wave \in Nat, status = "running",
         NEW t \in Trans, NEW now \in 0..Never, Fire(t, now), status' = "running"
  PROVE  /\ Kept(store', slots') /\ wave' \in Nat
         /\ (\A u \in Trans \ {t} : Timely(slots[u], now)) =>
              \A u \in Trans : Timely(slots'[u], now)
<1> DEFINE cleared == [slots EXCEPT ![t] = SourceLeft(@)]
<1>1. store \in Store /\ slots \in [Trans -> Slot] /\ \A u \in Trans : Sound(u, slots[u])
  BY DEF Kept
<1>2. PICK to \in T(t).targets : \E d \in Draws :
        /\ store' = Written(t, Moved(t, to, store))
        /\ slots' = RefreshSchedule(cleared, store', now, wave + 1, d)
  <2>1. ~Chatters(t)
    BY DEF Fire
  <2> QED BY <2>1 DEF Fire
<1>3. PICK d \in Draws : slots' = RefreshSchedule(cleared, store', now, wave + 1, d)
  BY <1>2
<1>4. store' \in Store
  BY <1>1, <1>2, FiredStore
<1>5. wave' = wave + 1 /\ wave + 1 \in Nat
  BY DEF Fire
<1>6. /\ cleared \in [Trans -> Slot]
      /\ \A u \in Trans : Sound(u, cleared[u])
      /\ (\A u \in Trans \ {t} : Timely(slots[u], now)) => \A u \in Trans : Timely(cleared[u], now)
  <2>1. cleared \in [Trans -> Slot] /\ cleared[t] = SourceLeft(slots[t]) /\ slots[t] \in Slot
        /\ \A u \in Trans \ {t} : cleared[u] = slots[u]
    BY <1>1, SourceLeftSlot
  <2>2. cleared[t].date = None /\ cleared[t].frozen = None /\ cleared[t].hazard = None
    BY <2>1, SourceLeftSlot
  <2> HIDE DEF cleared
  <2>3. Sound(t, cleared[t]) /\ Timely(cleared[t], now)
    BY <2>2 DEF Sound, Timely
  <2> QED BY <1>1, <2>1, <2>3
<1> HIDE DEF cleared
<1> QED BY <1>3, <1>4, <1>5, <1>6, RefreshKeeps

(* Where no date is before, what is on time stays so.                       *)
LEMMA TimelyLater ==
  ASSUME NEW slot \in Slot, NEW now \in Nat, NEW later \in Nat, now <= later,
         Timely(slot, now), slot.date # None => later <= slot.date
  PROVE  Timely(slot, later)
<1>1. slot.hazard # None => slot.hazard.since \in Nat
  BY DEF Slot, Hazard
<1>2. slot.date # None => slot.date \in Int
  BY DEF Slot
<1> QED BY <1>1, <1>2 DEF Timely

(* A step that keeps the model keeps what is said of a trajectory.          *)
LEMMA KeptAgain ==
  ASSUME model' = model
  PROVE  Kept(store, slots)' <=> Kept(store', slots')
BY Reread DEF Kept

LEMMA TimelyAgain ==
  ASSUME NEW u \in Trans
  PROVE  Timely(slots[u], time)' <=> Timely(slots'[u], time')
BY DEF Timely, HazardDate

LEMMA SavedAgain ==
  ASSUME model' = model, saved' = saved, SavedInv
  PROVE  SavedInv'
BY DEF SavedInv, Kept, Clocked, OnTime, Sound, Fits, Timely, HazardDate, T, InSource, Enabled, Watched

-----------------------------------------------------------------------------
(* The steps.                                                              *)

(* What the invariant says of a running engine.                             *)
LEMMA RunningFacts ==
  ASSUME IInv, status = "running"
  PROVE  /\ model \in Models /\ Kept(store, slots) /\ wave \in Nat
         /\ time \in 0..(Never - 1) /\ time \in Nat /\ time \in 0..Never
         /\ store \in Store /\ slots \in [Trans -> Slot]
         /\ \A u \in Trans : slots[u].date # None => slots[u].date \in Int
         /\ ~passedOver /\ ~overruled => \A u \in Trans : Timely(slots[u], time)
<1>1. /\ model \in Models /\ Kept(store, slots) /\ wave \in Nat /\ time \in 0..(Never - 1)
      /\ ~passedOver /\ ~overruled => \A u \in Trans : Timely(slots[u], time)
  BY DEF IInv, LiveInv, Clocked, OnTime
<1>2. store \in Store /\ slots \in [Trans -> Slot]
  BY <1>1 DEF Kept
<1>3. \A u \in Trans : slots[u].date # None => slots[u].date \in Int
  BY <1>2 DEF Slot
<1>4. time \in Nat /\ time \in 0..Never
  BY <1>1, SchedulerAssumption
<1> QED BY <1>1, <1>2, <1>3, <1>4

(* To conclude that a running trajectory is still one.                      *)
LEMMA LiveAgain ==
  ASSUME model' = model, status' = "running", Kept(store', slots'), wave' \in Nat,
         time' \in 0..(Never - 1),
         ~passedOver' /\ ~overruled' => \A u \in Trans : Timely(slots'[u], time')
  PROVE  LiveInv'
<1>1. Kept(store, slots)'
  BY KeptAgain
<1>2. ~passedOver' /\ ~overruled' => \A u \in Trans : Timely(slots[u], time)'
  BY TimelyAgain
<1> QED BY <1>1, <1>2 DEF LiveInv, Clocked, OnTime

LEMMA FireAtKeeps ==
  ASSUME IInv, status = "running", NEW t \in Trans, NEW now \in 0..(Never - 1), time <= now,
         Fire(t, now), time' = now, model' = model,
         ~passedOver' /\ ~overruled' =>
           /\ ~passedOver /\ ~overruled
           /\ \A u \in Trans \ {t} : slots[u].date # None => now <= slots[u].date
  PROVE  LiveInv'
<1>1. now \in 0..Never /\ now \in Nat
  BY SchedulerAssumption
<1>2. CASE status' # "running"
  <2>1. status' = "TransitionChattering"
    BY <1>2 DEF Fire
  <2> QED BY <2>1 DEF LiveInv
<1>3. CASE status' = "running"
  <2>1. /\ Kept(store', slots') /\ wave' \in Nat
        /\ (\A u \in Trans \ {t} : Timely(slots[u], now)) =>
             \A u \in Trans : Timely(slots'[u], now)
    BY <1>1, <1>3, RunningFacts, FireKeeps
  <2>2. ASSUME ~passedOver', ~overruled'
        PROVE  \A u \in Trans : Timely(slots'[u], now)
    <3>1. \A u \in Trans \ {t} : /\ slots[u] \in Slot /\ Timely(slots[u], time) /\ time \in Nat
                                 /\ slots[u].date # None => now <= slots[u].date
      BY <2>2, RunningFacts
    <3>2. \A u \in Trans \ {t} : Timely(slots[u], now)
      BY <1>1, <3>1, TimelyLater
    <3> QED BY <2>1, <3>2
  <2> QED BY <1>3, <2>1, <2>2, LiveAgain
<1> QED BY <1>2, <1>3

LEMMA WatchedFiringKeeps ==
  ASSUME IInv, status = "running", NEW t \in Trans, WatchedFiring(t),
         UNCHANGED <<passedOver, overruled>>
  PROVE  LiveInv'
<1>1. CASE NextStreak.count > WatchedLimit
  <2>1. status' = "WatchedLoop"
    BY <1>1 DEF WatchedFiring
  <2> QED BY <2>1 DEF LiveInv
<1>2. CASE ~(NextStreak.count > WatchedLimit)
  <2>1. Fire(t, time) /\ time' = time /\ model' = model
    BY <1>2 DEF WatchedFiring
  <2>2. time \in 0..(Never - 1) /\ time <= time
    BY RunningFacts
  <2>3. ~passedOver /\ ~overruled =>
          \A u \in Trans \ {t} : slots[u].date # None => time <= slots[u].date
    BY RunningFacts DEF Timely
  <2> QED BY <2>1, <2>2, <2>3, FireAtKeeps
<1> QED BY <1>1, <1>2

LEMMA FireDatedKeeps ==
  ASSUME IInv, status = "running", NEW t \in Trans, NEW horizon \in 0..TMax,
         FireDated(t, horizon), UNCHANGED <<passedOver, overruled>>
  PROVE  LiveInv'
<1>1. /\ t \in Scheduled /\ slots[t].date <= horizon /\ model' = model
      /\ \A u \in Scheduled \ {t} : slots[t].date <= slots[u].date
      /\ time' = Later(slots[t].date, time) /\ Fire(t, time')
  <2>1. IsNext(t) /\ slots[t].date <= horizon /\ time' = Later(slots[t].date, time)
        /\ Fire(t, time') /\ model' = model
    BY DEF FireDated
  <2>2. t \in Scheduled /\ \A u \in Scheduled \ {t} : slots[t].date < slots[u].date
                                                      \/ slots[t].date = slots[u].date
    BY <2>1 DEF IsNext
  <2>3. \A u \in Scheduled : slots[u].date \in Int
    BY RunningFacts DEF Scheduled
  <2> QED BY <2>1, <2>2, <2>3
<1>2. slots[t].date \in Int /\ slots[t].date # None
  BY <1>1, RunningFacts DEF Scheduled
<1> DEFINE now == time'
<1>3. now \in 0..(Never - 1) /\ time <= now
  BY <1>1, <1>2, RunningFacts, SchedulerAssumption DEF Later
<1>4. ASSUME ~passedOver, ~overruled
      PROVE  \A u \in Trans \ {t} : slots[u].date # None => now <= slots[u].date
  <2>1. Timely(slots[t], time)
    BY <1>4, RunningFacts
  <2>2. now = slots[t].date
    BY <1>1, <1>2, <2>1, RunningFacts DEF Later, Timely
  <2> QED BY <1>1, <2>2 DEF Scheduled
<1>5. Fire(t, now) /\ time' = now /\ model' = model
  BY <1>1
<1> HIDE DEF now
<1> QED BY <1>3, <1>4, <1>5, FireAtKeeps

LEMMA StepKeeps ==
  ASSUME IInv, status = "running", NEW horizon \in 0..TMax, StepWithin(horizon),
         UNCHANGED <<passedOver, overruled>>
  PROVE  LiveInv' /\ model' = model
<1>1. PICK t \in Trans : FireWatched(t) \/ FireDated(t, horizon)
  BY DEF StepWithin
<1>2. CASE FireWatched(t)
  BY <1>2, WatchedFiringKeeps DEF FireWatched, WatchedFiring
<1>3. CASE FireDated(t, horizon)
  BY <1>3, FireDatedKeeps DEF FireDated
<1> QED BY <1>1, <1>2, <1>3

(* The clock alone moves, to a date that nothing is before.                 *)
LEMMA MoveClockKeeps ==
  ASSUME IInv, status = "running", NEW date \in 0..TMax, NothingWithin(date), MoveClock(date),
         UNCHANGED <<passedOver, overruled>>
  PROVE  LiveInv' /\ model' = model
<1>1. /\ model' = model /\ store' = store /\ slots' = slots /\ wave' = wave /\ status' = status
      /\ time' = Later(time, date)
  BY DEF MoveClock
<1> DEFINE now == time'
<1>2. now \in 0..(Never - 1) /\ time <= now /\ now \in Nat
  BY <1>1, RunningFacts, SchedulerAssumption DEF Later
<1>3. ASSUME ~passedOver, ~overruled
      PROVE  \A u \in Trans : Timely(slots[u], now)
  <2>1. \A u \in Trans : slots[u].date # None => date < slots[u].date /\ time <= slots[u].date
    BY <1>3, RunningFacts DEF NothingWithin, Scheduled, Timely
  <2>2. \A u \in Trans : slots[u].date # None => now <= slots[u].date
    BY <1>1, <2>1, RunningFacts DEF Later
  <2>3. \A u \in Trans : slots[u] \in Slot /\ Timely(slots[u], time) /\ time \in Nat
    BY <1>3, RunningFacts
  <2> HIDE DEF now
  <2> QED BY <1>2, <2>2, <2>3, TimelyLater
<1> QED BY <1>1, <1>2, <1>3, RunningFacts, LiveAgain

-----------------------------------------------------------------------------
(* The calls.  Each keeps the invariant; those that only step leave what    *)
(* the caller holds alone.                                                  *)

LEMMA StepCallKeeps ==
  ASSUME IInv, StepCall
  PROVE  IInv'
<1>1. /\ status = "running" /\ StepWithin(TMax) /\ TMax \in 0..TMax
      /\ UNCHANGED <<bound, saved, passedOver, overruled>>
  BY SchedulerAssumption DEF StepCall, Ready
<1>2. LiveInv' /\ model' = model
  BY <1>1, StepKeeps
<1> QED BY <1>1, <1>2, SavedAgain DEF IInv

LEMMA StepUntilKeeps ==
  ASSUME IInv, NEW date \in Dates, StepUntil(date)
  PROVE  IInv'
<1>1. /\ status = "running" /\ date \in 0..TMax
      /\ StepWithin(date) \/ (NothingWithin(date) /\ MoveClock(date))
      /\ UNCHANGED <<bound, saved, passedOver, overruled>>
  BY SchedulerAssumption DEF StepUntil, Ready, Dates
<1>2. LiveInv' /\ model' = model
  BY <1>1, StepKeeps, MoveClockKeeps
<1> QED BY <1>1, <1>2, SavedAgain DEF IInv

LEMMA AdvanceStepKeeps ==
  ASSUME IInv, AdvanceStep
  PROVE  IInv'
<1>1. /\ status = "running" /\ bound \in 0..TMax /\ StepWithin(bound)
      /\ bound' \in {bound, None} /\ UNCHANGED <<saved, passedOver, overruled>>
  BY DEF AdvanceStep, IInv
<1>2. LiveInv' /\ model' = model
  BY <1>1, StepKeeps
<1> QED BY <1>1, <1>2, SavedAgain DEF IInv

LEMMA AdvanceReturnKeeps ==
  ASSUME IInv, AdvanceReturn
  PROVE  IInv'
<1>1. /\ status = "running" /\ bound \in 0..TMax /\ NothingWithin(bound) /\ MoveClock(bound)
      /\ bound' = None /\ UNCHANGED <<saved, passedOver, overruled>>
  BY DEF AdvanceReturn, IInv
<1>2. LiveInv' /\ model' = model
  BY <1>1, MoveClockKeeps
<1> QED BY <1>1, <1>2, SavedAgain DEF IInv

(* What leaves the engine alone.                                            *)
LEMMA EngineAlone ==
  ASSUME IInv, UNCHANGED <<model, engine, passedOver, overruled>>
  PROVE  LiveInv'
BY DEF IInv, LiveInv, engine, Kept, Clocked, OnTime, Sound, Fits, Timely, HazardDate,
       T, InSource, Enabled, Watched

LEMMA AdvanceToKeeps ==
  ASSUME IInv, NEW date \in Dates, AdvanceTo(date)
  PROVE  IInv'
<1>1. /\ UNCHANGED <<model, engine, saved, passedOver, overruled>>
      /\ bound' = date /\ date \in 0..TMax
  BY SchedulerAssumption DEF AdvanceTo, Dates
<1> QED BY <1>1, EngineAlone, SavedAgain DEF IInv

LEMMA HandOverKeeps ==
  ASSUME IInv, HandOver
  PROVE  IInv'
<1>1. UNCHANGED <<model, engine, bound, saved, passedOver, overruled>>
  BY DEF HandOver
<1> QED BY <1>1, EngineAlone, SavedAgain DEF IInv

LEMMA SetInputKeeps ==
  ASSUME IInv, NEW l \in Inputs, NEW v \in Value, SetInput(l, v)
  PROVE  IInv'
<1>1. /\ status = "running" /\ status' = status /\ model' = model /\ time' = time /\ wave' = wave
      /\ store' = [store EXCEPT ![l] = v]
      /\ bound' = Reaction /\ UNCHANGED <<saved, passedOver, overruled>>
  BY DEF SetInput, Ready
<1>2. PICK d \in Draws : slots' = RefreshSchedule(slots, store', time, wave, d)
  BY DEF SetInput
<1>3. store' \in Store
  BY <1>1, RunningFacts DEF Store
<1>4. /\ Kept(store', slots')
      /\ (\A u \in Trans : Timely(slots[u], time)) => \A u \in Trans : Timely(slots'[u], time)
  <2>1. \A u \in Trans : Sound(u, slots[u])
    BY <1>1, RunningFacts DEF Kept
  <2> QED BY <1>1, <1>2, <1>3, <2>1, RunningFacts, RefreshKeeps
<1>5. LiveInv'
  BY <1>1, <1>4, RunningFacts, LiveAgain
<1>6. bound' \in 0..TMax \cup {None}
  BY <1>1, RunningFacts, SchedulerAssumption DEF Reaction
<1> QED BY <1>1, <1>5, <1>6, SavedAgain DEF IInv

LEMMA SetDateKeeps ==
  ASSUME IInv, NEW t \in Trans, NEW date \in Dates, SetDate(t, date)
  PROVE  IInv'
<1>1. /\ status = "running" /\ status' = status /\ model' = model /\ time' = time /\ wave' = wave
      /\ store' = store /\ slots' = [slots EXCEPT ![t].date = date]
      /\ t \in Scheduled /\ time <= date
      /\ overruled' = (overruled \/ slots[t].hazard # None)
      /\ UNCHANGED <<bound, saved, passedOver>>
  BY DEF SetDate, Ready
<1>2. date \in Int /\ date # None
  BY SchedulerAssumption DEF Dates
<1>3. slots \in [Trans -> Slot] /\ slots[t].date # None
  BY <1>1, RunningFacts DEF Scheduled
<1>4. \A u \in Trans \ {t} : slots'[u] = slots[u]
  BY <1>1, <1>3
<1> DEFINE slot == slots[t]
           r == [slot EXCEPT !.date = date]
<1>5. slots'[t] = r
  BY <1>1, <1>3
<1>6. r \in Slot /\ r.date = date /\ r.frozen = slot.frozen /\ r.hazard = slot.hazard
  <2>1. slot \in Slot
    BY <1>3
  <2> HIDE DEF slot
  <2> QED BY <1>2, <2>1 DEF Slot
<1>7. Sound(t, slot) /\ Fits(t, store, slot) /\ slot.date # None
  BY <1>1, <1>3, RunningFacts DEF Kept
<1> HIDE DEF r, slot
<1>8. Sound(t, r) /\ Fits(t, store, r)
  BY <1>2, <1>6, <1>7 DEF Sound, Fits
<1>9. slots' \in [Trans -> Slot]
  BY <1>1, <1>3, <1>4, <1>5, <1>6
<1>10. Kept(store', slots')
  BY <1>1, <1>4, <1>5, <1>8, <1>9, RunningFacts DEF Kept
<1>11. ASSUME ~passedOver', ~overruled'
       PROVE  \A u \in Trans : Timely(slots'[u], time)
  <2>1. ~passedOver /\ ~overruled /\ slot.hazard = None
    BY <1>1, <1>11 DEF slot
  <2>2. \A u \in Trans : Timely(slots[u], time)
    BY <1>1, <2>1, RunningFacts
  <2>3. Timely(r, time)
    BY <1>1, <1>2, <1>6, <1>7, <2>1, <2>2 DEF Timely, slot, Sound
  <2> QED BY <1>4, <1>5, <2>2, <2>3
<1>12. LiveInv'
  BY <1>1, <1>10, <1>11, RunningFacts, LiveAgain
<1> QED BY <1>1, <1>12, SavedAgain DEF IInv

LEMMA FireIdxKeeps ==
  ASSUME IInv, NEW t \in Trans, FireIdx(t)
  PROVE  IInv'
<1>1. /\ status = "running" /\ UNCHANGED <<bound, saved, overruled>>
      /\ FireIdxDated(t) \/ (WatchedFiring(t) /\ UNCHANGED passedOver)
  BY DEF FireIdx, Ready
<1>2. CASE WatchedFiring(t) /\ UNCHANGED passedOver
  BY <1>1, <1>2, WatchedFiringKeeps, SavedAgain DEF IInv, WatchedFiring
<1>3. CASE FireIdxDated(t)
  <2>1. /\ t \in Scheduled /\ slots[t].date < Never /\ model' = model
        /\ time' = Later(slots[t].date, time) /\ Fire(t, time')
        /\ passedOver' = (passedOver \/ \E u \in Scheduled \ {t} : slots[u].date < time')
    BY <1>3 DEF FireIdxDated
  <2>2. slots[t].date \in Int
    BY <1>1, <2>1, RunningFacts DEF Scheduled
  <2> DEFINE now == time'
  <2>3. now \in 0..(Never - 1) /\ time <= now
    BY <1>1, <2>1, <2>2, RunningFacts, SchedulerAssumption DEF Later
  <2>4. ~passedOver' => ~passedOver
    BY <2>1
  <2>5. ASSUME ~passedOver'
        PROVE  \A u \in Trans \ {t} : slots[u].date # None => now <= slots[u].date
    <3>1. \A u \in Scheduled \ {t} : ~(slots[u].date < now) /\ slots[u].date \in Int
      BY <1>1, <2>1, <2>5, RunningFacts DEF Scheduled
    <3> HIDE DEF now
    <3> QED BY <2>3, <3>1 DEF Scheduled
  <2>6. Fire(t, now) /\ time' = now
    BY <2>1
  <2> HIDE DEF now
  <2>7. LiveInv'
    BY <1>1, <2>1, <2>3, <2>4, <2>5, <2>6, FireAtKeeps
  <2> QED BY <1>1, <2>1, <2>7, SavedAgain DEF IInv
<1> QED BY <1>1, <1>2, <1>3

LEMMA FireNowKeeps ==
  ASSUME IInv, NEW t \in Trans, FireNow(t)
  PROVE  IInv'
<1>1. /\ status = "running" /\ UNCHANGED <<bound, saved, passedOver, overruled>>
      /\ \/ t \in Scheduled /\ Fire(t, time) /\ UNCHANGED <<model, time, streak>>
         \/ t \in Immediate /\ WatchedFiring(t)
  BY DEF FireNow, Ready
<1>2. CASE WatchedFiring(t)
  BY <1>1, <1>2, WatchedFiringKeeps, SavedAgain DEF IInv, WatchedFiring
<1>3. CASE Fire(t, time) /\ UNCHANGED <<model, time, streak>>
  <2>1. time \in 0..(Never - 1) /\ time <= time
    BY <1>1, RunningFacts
  <2>2. ~passedOver /\ ~overruled =>
          \A u \in Trans \ {t} : slots[u].date # None => time <= slots[u].date
    BY <1>1, RunningFacts DEF Timely
  <2>3. LiveInv'
    BY <1>1, <1>3, <2>1, <2>2, FireAtKeeps
  <2> QED BY <1>1, <1>3, <2>3, SavedAgain DEF IInv
<1> QED BY <1>1, <1>2, <1>3

LEMMA SnapshotKeeps ==
  ASSUME IInv, Snapshot
  PROVE  IInv'
<1>1. /\ status = "running" /\ UNCHANGED <<model, engine, bound, passedOver, overruled>>
      /\ saved' = [store |-> store, time |-> time, slots |-> slots, wave |-> wave,
                   streak |-> streak, firings |-> firings, seqEnd |-> seqEnd,
                   passedOver |-> passedOver, overruled |-> overruled]
  BY DEF Snapshot, Ready
<1>2. LiveInv'
  BY <1>1, EngineAlone
<1>3. /\ saved'.store = store' /\ saved'.slots = slots' /\ saved'.time = time'
      /\ saved'.wave = wave' /\ saved'.passedOver = passedOver' /\ saved'.overruled = overruled'
  BY <1>1 DEF engine
<1>4. status' = "running"
  BY <1>1 DEF engine
<1>5. SavedInv'
  BY <1>2, <1>3, <1>4 DEF LiveInv, SavedInv
<1> QED BY <1>1, <1>2, <1>5 DEF IInv

LEMMA RestoreKeeps ==
  ASSUME IInv, Restore
  PROVE  IInv'
<1>1. /\ saved # None /\ UNCHANGED <<model, bound, saved>> /\ status' = "running"
      /\ store' = saved.store /\ time' = saved.time /\ slots' = saved.slots /\ wave' = saved.wave
      /\ passedOver' = saved.passedOver /\ overruled' = saved.overruled
  BY DEF Restore
<1>2. /\ Kept(saved.store, saved.slots) /\ Clocked(saved.time, saved.wave)
      /\ OnTime(saved.time, saved.slots, saved.passedOver, saved.overruled)
  BY <1>1 DEF IInv, SavedInv
<1>3. LiveInv'
  BY <1>1, <1>2, LiveAgain DEF Clocked, OnTime
<1> QED BY <1>1, <1>3, SavedAgain DEF IInv

(* A schedule refreshed from nothing.                                       *)
LEMMA FreshSchedule ==
  ASSUME model \in Models, NEW d \in Draws, NEW s, s = ModelOf[model].init
  PROVE  LET new == RefreshSchedule([t \in Trans |-> Blank], s, 0, 0, d)
         IN  Kept(s, new) /\ \A u \in Trans : Timely(new[u], 0)
<1> DEFINE blank == [t \in Trans |-> Blank]
<1>1. s \in Store /\ 0 \in 0..Never
  BY SchedulerAssumption DEF Model
<1>2. /\ blank \in [Trans -> Slot]
      /\ \A t \in Trans : Sound(t, blank[t]) /\ Timely(blank[t], 0)
  BY DEF Blank, Slot, Sound, Timely
<1> HIDE DEF blank
<1>3. LET new == RefreshSchedule(blank, s, 0, 0, d)
      IN  Kept(s, new) /\ \A u \in Trans : Timely(new[u], 0)
  BY <1>1, <1>2, RefreshKeeps
<1> QED BY <1>3 DEF blank

LEMMA ResetKeeps ==
  ASSUME IInv, Reset
  PROVE  IInv'
<1>1. /\ model \in Models /\ UNCHANGED <<model, bound, saved>> /\ status' = "running"
      /\ store' = ModelOf[model].init /\ time' = 0 /\ wave' = 0
  BY DEF Reset, IInv
<1>2. PICK d \in Draws : slots' = RefreshSchedule([t \in Trans |-> Blank], store', 0, 0, d)
  BY DEF Reset
<1>3. Kept(store', slots') /\ \A u \in Trans : Timely(slots'[u], 0)
  BY <1>1, <1>2, FreshSchedule
<1>4. 0 \in 0..(Never - 1)
  BY SchedulerAssumption
<1>5. LiveInv'
  BY <1>1, <1>3, <1>4, LiveAgain
<1> QED BY <1>1, <1>5, SavedAgain DEF IInv

LEMMA RunOnKeeps ==
  ASSUME IInv, RunOn
  PROVE  IInv'
<1>1. Next /\ UNCHANGED <<bound, saved, passedOver, overruled>>
  BY DEF RunOn, caller
<1>2. TMax \in 0..TMax
  BY SchedulerAssumption
<1>3. ASSUME NEW t \in Trans, StepWatched(t) \/ StepDated(t)
      PROVE  LiveInv' /\ model' = model
  <2>1. status = "running" /\ StepWithin(TMax)
    BY <1>3 DEF StepWatched, StepDated, MayStep, StepWithin
  <2> QED BY <1>1, <1>2, <2>1, StepKeeps
<1>4. ASSUME EndRun
      PROVE  LiveInv' /\ model' = model
  <2>1. /\ status = "running" /\ status' = "ended" /\ UNCHANGED <<model, store, slots>>
    BY <1>4 DEF EndRun
  <2>2. Kept(store', slots')
    BY <2>1, RunningFacts
  <2> QED BY <2>1, <2>2, KeptAgain DEF LiveInv
<1>5. LiveInv' /\ model' = model
  BY <1>1, <1>3, <1>4 DEF Next, Step
<1> QED BY <1>1, <1>5, SavedAgain DEF IInv

LEMMA IInitInv == IInit => IInv
<1> SUFFICES ASSUME IInit PROVE IInv
  OBVIOUS
<1>1. /\ model \in Models /\ store = ModelOf[model].init /\ time = 0 /\ wave = 0
      /\ status = "running" /\ bound = None /\ saved = None
  BY DEF IInit, Init
<1>2. PICK d \in Draws : slots = RefreshSchedule([t \in Trans |-> Blank], store, 0, 0, d)
  BY DEF IInit, Init
<1>3. Kept(store, slots) /\ \A u \in Trans : Timely(slots[u], 0)
  BY <1>1, <1>2, FreshSchedule
<1>4. 0 \in 0..(Never - 1)
  BY SchedulerAssumption
<1> QED BY <1>1, <1>3, <1>4 DEF IInv, LiveInv, SavedInv, Clocked, OnTime

(* The inductive invariant holds in every reachable state.                  *)
THEOREM InteractiveInvariant == ISpec => []IInv
<1>1. IInv /\ [INext]_ivars => IInv'
  <2> SUFFICES ASSUME IInv, [INext]_ivars PROVE IInv'
    OBVIOUS
  <2>1. CASE UNCHANGED ivars
    <3>1. UNCHANGED <<model, engine, bound, saved, passedOver, overruled>>
      BY <2>1 DEF ivars, caller
    <3> QED BY <3>1, EngineAlone, SavedAgain DEF IInv
  <2>2. CASE Calling
    BY <2>2, StepCallKeeps, SnapshotKeeps, RestoreKeeps, ResetKeeps, HandOverKeeps,
       StepUntilKeeps, AdvanceToKeeps, SetInputKeeps, FireIdxKeeps, FireNowKeeps, SetDateKeeps
       DEF Calling
  <2>3. CASE Advancing
    BY <2>3, AdvanceStepKeeps, AdvanceReturnKeeps DEF Advancing
  <2>4. CASE RunOn
    BY <2>4, RunOnKeeps
  <2> QED BY <2>1, <2>2, <2>3, <2>4 DEF INext
<1> QED BY <1>1, IInitInv, PTL DEF ISpec

(* Whatever the caller mixes, saves and restores, the schedule stays the    *)
(* one of the state.                                                        *)
THEOREM InteractiveSchedule == ISpec => []ScheduleMatchesState
<1>1. IInv => ScheduleMatchesState
  BY DEF IInv, LiveInv, Kept, ScheduleMatchesState, Sound, Fits
<1> QED BY <1>1, InteractiveInvariant, PTL

(* A date is left behind only by a `fire_idx` past it, or by a `set_date`   *)
(* on a running hazard.                                                     *)
THEOREM OverdueTheorem == ISpec => []OverdueOnlyByCaller
<1>1. IInv => OverdueOnlyByCaller
  BY DEF IInv, LiveInv, OnTime, OverdueOnlyByCaller, Timely, Scheduled
<1> QED BY <1>1, InteractiveInvariant, PTL

-----------------------------------------------------------------------------
(* The tally.  Its invariant: that of the scheduler, which the calls made   *)
(* between its steps keep as well, and an exact tally.  The schedule enters *)
(* by `Fits`: it is what makes a refresh leave armed what stays enabled.    *)
Tallied ==
  /\ tally \in [Trans -> Int] /\ lived \in [Trans -> Int] /\ since \in Int
  /\ \A t \in Trans : ~Turned(t) => Exact(t)

XInv == Inv /\ Tallied

(* The stretch of a transition is additive while its slot stays.            *)
LEMMA StretchType ==
  ASSUME NEW t \in Trans, NEW a \in Int, NEW b \in Int
  PROVE  Stretch(t, a, b) \in Int
BY DEF Stretch

LEMMA StretchAdds ==
  ASSUME NEW t \in Trans, NEW a \in Int, NEW b \in Int, NEW c \in Int
  PROVE  Stretch(t, a, b) + Stretch(t, b, c) = Stretch(t, a, c)
BY DEF Stretch

LEMMA InvFacts ==
  ASSUME Inv
  PROVE  /\ model \in Models /\ store \in Store /\ slots \in [Trans -> Slot]
         /\ time \in 0..TMax /\ time \in Int /\ time \in 0..Never /\ wave \in Nat
         /\ seqEnd \in [cause : Nat, at : 0..TMax] \cup {None}
BY BeforeNever DEF Inv, TypeOK

-----------------------------------------------------------------------------
(* The steps of the run.                                                   *)

(* A step that accrues leaves every tally exact at the instant it reaches,  *)
(* whatever it does to the schedule: the stretches are those of the old one.*)
LEMMA AccrueKeeps ==
  ASSUME Inv, Tallied, status = "running", NEW u, Accrue(u, time'), Live, model' = model,
         time' \in Int
  PROVE  Tallied'
<1>1. /\ tally \in [Trans -> Int] /\ lived \in [Trans -> Int] /\ since \in Int /\ time \in Int
  BY InvFacts DEF Tallied
<1>2. /\ tally' = [t \in Trans |-> tally[t] + Stretch(t, since, time')] /\ since' = time'
      /\ lived' = [t \in Trans |-> lived[t] + Stretch(t, time, time')]
  BY DEF Accrue, Live
<1>3. tally' \in [Trans -> Int] /\ lived' \in [Trans -> Int] /\ since' \in Int
  BY <1>1, <1>2, StretchType
<1>4. ASSUME NEW t \in Trans, ~Turned(t)'
      PROVE  Exact(t)'
  <2>1. ~Turned(t)
    BY <1>4 DEF Turned, T
  <2>2. tally[t] + Stretch(t, since, time) = lived[t]
    BY <2>1 DEF Tallied, Exact, Exposed
  <2>3. /\ Stretch(t, since, time) + Stretch(t, time, time') = Stretch(t, since, time')
        /\ Stretch(t, since, time) \in Int /\ Stretch(t, time, time') \in Int
        /\ Stretch(t, since, time') \in Int
    BY <1>1, StretchAdds, StretchType
  <2>4. tally'[t] = lived'[t]
    <3>1. tally'[t] = tally[t] + Stretch(t, since, time') /\ lived'[t] = lived[t] + Stretch(t, time, time')
      BY <1>2
    <3>2. tally[t] \in Int /\ lived[t] \in Int
      BY <1>1
    <3> QED BY <2>2, <2>3, <3>1, <3>2
  <2>5. Stretch(t, since, time)' = 0
    <3>1. time' - since' = 0
      <4>1. \A n \in Int : n - n = 0
        OBVIOUS
      <4>2. since' = time'
        BY <1>2
      <4> QED BY <4>1, <4>2, Zenon
    <3> QED BY <3>1 DEF Stretch
  <2> QED BY <1>3, <2>4, <2>5 DEF Exact, Exposed
<1> QED BY <1>3, <1>4 DEF Tallied

(* A step that ends in an error leaves nothing to ask.                      *)
LEMMA LoopKeeps ==
  ASSUME Inv, Tallied, Live, time' \in Int, UNCHANGED <<tally, since>>,
         status' \notin {"running", "ended"}
  PROVE  Tallied'
<1>1. lived' \in [Trans -> Int]
  BY InvFacts, StretchType DEF Tallied, Live
<1> QED BY <1>1 DEF Tallied, Exact

LEMMA RunKeeps ==
  ASSUME XInv, NEW t \in Trans, XStepDated(t) \/ XStepWatched(t) \/ XEndRun
  PROVE  XInv'
<1>1. Inv'
  BY WatchedInv, DatedInv, EndInv
     DEF XInv, XStepDated, XStepWatched, XEndRun, StepDated, StepWatched, MayStep
<1>2. status = "running" /\ model' = model
  BY DEF XStepDated, XStepWatched, XEndRun, StepDated, StepWatched, MayStep, FireDated, FireWatched,
         WatchedFiring, EndRun
<1>3. time' \in Int
  BY <1>1 DEF Inv, TypeOK
<1>4. Tallied'
  <2>1. CASE XStepWatched(t) /\ status' = "WatchedLoop"
    BY <1>3, <2>1, LoopKeeps DEF XStepWatched, XInv
  <2>2. CASE ~(XStepWatched(t) /\ status' = "WatchedLoop")
    <3>1. Live /\ \E u : Accrue(u, time')
      BY <2>2 DEF XStepDated, XStepWatched, XEndRun
    <3> QED BY <1>2, <1>3, <3>1, AccrueKeeps DEF XInv
  <2> QED BY <2>1, <2>2
<1> QED BY <1>1, <1>4 DEF XInv

-----------------------------------------------------------------------------
(* The calls between two steps.                                            *)

LEMMA AdvanceInv ==
  ASSUME Inv, NEW date \in 1..TMax, XAdvanceTo(date)
  PROVE  Inv'
<1>1. /\ status = "running" /\ status' = status /\ time' = date /\ time < date
      /\ streak' = [at |-> date, count |-> 0]
      /\ UNCHANGED <<model, store, slots, wave, firings, seqEnd>>
      /\ \A u \in Scheduled : slots[u].date > date
  BY DEF XAdvanceTo, NothingWithin
<1>2. TypeOK'
  BY <1>1, SchedulerAssumption DEF Inv, TypeOK
<1>3. \A u \in Trans : Timely(slots[u], time)'
  <2> SUFFICES ASSUME NEW u \in Trans PROVE Timely(slots[u], time)'
    OBVIOUS
  <2>1. Timely(slots[u], time) /\ slots[u] \in Slot /\ time \in Int
    BY <1>1, InvFacts DEF Inv
  <2>2. slots[u].date # None => slots[u].date \in Int /\ slots[u].date > date
    BY <1>1, <2>1 DEF Scheduled, Slot
  <2>3. slots[u].hazard # None => slots[u].hazard.since \in Nat
    BY <2>1 DEF Slot, Hazard
  <2> QED BY <1>1, <2>1, <2>2, <2>3 DEF Timely, HazardDate
<1>4. \A u \in Trans : Sound(u, slots[u])' /\ Fits(u, store, slots[u])'
  BY <1>1 DEF Inv, Sound, Fits, T, InSource, Enabled, Watched
<1> QED BY <1>1, <1>2, <1>3, <1>4, SchedulerAssumption DEF Inv

LEMMA AdvanceKeeps ==
  ASSUME XInv, NEW date \in 1..TMax, XAdvanceTo(date)
  PROVE  XInv'
<1>1. Inv'
  BY AdvanceInv DEF XInv
<1>2. /\ status = "running" /\ time' = date /\ Live /\ model' = model
      /\ UNCHANGED <<slots, tally, since>>
  BY DEF XAdvanceTo
<1>3. /\ tally \in [Trans -> Int] /\ lived \in [Trans -> Int] /\ since \in Int /\ time \in Int
      /\ time' \in Int
  BY <1>2, InvFacts DEF XInv, Tallied
<1>4. lived' = [t \in Trans |-> lived[t] + Stretch(t, time, time')] /\ lived' \in [Trans -> Int]
  <2>1. lived' = [t \in Trans |-> lived[t] + Stretch(t, time, time')]
    BY <1>2 DEF Live
  <2> QED BY <1>3, <2>1, StretchType
<1>5. ASSUME NEW t \in Trans, ~Turned(t)'
      PROVE  Exact(t)'
  <2>1. ~Turned(t)
    BY <1>2, <1>5 DEF Turned, T
  <2>2. tally[t] + Stretch(t, since, time) = lived[t]
    BY <1>2, <2>1 DEF XInv, Tallied, Exact, Exposed
  <2>3. /\ Stretch(t, since, time) + Stretch(t, time, time') = Stretch(t, since, time')
        /\ Stretch(t, since, time) \in Int /\ Stretch(t, time, time') \in Int
        /\ Stretch(t, since, time') \in Int /\ tally[t] \in Int /\ lived[t] \in Int
    BY <1>3, StretchAdds, StretchType
  <2>4. tally[t] + Stretch(t, since, time') = lived'[t]
    BY <1>4, <2>2, <2>3
  <2>5. Stretch(t, since, time)' = Stretch(t, since, time')
    BY <1>2 DEF Stretch
  <2> QED BY <1>2, <2>4, <2>5 DEF Exact, Exposed
<1> QED BY <1>1, <1>2, <1>3, <1>4, <1>5 DEF XInv, Tallied

(* A refresh on a state where a transition is in its source, and enabled,   *)
(* as it was, leaves it armed, or not, as it was.                           *)
LEMMA RefreshedLeavesArmed ==
  ASSUME model \in Models, NEW t \in Trans, NEW s \in Store, NEW now \in 0..Never, NEW w \in Nat, NEW d,
         NEW slot \in Slot, Sound(t, slot), Timely(slot, now), Fits(t, store, slot),
         InSource(t, s) <=> InSource(t, store), Enabled(t, s) <=> Enabled(t, store)
  PROVE  Refreshed(t, slot, s, now, w, d).date # None <=> slot.date # None
<1> DEFINE r == Refreshed(t, slot, s, now, w, d)
<1>1. CASE Watched(t)
  BY <1>1 DEF Refreshed
<1>2. CASE ~Watched(t) /\ ~InSource(t, s)
  <2>1. slot.date = None
    BY <1>2 DEF Fits
  <2>2. r = SourceLeft(slot)
    BY <1>2 DEF Refreshed
  <2> QED BY <2>1, <2>2, SourceLeftSlot
<1>3. CASE ~Watched(t) /\ InSource(t, s) /\ slot.date # None
  <2> DEFINE h == [Bank(slot.hazard, now) EXCEPT !.rate = T(t).rate[s]]
  <2>1. Enabled(t, s) \/ T(t).policy = "continue"
    BY <1>3 DEF Fits
  <2>2. r = Rescheduled(t, slot, s, now, w)
    BY <1>3, <2>1 DEF Refreshed
  <2>3. CASE slot.hazard = None \/ T(t).rate[s] = slot.hazard.rate
    BY <1>3, <2>2, <2>3 DEF Rescheduled
  <2>4. CASE ~(slot.hazard = None \/ T(t).rate[s] = slot.hazard.rate)
    <3>1. Rescheduled(t, slot, s, now, w) \in Slot
          /\ Rescheduled(t, slot, s, now, w) = Arm([slot EXCEPT !.hazard = h], HazardDate(h, now), w)
      BY <1>3, <2>1, <2>4, RescheduledSlot DEF Rescheduled
    <3>2. h \in Hazard /\ HazardDate(h, now) \in Int
      <4>1. /\ Bank(slot.hazard, now) \in Hazard
            /\ Bank(slot.hazard, now).accumulated <= Bank(slot.hazard, now).threshold
        BY <1>3, <2>4, DatedHazard
      <4>2. T(t).rate[s] \in Nat
        BY TransFacts DEF TransDef
      <4> DEFINE b == Bank(slot.hazard, now)
      <4> HIDE DEF b
      <4>3. [b EXCEPT !.rate = T(t).rate[s]] \in Hazard
            /\ [b EXCEPT !.rate = T(t).rate[s]].accumulated <= [b EXCEPT !.rate = T(t).rate[s]].threshold
        BY <4>1, <4>2 DEF b, Hazard
      <4>4. h \in Hazard /\ h.accumulated <= h.threshold
        BY <4>3 DEF b
      <4> HIDE DEF h
      <4> QED BY <4>4, HazardDateLater
    <3> DEFINE x == [slot EXCEPT !.hazard = h]
               date == HazardDate(h, now)
    <3>3. r = Arm(x, date, w) /\ date \in Int
      BY <2>2, <3>1, <3>2
    <3> HIDE DEF h, r
    <3>4. r.date = HazardDate(h, now)
      <4>1. x \in Slot
        BY <3>2, WithHazard
      <4> HIDE DEF x, date
      <4>2. r.date = date
        BY <3>3, <4>1, ArmFields
      <4> QED BY <4>2 DEF date
    <3> QED BY <1>3, <3>2, <3>4, SchedulerAssumption DEF r
  <2> QED BY <2>3, <2>4
<1>4. CASE ~Watched(t) /\ InSource(t, s) /\ slot.date = None
  <2>1. ~Enabled(t, s)
    BY <1>4 DEF Fits
  <2>2. r = slot
    BY <1>4, <2>1 DEF Refreshed
  <2> QED BY <2>2
<1> QED BY <1>1, <1>2, <1>3, <1>4

(* An input that cannot turn a guard does not.                              *)
LEMMA InputLeavesEnabled ==
  ASSUME Inv, NEW t \in Trans, ~Turned(t), NEW l \in Driven, NEW v \in Value
  PROVE  LET s == [store EXCEPT ![l] = v]
         IN  /\ s \in Store
             /\ InSource(t, s) <=> InSource(t, store)
             /\ Enabled(t, s) <=> Enabled(t, store)
<1> DEFINE s == [store EXCEPT ![l] = v]
<1>1. model \in Models /\ store \in [Loc -> Value] /\ l \in Loc
  BY InvFacts, DrivenAssumption DEF Store
<1>2. s \in Store
  BY <1>1 DEF Store
<1>3. T(t).aut # l /\ T(t).aut \in Loc
  BY <1>1, DrivenAssumption, TransFacts DEF T, TransDef
<1>4. InSource(t, s) <=> InSource(t, store)
  BY <1>1, <1>3 DEF InSource
<1>5. \A x \in T(t).guard : [x EXCEPT ![l] = v] \in T(t).guard /\ [x EXCEPT ![l] = store[l]] \in T(t).guard
  BY <1>1 DEF Turned
<1>6. store = [s EXCEPT ![l] = store[l]]
  BY <1>1
<1> HIDE DEF s
<1>7. Enabled(t, s) => Enabled(t, store)
  BY <1>5, <1>6 DEF Enabled
<1>8. Enabled(t, store) => Enabled(t, s)
  BY <1>5 DEF Enabled, s
<1> QED BY <1>2, <1>4, <1>7, <1>8 DEF s

LEMMA XSetInputInv ==
  ASSUME Inv, NEW l \in Driven, NEW v \in Value, XSetInput(l, v)
  PROVE  Inv'
<1>1. /\ status = "running" /\ status' = status /\ store' = [store EXCEPT ![l] = v]
      /\ UNCHANGED <<model, time, wave, streak, firings>>
      /\ seqEnd' \in Latched(store', time, seqEnd)
  BY DEF XSetInput
<1>2. PICK d \in Draws : slots' = RefreshSchedule(slots, store', time, wave, d)
  BY DEF XSetInput
<1>3. store' \in Store
  BY <1>1, InvFacts, DrivenAssumption DEF Store
<1>4. \A u \in Trans : Sound(u, slots[u]) /\ Timely(slots[u], time)
  BY <1>1 DEF Inv
<1>5. /\ slots' \in [Trans -> Slot]
      /\ \A u \in Trans : Sound(u, slots'[u]) /\ Timely(slots'[u], time) /\ Fits(u, store', slots'[u])
  BY <1>2, <1>3, <1>4, InvFacts, RefreshedSchedule
<1>6. seqEnd' \in [cause : Nat, at : 0..TMax] \cup {None}
  BY <1>1, <1>3, InvFacts, LatchedType
<1>7. TypeOK'
  BY <1>1, <1>3, <1>5, <1>6 DEF Inv, TypeOK
<1>8. \A u \in Trans : Sound(u, slots[u])' /\ Fits(u, store, slots[u])'
  BY <1>1, <1>5, Reread
<1>9. \A u \in Trans : Timely(slots[u], time)'
  BY <1>1, <1>5 DEF Timely, HazardDate
<1> QED BY <1>1, <1>7, <1>8, <1>9 DEF Inv

LEMMA XSetInputKeeps ==
  ASSUME XInv, NEW l \in Driven, NEW v \in Value, XSetInput(l, v)
  PROVE  XInv'
<1>1. Inv'
  BY XSetInputInv DEF XInv
<1>2. /\ status = "running" /\ store' = [store EXCEPT ![l] = v]
      /\ UNCHANGED <<model, time, tally, since, lived>>
  BY DEF XSetInput
<1>3. PICK d \in Draws : slots' = RefreshSchedule(slots, store', time, wave, d)
  BY DEF XSetInput
<1>4. ASSUME NEW t \in Trans, ~Turned(t)'
      PROVE  Exact(t)'
  <2>1. ~Turned(t)
    BY <1>2, <1>4 DEF Turned, T
  <2>2. tally[t] + Stretch(t, since, time) = lived[t]
    BY <1>2, <2>1 DEF XInv, Tallied, Exact, Exposed
  <2>3. /\ store' \in Store
        /\ InSource(t, store') <=> InSource(t, store)
        /\ Enabled(t, store') <=> Enabled(t, store)
    BY <1>2, <2>1, InputLeavesEnabled DEF XInv
  <2>4. slots'[t] = Refreshed(t, slots[t], store', time, wave, d[t])
    BY <1>3 DEF RefreshSchedule
  <2>5. slots[t] \in Slot /\ Sound(t, slots[t]) /\ Timely(slots[t], time) /\ Fits(t, store, slots[t])
    BY <1>2, InvFacts DEF XInv, Inv
  <2>6. slots'[t].date # None <=> slots[t].date # None
    BY <2>3, <2>4, <2>5, InvFacts, RefreshedLeavesArmed DEF XInv
  <2>7. Stretch(t, since, time)' = Stretch(t, since, time)
    BY <1>2, <2>6 DEF Stretch
  <2> QED BY <1>2, <2>2, <2>7 DEF Exact, Exposed
<1> QED BY <1>1, <1>2, <1>4 DEF XInv, Tallied

-----------------------------------------------------------------------------
LEMMA XInitInv == XInit => XInv
<1> SUFFICES ASSUME XInit PROVE XInv
  OBVIOUS
<1>1. Inv
  BY InitInv DEF XInit
<1>2. time = 0 /\ tally = [t \in Trans |-> 0] /\ since = 0 /\ lived = [t \in Trans |-> 0]
  BY DEF XInit, Init
<1> QED BY <1>1, <1>2 DEF XInv, Tallied, Exact, Exposed, Stretch

LEMMA StillKeeps ==
  ASSUME XInv, UNCHANGED xvars
  PROVE  XInv'
<1>1. Inv'
  BY DEF xvars, vars, XInv, Inv, TypeOK, Sound, Timely, Fits, T, InSource, Enabled, Watched, HazardDate
<1> QED BY <1>1 DEF xvars, vars, XInv, Tallied, Exact, Exposed, Stretch, Turned, T

THEOREM ExposureInvariant == XSpec => []XInv
<1>1. XInv /\ [XNext]_xvars => XInv'
  <2>1. Trans # {}
    BY SchedulerAssumption DEF Trans
  <2> QED BY <2>1, RunKeeps, AdvanceKeeps, XSetInputKeeps, StillKeeps DEF XNext
<1> QED BY <1>1, XInitInv, PTL DEF XSpec

(* "Integrates the running time exactly": whatever dropped, paused, resumed *)
(* or fired a transition, the tally of one that no input can interrupt is   *)
(* the time it spent armed, at every instant a caller may ask.              *)
THEOREM TallyTheorem == XSpec => []TallyIsExact
<1>1. XInv => TallyIsExact
  BY DEF XInv, Tallied, TallyIsExact, Exponential
<1> QED BY <1>1, ExposureInvariant, PTL
=============================================================================
