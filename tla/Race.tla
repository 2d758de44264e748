-------------------------------- MODULE Race --------------------------------
(***************************************************************************)
(* What the scheduler promises, without dates, waves or banked hazards: a  *)
(* race of lifetimes.  A transition that is enabled in its source holds a  *)
(* lifetime drawn when it became so.  Lifetimes shrink as time elapses,    *)
(* each at its own speed: one for a delay, the present rate for a          *)
(* state-dependent rate, none while a guard interrupts it.  Time never     *)
(* overruns a lifetime, an event is a lifetime that reaches zero or a      *)
(* watched condition that holds, and what the event leaves of a lifetime   *)
(* depends on nothing but the new state and the interruption policy.       *)
(***************************************************************************)
EXTENDS Integers, Sequences

CONSTANTS Loc, Value, NTrans, None, ModelOf, TMax

VARIABLES
  model,   \* which model is run
  store,   \* the state of the model
  now,     \* the current time
  left,    \* the remaining lifetime of each transition, None when it has none
  halted   \* the run has returned

vars == <<model, store, now, left, halted>>

Trans == 1..NTrans

T(t) == ModelOf[model].trans[t]

InSource(t, s) == s[T(t).aut] = T(t).source
Enabled(t, s)  == s \in T(t).guard
Running(t)     == Enabled(t, store) \/ T(t).policy = "continue"

Speed(t) ==
  CASE ~Running(t) -> 0
    [] Running(t) /\ T(t).law = "rate" -> T(t).rate[store]
    [] OTHER -> 1

Elapsed(t, d) == IF left[t] = None THEN None ELSE left[t] - Speed(t) * d

MustFire(t) == T(t).law = "watched" /\ InSource(t, store) /\ Enabled(t, store)

(* Time may elapse by `d` without overrunning anything.                     *)
MayElapse(d) ==
  /\ d > 0 => ~\E t \in Trans : MustFire(t)
  /\ \A t \in Trans : left[t] # None => left[t] >= Speed(t) * d

Expires(t, d) == left[t] # None /\ Running(t) /\ Elapsed(t, d) = 0

(* The lifetimes a transition may hold in the state `s`, when it held `l`.  *)
Lifetimes(t, s, l) ==
  CASE T(t).law = "watched" \/ ~InSource(t, s) -> {None}
    [] T(t).law # "watched" /\ InSource(t, s) /\ Enabled(t, s) ->
         IF l = None THEN T(t).draws ELSE {l}
    [] OTHER -> IF T(t).policy = "reset" THEN {None} ELSE {l}

After(t, to) ==
  [l \in Loc |-> IF l \in DOMAIN T(t).writes THEN T(t).writes[l]
                 ELSE IF l = T(t).aut THEN to ELSE store[l]]

Init ==
  /\ model \in DOMAIN ModelOf
  /\ store = ModelOf[model].init
  /\ now = 0
  /\ DOMAIN left = Trans
  /\ \A t \in Trans : left[t] \in Lifetimes(t, store, None)
  /\ halted = FALSE

Event(t, d) ==
  /\ ~halted
  /\ MayElapse(d)
  /\ Expires(t, d) \/ (d = 0 /\ MustFire(t))
  /\ now' = now + d
  /\ \E to \in T(t).targets : store' = After(t, to)
  /\ DOMAIN left' = Trans
  /\ \A u \in Trans :
       left'[u] \in Lifetimes(u, store', IF u = t THEN None ELSE Elapsed(u, d))
  /\ UNCHANGED <<model, halted>>

(* The run returns, at the horizon or at its target, with what time left.   *)
Return(d) ==
  /\ ~halted
  /\ \A t \in Trans : left[t] # None => left[t] >= Speed(t) * d
  /\ now' = now + d
  /\ left' = [t \in Trans |-> Elapsed(t, d)]
  /\ halted' = TRUE
  /\ UNCHANGED <<model, store>>

(* The run returns an error; nothing is said of what it leaves behind.      *)
Fail == ~halted /\ halted' = TRUE /\ UNCHANGED model

Next ==
  \/ \E d \in 0..TMax : Return(d) \/ \E t \in Trans : Event(t, d)
  \/ Fail

Spec == Init /\ [][Next]_vars
=============================================================================
