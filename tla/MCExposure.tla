----------------------------- MODULE MCExposure -----------------------------
(***************************************************************************)
(* TLC instance of Exposure: pairs of transitions, one exponential under   *)
(* each interruption policy, and one that moves what guards it.            *)
(***************************************************************************)
EXTENDS Exposure

MCLoc   == {"a", "b", "i"}
MCValue == {0, 1}
MCStore == [MCLoc -> MCValue]

When(l, v) == {s \in MCStore : s[l] = v}

Dated(aut, source, draws, guard, policy) ==
  [aut |-> aut, source |-> source, targets |-> {1 - source}, law |-> "dated",
   draws |-> draws, rate |-> [s \in MCStore |-> 0], guard |-> guard,
   policy |-> policy, observer |-> FALSE, writes |-> << >>]

(* The way back of the exponential automaton, taken the instant it may be.  *)
Returning ==
  [Dated("a", 1, {0}, When("b", 0), "reset") EXCEPT !.law = "watched"]

Policies == {"reset", "resume", "continue"}

(* The exponential transition is guarded by the other automaton or by the   *)
(* input; the other automaton goes back and forth.                          *)
MCModels ==
  [n \in Policies \X {"b", "i"} |->
     [trans |-> << Dated("a", 0, {2, 3}, When(n[2], 0), n[1]),
                   Dated("b", 0, {1, 2}, MCStore, "reset"),
                   Dated("b", 1, {1}, MCStore, "reset"),
                   Returning >>,
      init |-> [l \in MCLoc |-> 0], goals |-> << >>]]
=============================================================================
