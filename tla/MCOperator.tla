---------------------------- MODULE MCOperator ----------------------------
(***************************************************************************)
(* TLC instance of Operator: pairs and triples of transitions from a menu  *)
(* with clocks under the three policies, a rate that an input and an       *)
(* automaton change, delays, random choices and watched transitions, in    *)
(* the three modes, and every sequence of MaxCalls calls.                  *)
(***************************************************************************)
EXTENDS Operator

MCLoc   == {"a", "b", "i"}
MCValue == {0, 1}
MCStore == [MCLoc -> MCValue]
MCInputs == {"i"}

When(l, v) == {s \in MCStore : s[l] = v}

Law(aut, source, targets, law, delay, guard, policy) ==
  [aut |-> aut, source |-> source, targets |-> targets, law |-> law, delay |-> delay,
   probs |-> [b \in 1..Len(targets) |-> 1], rate |-> [s \in MCStore |-> 1 + s["i"]],
   guard |-> guard, policy |-> policy, observer |-> FALSE, failure |-> FALSE,
   writes |-> << >>]

Menu == <<
  Law("a", 0, <<1>>, "clock", 0, When("i", 0), "resume"),
  Law("a", 0, <<1>>, "clock", 0, When("b", 0), "reset"),
  Law("a", 0, <<1>>, "clock", 0, When("i", 0), "continue"),
  Law("a", 1, <<0, 1>>, "inst", 0, MCStore, "reset"),
  Law("b", 0, <<1>>, "delay", 2, When("i", 0), "resume"),
  Law("b", 0, <<1, 0>>, "inst", 0, When("a", 1), "resume"),
  [Law("b", 1, <<0>>, "watched", 0, When("i", 1), "reset")
     EXCEPT !.writes = [l \in {"i"} |-> 0]],
  Law("b", 1, <<0>>, "clock", 0, When("a", 1), "resume"),
  Law("b", 1, <<0>>, "delay", 0, MCStore, "reset")
>>

Pairs == {<<1, 5, 4>>, <<1, 6, 7>>, <<2, 5, 9>>, <<3, 6, 8>>, <<1, 8, 5>>, <<4, 5, 7>>}

Names == Pairs \X {"deferred", "held", "operator"} \X {0, 1}

MCModels ==
  [n \in Names |->
     [trans |-> [k \in 1..3 |-> Menu[n[1][k]]], mode |-> n[2],
      init |-> [l \in MCLoc |-> IF l = "a" THEN n[3] ELSE 0],
      goals |-> << <<"b", 1>> >>]]
=============================================================================
