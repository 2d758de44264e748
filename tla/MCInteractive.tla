--------------------------- MODULE MCInteractive ---------------------------
(***************************************************************************)
(* TLC instance of Interactive: a few models of two transitions, in which  *)
(* an input enables, interrupts, re-rates and crosses, and a caller that   *)
(* makes every sequence of MaxCalls calls.                                 *)
(***************************************************************************)
EXTENDS Interactive

MCLoc   == {"a", "b", "i"}
MCValue == {0, 1}
MCStore == [MCLoc -> MCValue]
MCInputs == {"i"}

When(l, v) == {s \in MCStore : s[l] = v}
Both(l, v, k, w) == {s \in MCStore : s[l] = v /\ s[k] = w}
RateBy(l, off, on) == [s \in MCStore |-> IF s[l] = 0 THEN off ELSE on]

Plain(aut, source, targets, draws, guard, policy) ==
  [aut |-> aut, source |-> source, targets |-> targets, law |-> "dated",
   draws |-> draws, rate |-> [s \in MCStore |-> 0], guard |-> guard,
   policy |-> policy, observer |-> FALSE, writes |-> << >>]

Rate(def, rate) == [def EXCEPT !.law = "rate", !.rate = rate]
OnCrossing(def) == [def EXCEPT !.law = "watched"]

Menu == <<
  Plain("a", 0, {1}, {1, 3}, MCStore, "reset"),
  Plain("a", 1, {0}, {0}, When("i", 1), "reset"),
  Plain("b", 0, {1}, {2}, When("i", 0), "resume"),
  Rate(Plain("b", 0, {1}, {2}, When("a", 0), "resume"), RateBy("i", 1, 2)),
  OnCrossing(Plain("b", 1, {0}, {0}, When("i", 1), "reset")),
  OnCrossing(Plain("b", 0, {1}, {0}, Both("i", 1, "a", 0), "reset")),
  Plain("b", 1, {0}, {1}, When("a", 1), "continue")
>>

MCModels ==
  [n \in {k \in (1..7) \X (1..7) : k[1] < k[2]} |->
     [trans |-> <<Menu[n[1]], Menu[n[2]]>>, init |-> [l \in MCLoc |-> 0],
      goals |-> << <<"b", 1>> >>]]
=============================================================================
