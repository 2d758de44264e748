---------------------------- MODULE MCScheduler ----------------------------
(***************************************************************************)
(* TLC instance of Scheduler, and of the race it implements: every model   *)
(* made of three transitions taken, in any order, from a menu that has one *)
(* of each kind: delays, instant transitions with two branches, drawn      *)
(* delays, state-dependent rates, the three interruption policies, watched *)
(* transitions, edge writes and observers, over two automata, an observing *)
(* automaton and an attribute.                                             *)
(***************************************************************************)
EXTENDS Scheduler

MCLoc   == {"a", "b", "o", "x"}
MCValue == {0, 1}
MCStore == [MCLoc -> MCValue]

Anywhere == MCStore
When(l, v) == {s \in MCStore : s[l] = v}

NoRate == [s \in MCStore |-> 0]
RateBy(l, off, on) == [s \in MCStore |-> IF s[l] = 0 THEN off ELSE on]

Plain(aut, source, targets, draws, guard, policy) ==
  [aut |-> aut, source |-> source, targets |-> targets, law |-> "dated",
   draws |-> draws, rate |-> NoRate, guard |-> guard, policy |-> policy,
   observer |-> FALSE, writes |-> << >>]

Writing(def, l, v) == [def EXCEPT !.writes = [k \in {l} |-> v]]

Menu == <<
  Plain("a", 0, {1}, {2}, Anywhere, "reset"),
  Plain("a", 1, {0}, {0}, Anywhere, "reset"),
  Plain("b", 0, {0, 1}, {0}, When("a", 1), "reset"),
  Plain("b", 0, {1}, {1, 3}, When("a", 0), "resume"),
  Plain("b", 1, {0}, {1, 2}, When("a", 1), "continue"),
  Writing([Plain("a", 0, {1}, {2, 4}, Anywhere, "reset")
             EXCEPT !.law = "rate", !.rate = RateBy("b", 0, 2)], "x", 1),
  [Plain("b", 0, {1}, {2, 6}, When("a", 0), "resume")
     EXCEPT !.law = "rate", !.rate = RateBy("x", 2, 1)],
  Writing([Plain("b", 1, {0}, {0}, When("a", 1), "reset") EXCEPT !.law = "watched"], "x", 0),
  [Plain("a", 1, {0}, {0}, When("b", 0), "reset") EXCEPT !.law = "watched"],
  [Plain("o", 0, {1}, {0}, When("a", 1), "reset") EXCEPT !.observer = TRUE],
  Writing(Plain("a", 0, {1}, {1}, Anywhere, "continue"), "x", 1),
  Writing(Plain("o", 1, {0}, {1}, When("x", 0), "resume"), "x", 0),
  [Plain("a", 0, {1}, {0}, When("b", 0), "reset") EXCEPT !.law = "watched"]
>>

MCTrans(n) == <<Menu[n[1]], Menu[n[2]], Menu[n[3]]>>

(* The two automata start in any state; the target is the second state of   *)
(* one of them, or there is none.                                           *)
Inits == {s \in MCStore : s["o"] = 0 /\ s["x"] = 0}
Goals == {<< >>, << <<"b", 1>>, <<"o", 1>> >>}

ModelsOf(entries) ==
  [n \in {k \in entries \X entries \X entries \X Inits \X Goals :
            k[1] # k[2] /\ k[1] # k[3] /\ k[2] # k[3]} |->
     [trans |-> MCTrans(n), init |-> n[4], goals |-> n[5]]]

MCModels == ModelsOf(1..13)
=============================================================================
