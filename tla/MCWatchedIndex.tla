-------------------------- MODULE MCWatchedIndex ---------------------------
(***************************************************************************)
(* TLC instance of WatchedIndex: two watched transitions on two automata,  *)
(* whose guards read a written attribute, a swept one, the clock or an     *)
(* automaton; one of them may fail to evaluate, one may be an observer.    *)
(***************************************************************************)
EXTENDS WatchedIndex

CONSTANTS Bad

MCLoc   == {"x", "y", "a", "b", "time"}
MCAut   == {"a", "b"}
MCSwept == {"y"}
MCDomain == [l \in MCLoc |-> IF l = "y" THEN 0..2 ELSE 0..1]
MCState == {s \in [MCLoc -> 0..2] : \A l \in MCLoc : s[l] \in MCDomain[l]}

Table(owner, source, scanned, reads, Op(_)) ==
  [owner |-> owner, source |-> source, scanned |-> scanned, reads |-> reads,
   guard |-> [s \in MCState |-> Op(s)]]

High(l)    == LET Op(s) == s[l] >= 1 IN Table("a", 0, TRUE, {l}, Op)
Above(l)   == LET Op(s) == s[l] >= 2 IN Table("b", 0, TRUE, {l}, Op)
Late       == LET Op(s) == s["time"] = 1 /\ s["y"] = 2 IN Table("b", 0, TRUE, {"time", "y"}, Op)
Other      == LET Op(s) == s["b"] = 1 IN Table("a", 1, TRUE, {"b"}, Op)
Ratio(l)   == LET Op(s) == IF s[l] = 0 THEN Bad ELSE s[l] = 1 IN Table("a", 0, TRUE, {l}, Op)
Observer   == LET Op(s) == s["x"] = 1 IN Table("b", 0, FALSE, {"x"}, Op)

Menu == <<High("x"), High("y"), Late, Other, Ratio("x"), Ratio("y"), Observer, Above("y")>>

MCModels ==
  [n \in {<<2, 3>>, <<3, 4>>, <<5, 8>>, <<7, 6>>, <<1, 6>>, <<8, 4>>} |->
     [table |-> <<Menu[n[1]], Menu[n[2]]>>, init |-> [l \in MCLoc |-> 0]]]
=============================================================================
