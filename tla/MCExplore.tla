----------------------------- MODULE MCExplore -----------------------------
(***************************************************************************)
(* TLC instance of Explore: five small models, and for each the cut-offs   *)
(* that bite on it.                                                        *)
(***************************************************************************)
EXTENDS Explore

MCLoc   == {"a", "b", "c"}
MCValue == {0, 1, 2}
MCStore == [MCLoc -> MCValue]

Always       == MCStore
When(l, v)   == {s \in MCStore : s[l] = v}
Rate(r)      == [s \in MCStore |-> r]

Law(aut, source, targets, law, guard) ==
  [aut |-> aut, source |-> source, targets |-> targets, law |-> law, delay |-> 0,
   probs |-> [b \in 1..Len(targets) |-> 1], rate |-> Rate(1), guard |-> guard,
   policy |-> "reset", observer |-> FALSE, failure |-> FALSE, writes |-> << >>]

Fails(aut, guard) == [Law(aut, 0, <<1>>, "clock", guard) EXCEPT !.failure = TRUE]
After(aut, source, target, delay, guard) ==
  [Law(aut, source, <<target>>, "delay", guard) EXCEPT !.delay = delay]

Model(trans) ==
  [trans |-> trans, mode |-> "deferred", init |-> [l \in MCLoc |-> 0],
   goals |-> << <<"c", 1>>, <<"c", 2>> >>]

(* Two failures, the second faster after the first, a repair, and a demand. *)
Repairable == Model(<<
  Fails("a", Always),
  [Fails("b", Always) EXCEPT !.rate = [s \in MCStore |-> 1 + (IF s["a"] = 1 THEN 1 ELSE 0)]],
  Law("a", 1, <<0>>, "clock", When("b", 0)),
  Law("c", 0, <<1, 2>>, "inst", When("a", 1) \cap When("b", 1))>>)

(* The demand may have to be made again at once.                            *)
Insistent == [Repairable EXCEPT !.trans[4].targets = <<1, 0>>]

(* A clock that a delayed maintenance suspends, and a watched alarm.        *)
Maintained == Model(<<
  [Fails("a", When("b", 0)) EXCEPT !.policy = "resume"],
  After("b", 0, 1, 2, Always),
  After("b", 1, 2, 1, Always),
  Law("c", 0, <<1>>, "watched", When("a", 1) \cap When("b", 1))>>)

(* Two clocks and a spare started at once: zero delays, two branches.       *)
Spare == Model(<<
  Fails("a", Always),
  [After("b", 0, 1, 0, When("a", 1)) EXCEPT !.failure = TRUE],
  [Fails("c", When("b", 1)) EXCEPT !.targets = <<1>>],
  After("c", 0, 2, 3, Always)>>)

(* An alarm two failures away, watched; a demand due at the same instant.   *)
Alarmed == Model(<<
  Fails("a", Always), Law("a", 1, <<2>>, "clock", Always),
  Law("a", 2, <<0>>, "watched", Always), Law("c", 0, <<1, 2>>, "inst", When("a", 2))>>)

MCModels == [n \in {"repairable", "insistent", "maintained", "spare", "alarmed"} |->
  CASE n = "repairable" -> Repairable [] n = "insistent" -> Insistent
    [] n = "maintained" -> Maintained [] n = "spare" -> Spare
    [] n = "alarmed" -> Alarmed]

MCScale == 2 ^ 12 * 3 ^ 4

Uncut(m, algorithm, level) ==
  [model |-> m, algorithm |-> algorithm, goal |-> 1, horizon |-> 1, level |-> level,
   min_probability |-> None, max_length |-> None, max_failures |-> None, max_branches |-> None]

MCStudies == <<
  [Uncut("repairable", "exact", 1) EXCEPT !.max_length = 6, !.max_failures = 3],
  [Uncut("repairable", "exact", 1) EXCEPT !.min_probability = MCScale \div 64, !.max_failures = 2],
  [Uncut("repairable", "exact", 1) EXCEPT !.max_branches = 4, !.max_length = 4],
  [Uncut("repairable", "exact", 1) EXCEPT !.horizon = 0],
  [Uncut("insistent", "exact", 1) EXCEPT !.max_length = 6],
  [Uncut("insistent", "exact", 1) EXCEPT !.max_failures = 1, !.max_branches = 9],
  Uncut("alarmed", "exact", 1),
  [Uncut("alarmed", "discretised", 2) EXCEPT !.max_branches = 12, !.goal = 2],
  Uncut("maintained", "discretised", 2),
  [Uncut("maintained", "discretised", 2) EXCEPT !.max_branches = 4],
  Uncut("spare", "discretised", 2),
  [Uncut("spare", "discretised", 2) EXCEPT !.max_failures = 1],
  [Uncut("spare", "discretised", 1) EXCEPT !.min_probability = MCScale \div 3]
>>
=============================================================================
