----------------------------- MODULE MCFixpoint -----------------------------
(***************************************************************************)
(* TLC instance of Fixpoint: three attributes, one automaton, and every    *)
(* model made of three different steps of a menu that has the shapes the   *)
(* fixpoint must cope with: readers declared before what they read, self   *)
(* triggers, converging and diverging cycles, two writers of an attribute, *)
(* several effects in one function, programs that may fail.                *)
(***************************************************************************)
EXTENDS Fixpoint

MCAttr  == {"a", "b", "c"}
MCAut   == {"m"}
MCValue == {0, 1}
MCLoc   == MCAttr \cup MCAut
MCStore == [MCLoc -> MCValue]

Expr(target, reads, Op(_)) ==
  [target |-> target, reads |-> reads, value |-> [s \in MCStore |-> Op(s)]]

Copy(t, l)   == LET Op(s) == s[l] IN Expr(t, {l}, Op)
Not(t, l)    == LET Op(s) == 1 - s[l] IN Expr(t, {l}, Op)
And(t, k, l) == LET Op(s) == s[k] * s[l] IN Expr(t, {k, l}, Op)
Xor(t, k, l) == LET Op(s) == (s[k] + s[l]) % 2 IN Expr(t, {k, l}, Op)
Odd(t, j, k, l) == LET Op(s) == (s[j] + s[k] + s[l]) % 2 IN Expr(t, {j, k, l}, Op)
Guarded(t, k, l) == LET Op(s) == IF s[k] = 0 THEN s[l] ELSE Fail IN Expr(t, {k, l}, Op)

Function(effects) == [program |-> FALSE, effects |-> effects]
Program(effects)  == [program |-> TRUE, effects |-> effects]

Menu == <<
  Function(<<Copy("a", "m")>>),
  Function(<<Xor("a", "b", "m")>>),
  Function(<<Not("b", "a")>>),
  Function(<<And("c", "a", "b")>>),
  Function(<<Xor("c", "c", "m")>>),
  Function(<<Copy("b", "c"), Copy("c", "a")>>),
  Function(<<Xor("b", "a", "m"), Guarded("c", "b", "a")>>),
  Program(<<Not("b", "c"), Guarded("c", "m", "a")>>),
  Function(<<Odd("c", "a", "b", "m")>>),
  Function(<<Xor("b", "a", "m")>>)
>>

(* A model is named by the three menu entries it is made of, whether the    *)
(* confluence probe is on, what its firings do, only move the automaton or  *)
(* also write `a`, which no entry but the first two writes, and the cap.    *)
Names(entries, cap) ==
  {n \in entries \X entries \X entries \X BOOLEAN \X {"move", "write"} \X {cap} :
     /\ Cardinality({n[1], n[2], n[3]}) = 3
     /\ n[5] = "write" => {n[1], n[2], n[3]} \cap {1, 2} = {}}

Firings(kind) ==
  IF kind = "move"
  THEN << [aut |-> "m", to |-> 0, effects |-> << >>],
          [aut |-> "m", to |-> 1, effects |-> << >>] >>
  ELSE << [aut |-> "m", to |-> 0, effects |-> <<Copy("a", "m")>>],
          [aut |-> "m", to |-> 1, effects |-> <<Not("a", "a"), Guarded("a", "b", "m")>>] >>

ModelsFrom(names) ==
  [n \in names |->
     [steps |-> <<Menu[n[1]], Menu[n[2]], Menu[n[3]]>>, firings |-> Firings(n[5]),
      init |-> [l \in MCLoc |-> 0], probe |-> n[4], maxIter |-> n[6]]]

(* Under a cap of two runs all entries but the last two; under a cap of one *)
(* those that exhaust the budget first: readers declared before what they   *)
(* read (9, 10, 1), with a loop (5) or without.                             *)
MCModels == ModelsFrom(Names(1..8, 2) \cup Names({1, 5, 9, 10}, 1))
=============================================================================
