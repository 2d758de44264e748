------------------------------- MODULE Cutoffs -------------------------------
(***************************************************************************)
(* Cut sets under cutoffs (crates/raichu-fta/src/approx.rs): what the      *)
(* quantifier does with a module too large for its diagram.                *)
(*                                                                         *)
(* A formula is a sequence of gates, children first, the last its root; an *)
(* argument is a constant, a level or a gate.  A partial cut set is levels *)
(* already chosen and items still to expand; partials are explored depth   *)
(* first, and what the cutoffs lose is bounded.                            *)
(***************************************************************************)
EXTENDS Integers, Sequences, FiniteSets, FiniteSetsExt, SequencesExt
LOCAL INSTANCE Fractions

CONSTANT Absent

VARIABLE search  \* the extraction that runs, or Absent

VoteItem(g, i, k) == <<"vote", g, i, k>>
Always(b)         == <<"const", b>>
Chosen(l)         == <<"level", l>>
Gated(g)          == <<"gate", g>>

Zero == <<0, 1>>
Sum(ps) == FoldLeft(Plus, Zero, ps)

(* The levels that a gate depends on (`Supports`).                          *)
RECURSIVE SupportOf(_, _)
SupportOf(gates, arg) ==
  CASE arg[1] = "const" -> {}
    [] arg[1] = "level" -> {arg[2]}
    [] OTHER -> UNION {SupportOf(gates, a) : a \in Range(gates[arg[2]].args)}

(* The product of the bounds of what shares nothing, least probable first.  *)
Independent(gates, taken, p, items, Bound(_)) ==
  LET sorted == SortSeq(items, LAMBDA a, b : Less(Bound(a), Bound(b)))
      step(acc, a) ==
        LET s == SupportOf(gates, a)
        IN  IF s \cap acc.taken # {} THEN acc
            ELSE [taken |-> acc.taken \cup s, p |-> Times(acc.p, Bound(a))]
  IN  FoldLeft(step, [taken |-> taken, p |-> p], sorted).p

(* `gate_bounds`, and `vote_bound` of what remains of a vote.               *)
RECURSIVE ArgBound(_, _, _)
VoteBound(gates, p, args, k) ==
  IF k = 0 THEN Whole
  ELSE Lesser(Whole, Times(<<1, k>>, Sum([i \in DOMAIN args |-> ArgBound(gates, p, args[i])])))

ArgBound(gates, p, arg) ==
  LET gate   == gates[arg[2]]
      each(a) == ArgBound(gates, p, a)
      bounds == [i \in DOMAIN gate.args |-> each(gate.args[i])]
  IN CASE arg[1] = "const" -> IF arg[2] THEN Whole ELSE Zero
       [] arg[1] = "level" -> p[arg[2]]
       [] arg[1] = "vote"  -> VoteBound(gates, p, SubSeq(gate.args, arg[3], Len(gate.args)), arg[4])
       [] gate.op = "and"  -> Lesser(FoldLeft(Lesser, Whole, bounds),
                                     Independent(gates, {}, Whole, gate.args, each))
       [] gate.op = "or"   -> Lesser(Whole, Sum(bounds))
       [] OTHER            -> VoteBound(gates, p, gate.args, gate.k)

(* `partial_bound`.                                                         *)
PartialBound(s, partial) ==
  LET each(a) == ArgBound(s.gates, s.p, a)
  IN  Lesser(FoldLeft(LAMBDA b, a : Lesser(b, each(a)), partial.p, partial.items),
             Independent(s.gates, partial.levels, partial.p, partial.items, each))

OpenBound(s) == Sum([i \in DOMAIN s.stack |-> PartialBound(s, s.stack[i])])

-----------------------------------------------------------------------------
(* `extract`, before its loop.                                              *)
Extraction(gates, p, cutoffs) ==
  [gates |-> gates, p |-> p, cutoffs |-> cutoffs, threshold |-> cutoffs.probability,
   neglected |-> Zero, truncated |-> FALSE, expansions |-> 0, found |-> << >>, visited |-> {},
   stack |-> <<[levels |-> {}, items |-> <<Gated(Len(gates))>>, p |-> Whole]>>]

Alive(s) == {i \in DOMAIN s.found : s.found[i].alive}
Sets(s)  == {s.found[i].levels : i \in Alive(s)}

Running == search # Absent /\ search.stack # << >>
Current == Last(search.stack)
Rest    == Front(search.stack)

PartialKey(partial) == <<partial.levels, Range(partial.items)>>

TooLong(partial) ==
  search.cutoffs.order # Absent /\ Cardinality(partial.levels) > search.cutoffs.order

IsCut(partial) == Less(PartialBound(search, partial), search.threshold) \/ TooLong(partial)

(* Cut: its mass is neglected.                                              *)
Cut ==
  /\ Running /\ IsCut(Current)
  /\ search' = [search EXCEPT !.stack = Rest, !.truncated = TRUE,
                              !.neglected = Plus(@, PartialBound(search, Current))]

(* Reached by another path before.                                          *)
SkipVisited ==
  /\ Running /\ ~IsCut(Current) /\ PartialKey(Current) \in search.visited
  /\ search' = [search EXCEPT !.stack = Rest]

Fresh == Running /\ ~IsCut(Current) /\ PartialKey(Current) \notin search.visited

ExhaustLosingCurrent ==
  /\ Fresh /\ search.expansions = search.cutoffs.expansions
  /\ search' = [search EXCEPT !.neglected = Plus(@, OpenBound([search EXCEPT !.stack = Rest])),
                              !.truncated = TRUE, !.stack = << >>]

(* Out of budget: all that is open is neglected.                            *)
Exhaust ==
  /\ Fresh /\ search.expansions = search.cutoffs.expansions
  /\ search' = [search EXCEPT !.neglected = Plus(@, OpenBound(search)), !.truncated = TRUE,
                              !.stack = << >>]

(* `take_item`: what the chosen levels satisfy is dropped.                  *)
HeldBy(levels, arg) ==
  CASE arg[1] = "const" -> arg[2] [] arg[1] = "level" -> arg[2] \in levels [] OTHER -> FALSE

Satisfied(gates, levels, item) ==
  LET gate == gates[item[2]]
      held == {i \in DOMAIN gate.args : HeldBy(levels, gate.args[i])}
  IN CASE item[1] = "level" -> item[2] \in levels
       [] item[1] = "vote"  -> Cardinality({i \in held : i >= item[3]}) >= item[4]
       [] gate.op = "or"    -> held # {}
       [] gate.op = "and"   -> held = DOMAIN gate.args
       [] OTHER             -> Cardinality(held) >= gate.k

Branching(gates, item) ==
  IF item[1] = "level" THEN 0
  ELSE IF item[1] = "vote" \/ gates[item[2]].op = "atleast" THEN 3
  ELSE IF gates[item[2]].op = "and" THEN 1 ELSE 2 + Len(gates[item[2]].args)

Pending(s, partial) ==
  SelectSeq(partial.items, LAMBDA i : ~Satisfied(s.gates, partial.levels, i))

Taken(gates, items) ==
  CHOOSE i \in DOMAIN items : \A j \in DOMAIN items :
    \/ Branching(gates, items[i]) < Branching(gates, items[j])
    \/ Branching(gates, items[i]) = Branching(gates, items[j]) /\ i <= j

SwapRemoved(items, i) == Front(IF i = Len(items) THEN items ELSE [items EXCEPT ![i] = Last(items)])

Pushed(partial, item) ==
  IF item \in Range(partial.items) THEN partial ELSE [partial EXCEPT !.items = Append(@, item)]

(* An argument that must hold; nothing where it cannot.                     *)
Required(partials, arg) ==
  IF arg = Always(TRUE) THEN partials ELSE IF arg = Always(FALSE) THEN << >>
  ELSE [i \in DOMAIN partials |-> Pushed(partials[i], arg)]

(* What one item leads to, the most probable on top.                        *)
Branches(s, partial, item) ==
  LET gate == s.gates[item[2]]
      here == <<partial>>
      rank(a, b) == Less(ArgBound(s.gates, s.p, a), ArgBound(s.gates, s.p, b))
      either == SortSeq(SelectSeq(gate.args, LAMBDA a : a[1] # "const"), rank)
      rest(k) == Pushed(partial, VoteItem(item[2], item[3] + 1, k))
  IN CASE item[1] = "level" ->
            <<[partial EXCEPT !.levels = @ \cup {item[2]},
                              !.p = IF item[2] \in partial.levels THEN @ ELSE Times(@, s.p[item[2]])]>>
       [] item[1] = "vote" ->
            IF item[4] = 0 THEN here
            ELSE IF Len(gate.args) - item[3] + 1 < item[4] THEN << >>
            ELSE <<rest(item[4])>> \o Required(<<rest(item[4] - 1)>>, gate.args[item[3]])
       [] gate.op = "and" -> FoldLeft(Required, here, gate.args)
       [] gate.op = "or" ->
            IF Always(TRUE) \in Range(gate.args) THEN here
            ELSE [i \in DOMAIN either |-> Pushed(partial, either[i])]
       [] OTHER -> <<Pushed(partial, VoteItem(item[2], 1, gate.k))>>

Counted(s) == [s EXCEPT !.expansions = @ + 1, !.visited = @ \cup {PartialKey(Last(s.stack))}]

Within == Fresh /\ search.expansions < search.cutoffs.expansions

Expand ==
  LET items == Pending(search, Current)
      i     == Taken(search.gates, items)
      left  == [Current EXCEPT !.items = SwapRemoved(items, i)]
  IN  /\ Within /\ items # << >>
      /\ search' = [Counted(search) EXCEPT !.stack = Rest \o Branches(search, left, items[i])]

(* Over the count, the least probable is dropped and the threshold raised   *)
(* to the next.                                                             *)
LeastOf(s) ==
  CHOOSE i \in Alive(s) : \A j \in Alive(s) :
    \/ Less(s.found[i].p, s.found[j].p)
    \/ AtMost(s.found[i].p, s.found[j].p) /\ i <= j

Dropped(s) ==
  LET i    == LeastOf(s)
      kept == [s EXCEPT !.found[i].alive = FALSE, !.truncated = TRUE,
                        !.neglected = Plus(@, s.found[i].p)]
  IN  IF Cardinality(Alive(s)) <= s.cutoffs.sets THEN s
      ELSE IF Alive(kept) = {} THEN kept
      ELSE [kept EXCEPT !.threshold = Greater(@, s.found[LeastOf(kept)].p)]

(* A partial with nothing left is a cut set, unless already found.          *)
Complete ==
  LET known == \E i \in DOMAIN search.found : search.found[i].levels = Current.levels
      s     == [Counted(search) EXCEPT !.stack = Rest]
      cut   == [levels |-> Current.levels, p |-> Current.p, alive |-> TRUE]
  IN  /\ Within /\ Pending(search, Current) = << >>
      /\ search' = IF known THEN s ELSE Dropped([s EXCEPT !.found = Append(@, cut)])

ExtractStep == Cut \/ SkipVisited \/ Exhaust \/ Expand \/ Complete

-----------------------------------------------------------------------------
(* The probability of one assignment.                                       *)
Weight(p, levels) ==
  FoldLeft(LAMBDA w, l : Times(w, IF l \in levels THEN p[l] ELSE Complement(p[l])), Whole,
           [l \in DOMAIN p |-> l])
=============================================================================
