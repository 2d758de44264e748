------------------------------ MODULE TreeGraph ------------------------------
(***************************************************************************)
(* The normalised graph of a fault tree, and its modules                   *)
(* (crates/raichu-fta/src/quantify.rs).                                    *)
(*                                                                         *)
(* A tree is an expression over events (numbers), constants, "and", "or",  *)
(* "not" and votes "atleast".  A graph is a sequence of nodes, children    *)
(* before parents; an argument is a literal: a constant, an event or its   *)
(* negation, or a node.  What only the probability of each gate needs      *)
(* (detached nodes) is left out.                                           *)
(***************************************************************************)
EXTENDS Integers, Sequences, FiniteSets, FiniteSetsExt, SequencesExt

Fixed(v)      == <<"const", v>>
Happens(e, b) == <<"event", e, b>>
NodeLit(n)    == <<"node", n>>
IsNode(l)     == l[1] = "node"
IsEvent(l)    == l[1] = "event"

(* The order of literals: constants, events, nodes.                         *)
LiteralRank(l) ==
  CASE l[1] = "const" -> IF l[2] THEN 1 ELSE 0
    [] l[1] = "event" -> 2 * l[2] + (IF l[3] THEN 1 ELSE 0) + 2
    [] OTHER          -> 1000 + l[2]

Before(l, m) == LiteralRank(l) < LiteralRank(m)

(* A set as a sequence, and a set of numbers in order.                      *)
Enumerated(S) == FoldSet(LAMBDA x, s : Append(s, x), << >>, S)
Ascending(S)  == SortSeq(Enumerated(S), <)

Node(op, k, args) == [op |-> op, k |-> k, args |-> args]
Built(g, l)       == [graph |-> g, lit |-> l]

(* `intern`.                                                                *)
Interned(g, node) ==
  IF node \in Range(g) THEN Built(g, NodeLit(CHOOSE n \in DOMAIN g : g[n] = node))
  ELSE Built(Append(g, node), NodeLit(Len(g) + 1))

(* `simplify`, then a node for what remains.                                *)
Junction(g, op, args) ==
  LET absorbing == Fixed(op = "or")
      kept      == Range(args) \ {Fixed(op = "and")}
      sorted    == SortSeq(Enumerated(kept), Before)
  IN  IF \/ absorbing \in kept
         \/ \E l \in kept : IsEvent(l) /\ Happens(l[2], ~l[3]) \in kept
      THEN Built(g, absorbing)
      ELSE IF kept = {} THEN Built(g, Fixed(op = "and"))
      ELSE IF Cardinality(kept) = 1 THEN Built(g, sorted[1])
      ELSE Interned(g, Node(op, 0, sorted))

(* `make_vote`.                                                             *)
Voted(g, k, args) ==
  LET kept == SelectSeq(args, LAMBDA l : l[1] # "const")
      need == k - Len(SelectSeq(args, LAMBDA l : l = Fixed(TRUE)))
  IN  IF need <= 0 THEN Built(g, Fixed(TRUE))
      ELSE IF need > Len(kept) THEN Built(g, Fixed(FALSE))
      ELSE IF need = 1 THEN Junction(g, "or", kept)
      ELSE IF need = Len(kept) THEN Junction(g, "and", kept)
      ELSE Interned(g, Node("atleast", need, SortSeq(kept, Before)))

Made(g, op, k, args) == IF op = "atleast" THEN Voted(g, k, args) ELSE Junction(g, op, args)

(* `Graph::build`: negations go down to the events.                         *)
RECURSIVE Normalised(_, _, _)
Normalised(g, f, positive) ==
  LET argument(all, a) ==
        LET b == Normalised(all.graph, a, positive)
        IN  [graph |-> b.graph, lits |-> Append(all.lits, b.lit)]
      all  == FoldLeft(argument, [graph |-> g, lits |-> << >>], f.args)
      dual == IF f.op = "and" THEN "or" ELSE "and"
  IN CASE f.op = "const" -> Built(g, Fixed((f.value # 0) = positive))
       [] f.op = "event" -> Built(g, Happens(f.event, positive))
       [] f.op = "not"   -> Normalised(g, f.args[1], ~positive)
       [] f.op = "atleast" ->
            Voted(all.graph, IF positive THEN f.k ELSE Len(f.args) - f.k + 1, all.lits)
       [] OTHER -> Junction(all.graph, IF positive THEN f.op ELSE dual, all.lits)

-----------------------------------------------------------------------------
NodesIn(args) == {l[2] : l \in {m \in Range(args) : IsNode(m)}}

RECURSIVE Under(_, _)
Under(g, n) == {n} \cup UNION {Under(g, c) : c \in NodesIn(g[n].args)}

(* How many arguments refer to a node, below a root.                        *)
Referred(g, root, n) ==
  MapThenSumSet(LAMBDA m : Cardinality({i \in DOMAIN g[m].args : g[m].args[i] = NodeLit(n)}),
                Under(g, root))

(* `dissolves`: merged into its only referrer, of the same connective.      *)
Dissolves(g, root, op, c) ==
  op # "atleast" /\ g[c].op = op /\ Referred(g, root, c) = 1

(* `copy` and `flatten`; `out` is the graph copied into.                    *)
RECURSIVE Copied(_, _, _, _)
RECURSIVE Flattened(_, _, _, _, _)

Flattened(g, root, op, args, out) ==
  LET step(acc, l) ==
        IF ~IsNode(l) THEN [acc EXCEPT !.lits = Append(@, l)]
        ELSE IF Dissolves(g, root, op, l[2])
        THEN LET inner == Flattened(g, root, op, g[l[2]].args, acc.graph)
             IN  [graph |-> inner.graph, lits |-> acc.lits \o inner.lits]
        ELSE LET b == Copied(g, root, l[2], acc.graph)
             IN  [graph |-> b.graph, lits |-> Append(acc.lits, b.lit)]
  IN  FoldLeft(step, [graph |-> out, lits |-> << >>], args)

Copied(g, root, n, out) ==
  LET flat == Flattened(g, root, g[n].op, g[n].args, out)
  IN  Made(flat.graph, g[n].op, g[n].k, flat.lits)

(* `coalesce`: a top that is a single event is wrapped in a gate.           *)
Coalesced(g, top) ==
  LET b == IF IsNode(top) THEN Copied(g, top[2], top[2], << >>) ELSE Built(<< >>, top)
  IN  IF IsEvent(b.lit)
      THEN Built(Append(b.graph, Node("or", 0, <<b.lit>>)), NodeLit(Len(b.graph) + 1))
      ELSE b

GraphOf(tree) ==
  LET b == Normalised(<< >>, tree, TRUE) IN Coalesced(b.graph, b.lit)

-----------------------------------------------------------------------------
(* `modules`: the dates of a depth-first traversal.  An event or a node is  *)
(* met at `first` and `last`; a node is left at `second`.                   *)
Thing(l) == <<l[1], l[2]>>
Unmet    == [date |-> 0, first |-> << >>, last |-> << >>, second |-> << >>]

Put(f, x, v) == [y \in DOMAIN f \cup {x} |-> IF y = x THEN v ELSE f[y]]

RECURSIVE Traversed(_, _, _)
Traversed(g, dates, l) ==
  LET x     == Thing(l)
      now   == dates.date + 1
      new   == x \notin DOMAIN dates.first
      met   == [dates EXCEPT !.date = now, !.last = Put(@, x, now),
                             !.first = IF new THEN Put(@, x, now) ELSE @]
      below == FoldLeft(LAMBDA d, a : Traversed(g, d, a), met, g[l[2]].args)
  IN  IF l[1] = "const" THEN dates
      ELSE IF IsEvent(l) \/ ~new THEN met
      ELSE [below EXCEPT !.date = @ + 1, !.second = Put(@, x, below.date + 1)]

RECURSIVE ThingsUnder(_, _)
ThingsUnder(g, n) ==
  {Thing(l) : l \in {m \in Range(g[n].args) : m[1] # "const"}}
    \cup UNION {ThingsUnder(g, c) : c \in NodesIn(g[n].args)}

(* All that is below a module is met between its entry and its exit.        *)
ModulesOf(g, root) ==
  LET d == Traversed(g, Unmet, NodeLit(root))
      IsModule(n) == \A x \in ThingsUnder(g, n) : /\ d.first[NodeLit(n)] < d.first[x]
                                                  /\ d.last[x] < d.second[NodeLit(n)]
  IN  {root} \cup {n \in Under(g, root) : IsModule(n)}
=============================================================================
