--------------------------- MODULE SwitchingLoops ---------------------------
(***************************************************************************)
(* Switching loops (crates/raichu-core/src/loops.rs): the strongly         *)
(* connected components of the dependency graph that hold an automaton     *)
(* which switches on a single threshold.  The components are found by an   *)
(* iterative depth-first search, one step an action; the order of roots    *)
(* and of successors, which is that of indices in the code, is free.       *)
(***************************************************************************)
EXTENDS Dependency

VARIABLE dfs  \* `strongly_connected`: index_of, low, stack, call, components

EmptySearch ==
  [index |-> [n \in {} |-> 0], low |-> [n \in {} |-> 0], stack |-> << >>, call |-> << >>,
   found |-> {}]

Seen == DOMAIN dfs.index
Top  == Last(dfs.call)

Visited(d, n) ==
  LET k == Cardinality(DOMAIN d.index)
  IN  [d EXCEPT !.index = [x \in DOMAIN @ \cup {n} |-> IF x = n THEN k ELSE @[x]],
                !.low   = [x \in DOMAIN @ \cup {n} |-> IF x = n THEN k ELSE @[x]],
                !.stack = Append(@, n),
                !.call  = Append(@, [node |-> n, left |-> Successors(n, Decisions)])]

Lowered(d, n, k) == [d EXCEPT !.low[n] = IF k < @ THEN k ELSE @]

VisitRoot(n) ==
  /\ dfs.call = << >> /\ n \in Nodes \ Seen
  /\ dfs' = Visited(dfs, n)

FollowAnySeen(n) ==
  LET taken == [dfs EXCEPT !.call[Len(dfs.call)].left = @ \ {n}]
  IN  /\ dfs.call # << >> /\ n \in Top.left
      /\ dfs' = IF n \notin Seen THEN Visited(taken, n)
                ELSE Lowered(taken, Top.node, dfs.index[n])

(* The next successor: entered, or noted when it is still on the stack.     *)
Follow(n) ==
  LET taken == [dfs EXCEPT !.call[Len(dfs.call)].left = @ \ {n}]
  IN  /\ dfs.call # << >> /\ n \in Top.left
      /\ dfs' = CASE n \notin Seen -> Visited(taken, n)
                  [] n \in Seen /\ n \in Range(dfs.stack) ->
                       Lowered(taken, Top.node, dfs.index[n])
                  [] OTHER -> taken

Cyclic(component) ==
  Cardinality(component) > 1 \/ \E n \in component : <<n, n>> \in Decisions

(* A root of a component takes what is above it off the stack.              *)
Popped(d, n) ==
  LET at == CHOOSE k \in DOMAIN d.stack : d.stack[k] = n
      component == Range(SubSeq(d.stack, at, Len(d.stack)))
  IN  IF d.low[n] # d.index[n] THEN d
      ELSE [d EXCEPT !.stack = SubSeq(@, 1, at - 1),
                     !.found = IF Cyclic(component) THEN @ \cup {component} ELSE @]

CloseNode ==
  LET n      == Top.node
      closed == [Popped(dfs, n) EXCEPT !.call = Front(@)]
  IN  /\ dfs.call # << >> /\ Top.left = {}
      /\ dfs' = IF closed.call = << >> THEN closed
                ELSE Lowered(closed, Last(closed.call).node, dfs.low[n])

Searched == dfs.call = << >> /\ Seen = Nodes

SearchStep == CloseNode \/ \E n \in Nodes : VisitRoot(n) \/ Follow(n)

-----------------------------------------------------------------------------
(* `thresholds`: the comparisons of an attribute with a constant.           *)
RECURSIVE Thresholds(_)
Thresholds(e) ==
  IF ~Compound(e) THEN {}
  ELSE UNION {Thresholds(e.args[k]) : k \in DOMAIN e.args}
         \cup {<<e.args[i].name, e.args[3 - i].value>> :
                 i \in {j \in {1, 2} : /\ Compares(e) /\ e.args[j].op = "var"
                                      /\ e.args[3 - j].op = "const"
                                      /\ ~e.args[3 - j].boolean}}

ThresholdsFrom(a, s) ==
  UNION {Thresholds(T(t).guard) :
           t \in {u \in OfAutomaton(a) : T(u).source = s /\ T(u).guard # None}}

(* `switches_without_a_band`: some attribute is compared from two states,   *)
(* and always with the same constant.                                       *)
SwitchesWithoutABand(a) ==
  \E x \in Attrs :
    LET comparing == {s \in Range(M.states[a]) : \E p \in ThresholdsFrom(a, s) : p[1] = x}
        constants == {p[2] : p \in {q \in UNION {ThresholdsFrom(a, s) : s \in comparing} :
                                      q[1] = x}}
    IN  Cardinality(comparing) >= 2 /\ Cardinality(constants) = 1

(* `switching_loops`, from the components found.                            *)
LoopsAmong(components) ==
  {c \in components : \E a \in Automata : Aut(a) \in c /\ SwitchesWithoutABand(a)}

-----------------------------------------------------------------------------
(* The cycles by definition: the nodes that lead to each other.            *)
CyclesOf(forward) ==
  LET after == [n \in Nodes |-> Spread({n}, {}, forward)]
  IN  {{n \in after[m] : m \in after[n]} : m \in {n \in Nodes : n \in after[n]}}

Loops == CyclesOf([n \in Nodes |-> Successors(n, Decisions)])

(* The search, which closes a node before its ancestors and lowers marks    *)
(* only through the stack, ends with the cycles of the graph, each whole    *)
(* and once, in whatever order nodes are taken; so the warnings depend on   *)
(* the model and not on the order of its declarations (loops.rs: "in a      *)
(* deterministic order").                                                   *)
LoopsAreTheCycles ==
  IF Searched THEN dfs.found = Loops ELSE dfs.found \subseteq Loops
=============================================================================
