------------------------------ MODULE Quantify ------------------------------
(***************************************************************************)
(* The quantification of a fault tree (crates/raichu-fta/src/quantify.rs): *)
(* its graph is cut into modules, each is valued below its parent, by its  *)
(* diagram or, when that outgrows its budget, by its cut sets under        *)
(* cutoffs, and the answer is put together.                                *)
(*                                                                         *)
(* Whether a diagram outgrows the budget is a choice.  Floating point is   *)
(* exact here; gates other than the top are not valued.                    *)
(***************************************************************************)
EXTENDS Diagrams, TreeGraph, Cutoffs
LOCAL INSTANCE Fractions

VARIABLE job  \* the quantification that runs, or Absent

quantifyVars == <<job, search>>

(* A tree, the probabilities of its events, and the cutoffs.                *)
Started(tree, p, cutoffs) ==
  LET b == GraphOf(tree)
  IN  [tree |-> tree, p |-> p, cutoffs |-> cutoffs, graph |-> b.graph, root |-> b.lit,
       modules |-> IF IsNode(b.lit) THEN Ascending(ModulesOf(b.graph, b.lit[2])) ELSE << >>,
       done |-> << >>, refused |-> FALSE]

Quantifying == job # Absent /\ search = Absent /\ ~job.refused
Module      == job.modules[Len(job.done) + 1]

(* A result, by the node of its module.                                     *)
Position(n)   == CHOOSE i \in DOMAIN job.done : job.modules[i] = n
ResultOf(n)   == job.done[Position(n)]
Submodule(m, n) == n # m /\ n \in Range(job.modules)

(* A module that came out constant is that constant in its parent.          *)
IsConstant(n) ==
  LET r == ResultOf(n)
  IN  ~r.truncated /\ r.support = {} /\ r.value \in {<<0, 1>>, <<1, 1>>}

-----------------------------------------------------------------------------
(* `order`: the variables of a module, as they are first met.               *)
RECURSIVE Ordered(_, _, _)
Ordered(m, n, met) ==
  LET add(acc, key) == IF key \in Range(acc) THEN acc ELSE Append(acc, key)
      step(acc, l) ==
        IF IsEvent(l) THEN add(acc, Thing(l))
        ELSE IF ~Submodule(m, l[2]) THEN Ordered(m, l[2], acc)
        ELSE IF IsConstant(l[2]) THEN acc ELSE add(acc, l)
  IN  FoldLeft(step, met, job.graph[n].args)

Keys(m) == Ordered(m, m, << >>)

LevelIn(keys, l) == CHOOSE i \in DOMAIN keys : keys[i] = Thing(l)

(* Values, and upper bounds where all of them are certified.                *)
Valued(keys) ==
  [i \in DOMAIN keys |-> IF IsEvent(keys[i]) THEN job.p[keys[i][2]] ELSE ResultOf(keys[i][2]).value]

Certified(keys) == \A i \in DOMAIN keys : IsNode(keys[i]) => ResultOf(keys[i][2]).upper # Absent

Bounded(keys) ==
  [i \in DOMAIN keys |-> IF IsEvent(keys[i]) THEN job.p[keys[i][2]] ELSE ResultOf(keys[i][2]).upper]

InputsExact(keys) == \A i \in DOMAIN keys : IsNode(keys[i]) => ResultOf(keys[i][2]).exact

(* `build`.                                                                 *)
RECURSIVE Diagram(_, _, _)
Diagram(m, n, keys) ==
  LET node == job.graph[n]
      of(l) ==
        IF IsEvent(l) THEN Literal(LevelIn(keys, l), l[3])
        ELSE IF ~Submodule(m, l[2]) THEN Diagram(m, l[2], keys)
        ELSE IF IsConstant(l[2]) THEN ResultOf(l[2]).diagram
        ELSE Literal(LevelIn(keys, l), TRUE)
      ds == [i \in DOMAIN node.args |-> of(node.args[i])]
  IN  IF node.op = "atleast" THEN AtLeastOf(node.k, ds) ELSE Balanced(node.op, ds)

(* `module`, by its diagram.                                                *)
ByDiagram(m) ==
  LET keys == Keys(m)
      d    == Diagram(m, m, keys)
  IN  [method |-> "bdd", keys |-> keys, diagram |-> d, support |-> Levels(d),
       family |-> Absent, truncated |-> FALSE,
       value    |-> Probability(d, Valued(keys)),
       exact    |-> InputsExact(keys),
       monotone |-> IsMonotone(d),
       upper    |-> IF InputsExact(keys) THEN Probability(d, Valued(keys))
                    ELSE IF IsMonotone(d) /\ Certified(keys) THEN Probability(d, Bounded(keys))
                    ELSE Absent]

ValueModule ==
  /\ Quantifying /\ Len(job.done) < Len(job.modules)
  /\ job' = [job EXCEPT !.done = Append(@, ByDiagram(Module))]
  /\ UNCHANGED search

-----------------------------------------------------------------------------
(* `local_formula`: the gates of a module, children first.                  *)
RECURSIVE Local(_, _)
Local(m, n) ==
  {n} \cup UNION {Local(m, c) : c \in {d \in NodesIn(job.graph[n].args) : ~Submodule(m, d)}}

Formula(m, keys) ==
  LET nodes == Ascending(Local(m, m))
      index(n) == CHOOSE i \in DOMAIN nodes : nodes[i] = n
      of(l) ==
        IF IsEvent(l) THEN Chosen(LevelIn(keys, l))
        ELSE IF ~Submodule(m, l[2]) THEN Gated(index(l[2]))
        ELSE IF IsConstant(l[2]) THEN Always(ResultOf(l[2]).value = <<1, 1>>)
        ELSE Chosen(LevelIn(keys, l))
  IN  [i \in DOMAIN nodes |->
         LET node == job.graph[nodes[i]]
         IN  [op |-> node.op, k |-> node.k, args |-> [j \in DOMAIN node.args |-> of(node.args[j])]]]

HasNegation(m) ==
  \E n \in Local(m, m) : \E l \in Range(job.graph[n].args) : IsEvent(l) /\ ~l[3]

BoundsIn(keys) == IF Certified(keys) THEN Bounded(keys) ELSE Valued(keys)

(* Too large for its diagram: its cut sets, of a coherent module only.      *)
Outgrow ==
  /\ Quantifying /\ Len(job.done) < Len(job.modules)
  /\ IF HasNegation(Module)
     THEN job' = [job EXCEPT !.refused = TRUE] /\ UNCHANGED search
     ELSE /\ search' = Extraction(Formula(Module, Keys(Module)), BoundsIn(Keys(Module)), job.cutoffs)
          /\ UNCHANGED job

(* One minus the product of what each set leaves (`mcub`).                  *)
MinCutBound(sets, p) ==
  LET all(s) == FoldLeft(Times, <<1, 1>>, [i \in DOMAIN s |-> p[s[i]]])
      seq == Enumerated(sets)
  IN  Complement(FoldLeft(Times, <<1, 1>>,
        [i \in DOMAIN seq |-> Complement(all(Ascending(seq[i])))]))

ByCutSets(m) ==
  LET keys   == Keys(m)
      family == MinimalFamily(FamilyOf(Sets(search)))
      bound  == Lesser(Pivotal(family, search.p), MinCutBound(SetsOf(family), search.p))
  IN  [method |-> "cut_sets", keys |-> keys, diagram |-> IF family = ONE THEN ONE ELSE ZERO,
       support |-> Levels(family), family |-> family, truncated |-> search.truncated,
       value |-> Pivotal(family, Valued(keys)), exact |-> FALSE, monotone |-> TRUE,
       upper |-> IF Certified(keys) THEN Lesser(<<1, 1>>, Plus(bound, search.neglected)) ELSE Absent]

Collect ==
  /\ job # Absent /\ search # Absent /\ search.stack = << >>
  /\ job' = [job EXCEPT !.done = Append(@, ByCutSets(Module))]
  /\ search' = Absent

QuantifyStep == ValueModule \/ Outgrow \/ Collect \/ (ExtractStep /\ UNCHANGED job)

-----------------------------------------------------------------------------
Quantified ==
  job # Absent /\ search = Absent /\ ~job.refused /\ Len(job.done) = Len(job.modules)

TopResult == IF IsNode(job.root) THEN ResultOf(job.root[2]) ELSE Absent

RECURSIVE LiveBySupport(_)
LiveBySupport(m) ==
  LET r == ResultOf(m)
  IN  {m} \cup UNION {LiveBySupport(r.keys[i][2]) : i \in {j \in r.support : IsNode(r.keys[j])}}

(* The modules that take part: a module its parent absorbed does not.       *)
RECURSIVE Live(_)
Live(m) ==
  LET r == ResultOf(m)
  IN  {m} \cup UNION {Live(r.keys[i][2]) :
         i \in {j \in DOMAIN r.keys : IsNode(r.keys[j]) /\ (j \in r.support \/ r.method = "cut_sets")}}

LiveResults == {ResultOf(m) : m \in Live(job.root[2])}
IsCoherent  == \A r \in LiveResults : r.monotone
IsExact     == \A r \in LiveResults : r.exact
IsComplete  == \A r \in LiveResults : ~r.truncated

FamilyIn(r) == IF r.family = Absent THEN MinimalSolutions(r.diagram) ELSE r.family

(* `cut_sets`: expanded through the modules, and counted.                   *)
RECURSIVE ListedFor(_)
ListedFor(m) ==
  LET r == ResultOf(m)
      of(i) == IF IsEvent(r.keys[i]) THEN {{r.keys[i][2]}} ELSE ListedFor(r.keys[i][2])
      through(sets, i) == {s \cup t : s \in sets, t \in of(i)}
  IN  UNION {FoldLeft(through, {{}}, Ascending(set)) : set \in SetsOf(FamilyIn(r))}

RECURSIVE CountFor(_)
CountFor(m) ==
  LET r == ResultOf(m)
  IN  WeightedCount(FamilyIn(r), [i \in DOMAIN r.keys |->
        IF IsEvent(r.keys[i]) THEN 1 ELSE CountFor(r.keys[i][2])])

(* The importance of an event, chained through the modules, as what makes   *)
(* the top more probable and what makes it less.                            *)
RECURSIVE Birnbaum(_, _)
Birnbaum(m, e) ==
  LET r == ResultOf(m)
      slope(i) == Derivative(r.diagram, i, Valued(r.keys))
      inner(i) == IF IsEvent(r.keys[i])
                  THEN (IF r.keys[i][2] = e THEN << <<1, 1>>, <<0, 1>> >> ELSE << <<0, 1>>, <<0, 1>> >>)
                  ELSE Birnbaum(r.keys[i][2], e)
      add(acc, i) ==
        LET a == slope(i) b == inner(i)
        IN  <<Plus(acc[1], Plus(Times(a[1], b[1]), Times(a[2], b[2]))),
              Plus(acc[2], Plus(Times(a[1], b[2]), Times(a[2], b[1])))>>
  IN  FoldLeft(add, << <<0, 1>>, <<0, 1>> >>, Ascending(r.support))

-----------------------------------------------------------------------------
(* The tree itself: its value on one set of events, and its probability.    *)
RECURSIVE Truly(_, _)
Truly(f, events) ==
  LET held == {i \in DOMAIN f.args : Truly(f.args[i], events)}
  IN CASE f.op = "const" -> f.value # 0
       [] f.op = "event" -> f.event \in events
       [] f.op = "not"   -> held = {}
       [] f.op = "or"    -> held # {}
       [] f.op = "and"   -> held = DOMAIN f.args
       [] f.op = "atleast" -> Cardinality(held) >= f.k

Solutions    == {events \in SUBSET DOMAIN job.p : Truly(job.tree, events)}
MinimalOf(S) == {s \in S : ~\E r \in S : r \subseteq s /\ r # s}

Chance(p) ==
  MapThenFoldSet(Plus, <<0, 1>>, LAMBDA s : Weight(p, s), LAMBDA S : CHOOSE x \in S : TRUE, Solutions)

ChanceGiven(e, v) == Chance([job.p EXCEPT ![e] = <<v, 1>>])

(* Exact when it says so, and never above the bound it certifies            *)
(* (quantify.rs:262-272).                                                   *)
ValueIsTrue ==
  /\ IsExact => TopResult.value = Chance(job.p)
  /\ TopResult.upper # Absent => AtMost(Chance(job.p), TopResult.upper)

(* The importances, chained through the modules, are what the certainty of  *)
(* an event rather than its impossibility changes (quantify.rs:22-26).      *)
SlopesAreTrue ==
  IsExact => \A e \in DOMAIN job.p :
    LET b == Birnbaum(job.root[2], e)
    IN  Plus(b[1], ChanceGiven(e, 0)) = Plus(b[2], ChanceGiven(e, 1))

(* Coherent means monotone in every event; then what is listed are cut      *)
(* sets, and where no cutoff removed any, all the minimal ones and their    *)
(* count (quantify.rs:276-292).                                             *)
CutSetsAreTrue ==
  LET listed == ListedFor(job.root[2])
  IN  /\ IsCoherent = (\A s \in Solutions, e \in DOMAIN job.p : s \cup {e} \in Solutions)
      /\ IsCoherent => listed \subseteq Solutions
      /\ IsCoherent /\ IsComplete =>
           listed = MinimalOf(Solutions) /\ CountFor(job.root[2]) = Cardinality(listed)

(* Whatever is shared, negated, simplified, cut into modules and valued by  *)
(* one method or the other, the answer is that of the tree as it was given. *)
QuantifiedIsTrue ==
  Quantified =>
    IF TopResult = Absent
    THEN Solutions = IF job.root[2] THEN SUBSET DOMAIN job.p ELSE {}
    ELSE ValueIsTrue /\ SlopesAreTrue /\ CutSetsAreTrue
=============================================================================
