----------------------------- MODULE Dependency -----------------------------
(***************************************************************************)
(* A compiled model, and its dependency graph                              *)
(* (crates/raichu-core/src/dependency.rs): which quantity reads which.     *)
(*                                                                         *)
(* An attribute is `given` by an expression of others (an equation, a      *)
(* solved block, an allocation, a sensitive function or a program; it is   *)
(* `shared` when two write it, an equation and a function or two functions,*)
(* of one and the same expression: no model here has two that disagree), or*)
(* `moved` when time passes (an ODE, or the output of a unit), or only     *)
(* written by the effects of transitions.  Those in `booleans` are Boolean.*)
(***************************************************************************)
EXTENDS Integers, Sequences, FiniteSets, FiniteSetsExt, SequencesExt

CONSTANTS
  StudyOf,  \* the models considered, a function from names to them
  None      \* the absent value of an option

VARIABLE M  \* the model; never changes

-----------------------------------------------------------------------------
(* Expressions (`CExpr` of crates/raichu-core/src/compile.rs): what one     *)
(* reads and what it is worth.  Booleans are 0 and 1; divisions and         *)
(* transcendental functions are left out.                                  *)
Const(v)      == [op |-> "const", value |-> v, boolean |-> FALSE]
Attr(x)       == [op |-> "var", name |-> x]
Active(a, s)  == [op |-> "active", aut |-> a, state |-> s]
Port(p, agg)  == [op |-> "port", port |-> p, agg |-> agg]
Op(op, args)  == [op |-> op, args |-> args]
Clock         == [op |-> "time"]

(* A node of the dependency graph.                                          *)
Var(x) == <<"var", x>>
Aut(a) == <<"aut", a>>

Truth(b) == IF b THEN 1 ELSE 0
Bool(b)  == [op |-> "const", value |-> Truth(b), boolean |-> TRUE]

Total(vs) == FoldLeft(LAMBDA sum, v : sum + v, 0, vs)

(* `eval_agg`; over no source, the answer of an empty port.                 *)
Aggregate(agg, vs) ==
  CASE agg = "sum"   -> Total(vs)
    [] agg = "count" -> Len(vs)
    [] agg = "all"   -> Truth(\A k \in DOMAIN vs : vs[k] # 0)
    [] agg = "any"   -> Truth(\E k \in DOMAIN vs : vs[k] # 0)

(* One operation on the values of its operands.                             *)
Combined(op, vs) ==
  CASE op = "and" -> Truth(\A k \in DOMAIN vs : vs[k] # 0)
    [] op = "or"  -> Truth(\E k \in DOMAIN vs : vs[k] # 0)
    [] op = "not" -> 1 - vs[1]
    [] op = "eq"  -> Truth(vs[1] = vs[2])
    [] op = "ge"  -> Truth(vs[1] >= vs[2])
    [] op = "ne"  -> Truth(vs[1] # vs[2])
    [] op = "gt"  -> Truth(vs[1] > vs[2])
    [] op = "le"  -> Truth(vs[1] <= vs[2])
    [] op = "lt"  -> Truth(vs[1] < vs[2])
    [] op = "add" -> Total(vs)
    [] op = "sub" -> vs[1] - vs[2]
    [] op = "mul" -> FoldLeft(LAMBDA product, v : product * v, 1, vs)
    [] op = "min" -> Min(Range(vs))
    [] op = "max" -> Max(Range(vs))
    [] op = "if"  -> IF vs[1] # 0 THEN vs[2] ELSE vs[3]

Compares(e) == e.op \in {"eq", "ne", "gt", "ge", "lt", "le"}
Compound(e) == e.op \notin {"const", "var", "active", "port", "time"}

(* `collect_sensitivity`; `sources` gives the attributes behind each port.  *)
RECURSIVE Reads(_, _)
Reads(e, sources) ==
  CASE e.op = "var"    -> {Var(e.name)}
    [] e.op = "active" -> {Aut(e.aut)}
    [] e.op = "port"   -> {Var(x) : x \in Range(sources[e.port])}
    [] Compound(e)     -> UNION {Reads(e.args[k], sources) : k \in DOMAIN e.args}
    [] OTHER           -> {}

-----------------------------------------------------------------------------
(* The model.                                                              *)
T(t)     == M.trans[t]
Trans    == DOMAIN M.trans
Automata == DOMAIN M.states
Attrs    == DOMAIN M.init

OfAutomaton(a) == {t \in Trans : T(t).aut = a}
Written        == UNION {DOMAIN T(t).effects : t \in Trans}

IsTransition(m, d) ==
  /\ d.aut \in DOMAIN m.states /\ d.source \in Range(m.states[d.aut])
  /\ Range(d.targets) \subseteq Range(m.states[d.aut]) /\ d.targets # << >>
  /\ d.law \in {"instant", "later"} /\ d.policy \in {"reset", "resume", "continue"}
  /\ d.monitored \in BOOLEAN /\ d.kind \in {"failure", "repair", "observation", None}
  /\ d.cancellation \in {"auto", "never", "always"}
  /\ DOMAIN d.effects \subseteq DOMAIN m.init

(* `check_transition_effects`: effects write what nothing else does.        *)
ASSUME DependencyAssumption ==
  \A n \in DOMAIN StudyOf : LET m == StudyOf[n] IN
    /\ \A t \in DOMAIN m.trans :
         /\ IsTransition(m, m.trans[t])
         /\ DOMAIN m.trans[t].effects \cap (DOMAIN m.given \cup DOMAIN m.moved) = {}
    /\ DOMAIN m.given \cap DOMAIN m.moved = {} /\ m.booleans \subseteq DOMAIN m.init
    /\ \A k \in DOMAIN m.targets :
         m.targets[k].state \in Range(m.states[m.targets[k].aut])

ReadBy(e) == Reads(e, M.ports)

(* What decides a mode and what defines a value: `EdgeSet::Decisions`.      *)
Decisions ==
  UNION {{Aut(T(t).aut)} \X ReadBy(T(t).guard) : t \in {u \in Trans : T(u).guard # None}}
    \cup UNION {{Var(x)} \X ReadBy(M.given[x].expr) :
                  x \in {y \in DOMAIN M.given : M.given[y].by # "program"}}
    \cup UNION {{Var(x)} \X ReadBy(M.moved[x].expr) :
                  x \in {y \in DOMAIN M.moved : M.moved[y].by = "ode"}}

(* And everything else through which one quantity changes another:          *)
(* `EdgeSet::Influences`.                                                   *)
Influences ==
  Decisions
    \cup UNION {{Aut(T(t).aut)} \X ReadBy(T(t).rate) : t \in {u \in Trans : T(u).rate # None}}
    \cup UNION {UNION {{Var(x)} \X ({Aut(T(t).aut)} \cup ReadBy(T(t).effects[x])) :
                         x \in DOMAIN T(t).effects} : t \in Trans}
    \cup UNION {{Var(x)} \X ReadBy(M.given[x].expr) : x \in DOMAIN M.given}
    \cup UNION {{Var(x)} \X ReadBy(M.moved[x].expr) : x \in DOMAIN M.moved}

Nodes == {Var(x) : x \in Attrs} \cup {Aut(a) : a \in Automata}

Successors(node, edges) == {n \in Nodes : <<node, n>> \in edges}

(* Who reads each node, the graph the other way round.                      *)
ReadersIn(edges) == [node \in Nodes |-> {n \in Nodes : <<n, node>> \in edges}]

(* Nodes reached from some through a relation.                              *)
RECURSIVE Spread(_, _, _)
Spread(frontier, seen, relation) ==
  LET more == UNION {relation[n] : n \in frontier} \ seen
  IN  IF more = {} THEN seen ELSE Spread(more, seen \cup more, relation)
=============================================================================
