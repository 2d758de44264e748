----------------------------- MODULE CycleGroups -----------------------------
(***************************************************************************)
(* What is decided of a model from its compiled tables, before any run.    *)
(*                                                                         *)
(* Which cycle groups the minimal-sequence reduction may cancel            *)
(* (crates/raichu-core/src/cycle_groups.rs): a group is kept for a target  *)
(* when its effect reaches the target's automaton through something that   *)
(* remembers.  The witness path is left out.                               *)
(*                                                                         *)
(* Which modes are sealed by an in port nothing feeds                      *)
(* (crates/raichu-core/src/triggers.rs): guards are folded with every      *)
(* unfed port replaced by what an aggregation over nothing answers.  A     *)
(* fold that depends on the run is `None`.                                 *)
(***************************************************************************)
EXTENDS Dependency

(* `collect_groups`: a group is a component and a name; what was declared   *)
(* is what its first transition declares.                                   *)
Groups       == {<<T(t).component, T(t).group>> : t \in {u \in Trans : T(u).group # None}}
MembersOf(g) == {t \in Trans : <<T(t).component, T(t).group>> = g}
AutomataOf(g) == {T(t).aut : t \in MembersOf(g)}
WrittenBy(g)  == UNION {DOMAIN T(t).effects : t \in MembersOf(g)}
Declared(g)   == T(Min(MembersOf(g))).cancellation

RestoredOnce(x) ==
  LET writers == {t \in Trans : x \in DOMAIN T(t).effects}
      restores(t) == /\ x \in DOMAIN T(t).effects /\ T(t).effects[x].op = "const"
                     /\ T(t).effects[x].value = M.init[x]
  IN  \E g \in Groups, a \in Automata :
        /\ writers \subseteq MembersOf(g) /\ AutomataOf(g) = {a}
        /\ \A t \in writers : T(t).effects[x].op = "const" /\ T(t).kind \in {"failure", "repair"}
        /\ \E t \in MembersOf(g) : T(t).kind = "repair" /\ restores(t)

(* `restored_latch`: one group of one automaton sets it on failure, and     *)
(* every repair puts its initial value back.                                *)
RestoredLatch(x) ==
  LET writers == {t \in Trans : x \in DOMAIN T(t).effects}
      restores(t) == /\ x \in DOMAIN T(t).effects /\ T(t).effects[x].op = "const"
                     /\ T(t).effects[x].value = M.init[x]
  IN  \E g \in Groups, a \in Automata :
        LET repairs == {t \in MembersOf(g) : T(t).kind = "repair"}
        IN  /\ writers \subseteq MembersOf(g)
            /\ \A t \in writers :
                 /\ T(t).effects[x].op = "const"
                 /\ T(t).kind = "failure" \/ (T(t).kind = "repair" /\ restores(t))
            /\ AutomataOf(g) = {a}
            /\ repairs # {} /\ \A t \in repairs : restores(t)

(* `memory_vars`.                                                           *)
MemoryVars == DOMAIN M.moved \cup {x \in Written : ~RestoredLatch(x)}

(* `two_state_switch`: two states, each left at once for the other, without *)
(* effect, on a guard that does not read the automaton itself.              *)
TwoStateSwitch(a) ==
  /\ Len(M.states[a]) = 2 /\ Cardinality(OfAutomaton(a)) = 2
  /\ {T(t).source : t \in OfAutomaton(a)} = Range(M.states[a])
  /\ \A t \in OfAutomaton(a) :
       /\ DOMAIN T(t).effects = {} /\ Len(T(t).targets) = 1 /\ T(t).law = "instant"
       /\ T(t).guard # None
       /\ Aut(a) \notin ReadBy(T(t).guard)

Negates(g, h) == h = Op("not", <<g>>)

(* An operand compared with a Boolean: the operand and the Boolean.         *)
BoolEq(g) ==
  IF g.op # "eq" THEN {}
  ELSE {<<g.args[i], g.args[3 - i]>> :
          i \in {j \in {1, 2} : g.args[3 - j].op = "const" /\ g.args[3 - j].boolean}}

Complementary(g, h) ==
  \/ Negates(g, h)
  \/ \E p \in BoolEq(g), q \in BoolEq(h) : p[1] = q[1] /\ p[2] # q[2]

GuardsOf(a) == {T(t).guard : t \in OfAutomaton(a)}

Memoryless(a) == TwoStateSwitch(a) /\ \E g, h \in GuardsOf(a) : Negates(g, h)

(* Every move of it is an event of the sequence, in some group.             *)
Monitored(a) ==
  OfAutomaton(a) # {} /\ \A t \in OfAutomaton(a) : T(t).monitored /\ T(t).group # None

Follower(a) ==
  Monitored(a) /\ TwoStateSwitch(a) /\ \E g, h \in GuardsOf(a) : Complementary(g, h)

(* `echoed`: its state is read by recorded followers only, through          *)
(* variables that remember nothing and do not read those followers.         *)
Echoed(a, readers, memory) ==
  LET variables == [n \in Nodes |-> readers[n] \cap {Var(x) : x \in Attrs}]
      behind  == Spread({Aut(a)}, {Aut(a)}, variables)
      reached == UNION {readers[n] : n \in behind} \ behind
  IN  /\ \A x \in memory : Var(x) \notin behind
      /\ reached # {} /\ reached \subseteq {Aut(b) : b \in {c \in Automata : Follower(c)}}
      /\ \A n \in reached : readers[n] \cap (behind \ {Aut(a)}) = {}

TargetStates(a) ==
  {M.targets[k].state : k \in {j \in DOMAIN M.targets : M.targets[j].aut = a}}

(* `Facts::new`, computed once for all groups.                              *)
Facts(readers, memory) ==
  [readers    |-> readers,
   memory     |-> memory,
   timed      |-> {T(t).aut : t \in {u \in Trans : T(u).policy \in {"resume", "continue"}}},
   recorded   |-> {a \in Automata : Monitored(a) \/ Echoed(a, readers, memory)},
   memoryless |-> {a \in Automata : Memoryless(a)},
   constant   |-> {a \in Automata : TargetStates(a) # {} /\
                     Len(M.states[a]) - Cardinality(TargetStates(a)) = 1}]

(* `remembers`: entering this node, for a search from these automata.       *)
Remembers(f, n, own) ==
  \/ \E x \in f.memory : n = Var(x)
  \/ \E a \in Automata \ own :
       n = Aut(a) /\ (a \in f.timed \/ a \notin f.recorded \cup f.memoryless)

(* The search: a node, and whether memory lies behind it.  It never goes    *)
(* through a target that is constant until it is reached.                   *)
RECURSIVE Search(_, _, _, _)
Search(f, own, frontier, seen) ==
  LET crossed == {Aut(a) : a \in f.constant}
      more == UNION {{<<n, s[2] \/ Remembers(f, n, own)>> : n \in f.readers[s[1]] \ crossed} :
                       s \in frontier} \ seen
  IN  IF more = {} THEN seen ELSE Search(f, own, more, seen \cup more)

ReachesThroughMemory(f, g, a) ==
  LET own   == AutomataOf(g)
      start == {<<Aut(b), FALSE>> : b \in own}
                 \cup {<<Var(x), x \in f.memory>> : x \in WrittenBy(g)}
      itself == a \in f.timed \/ a \notin f.constant \cup f.memoryless
  IN  \E s \in Search(f, own, start, start) : Aut(a) \in f.readers[s[1]] /\ (s[2] \/ itself)

(* `cycle_groups`: the groups not cancelled, for each target.               *)
KeptFor(f, k) ==
  {g \in Groups : \/ Declared(g) = "never"
                  \/ Declared(g) = "auto" /\ ReachesThroughMemory(f, g, M.targets[k].aut)}

-----------------------------------------------------------------------------
(* Unfed triggers.                                                         *)

(* `unfed_in_ports`.                                                        *)
Unfed == {p \in DOMAIN M.ports : M.ports[p] = << >>}

(* `definitions` and `claim`: what an attribute is for a fold; two writers  *)
(* and it moves.                                                            *)
Definition(x) ==
  CASE x \in DOMAIN M.given /\ M.given[x].by = "equation" -> "solved"
    [] x \in DOMAIN M.given /\ M.given[x].by \in {"function", "shared"} -> "moving"
    [] x \in DOMAIN M.moved /\ M.moved[x].by = "ode"      -> "moving"
    [] OTHER                                              -> "held"

(* An automaton assumed in a state, or out of it (`Fold::assuming`).        *)
Assumed(pin, a, s) ==
  CASE pin = None \/ pin.aut # a       -> None
    [] pin # None /\ pin.settled       -> Truth(pin.state = s)
    [] OTHER -> IF pin.state = s THEN 0 ELSE None

ConnectiveOfKnown(vs, absorbing) ==
  IF \E k \in DOMAIN vs : vs[k] = absorbing THEN absorbing ELSE 1 - absorbing

(* `and` and `or`: one operand may settle the whole.                        *)
Connective(vs, absorbing) ==
  CASE \E k \in DOMAIN vs : vs[k] = absorbing -> absorbing
    [] \E k \in DOMAIN vs : vs[k] = None      -> None
    [] OTHER                                  -> 1 - absorbing

(* `fold`; `open` holds the attributes whose definition is being crossed.   *)
RECURSIVE Fold(_, _, _)
Fold(e, pin, open) ==
  LET operands == [k \in DOMAIN e.args |-> Fold(e.args[k], pin, open)]
  IN CASE e.op = "const"  -> e.value
       [] e.op = "time"   -> None
       [] e.op = "active" -> Assumed(pin, e.aut, e.state)
       [] e.op = "port"   -> IF e.port \in Unfed THEN Aggregate(e.agg, << >>) ELSE None
       [] e.op = "var"    ->
            CASE Definition(e.name) = "held" -> M.init[e.name]
              [] Definition(e.name) = "solved" /\ e.name \notin open ->
                   Fold(M.given[e.name].expr, pin, open \cup {e.name})
              [] OTHER -> None
       [] e.op = "and"    -> Connective(operands, 0)
       [] e.op = "or"     -> Connective(operands, 1)
       [] e.op = "if"     ->
            IF operands[1] = None THEN None
            ELSE IF operands[1] # 0 THEN operands[2] ELSE operands[3]
       [] OTHER           ->
            IF \E k \in DOMAIN operands : operands[k] = None THEN None
            ELSE Combined(e.op, operands)

(* The guard of a transition, folded; no guard always holds.                *)
Pinned(t) == IF T(t).guard = None THEN 1 ELSE Fold(T(t).guard, None, {})

(* `reachable`: the states that no transition pinned false keeps apart.     *)
RECURSIVE ReachableFrom(_, _)
ReachableFrom(a, seen) ==
  LET more == UNION {Range(T(t).targets) :
                       t \in {u \in OfAutomaton(a) : T(u).source \in seen /\ Pinned(u) # 0}} \ seen
  IN  IF more = {} THEN seen ELSE ReachableFrom(a, seen \cup more)

(* `collect_unfed`: the unfed ports read, through the definitions crossed.  *)
RECURSIVE UnfedIn(_, _)
UnfedIn(e, open) ==
  CASE e.op = "port" -> {e.port} \cap Unfed
    [] e.op = "var" /\ Definition(e.name) = "solved" /\ e.name \notin open ->
         UnfedIn(M.given[e.name].expr, open \cup {e.name})
    [] Compound(e) -> UNION {UnfedIn(e.args[k], open) : k \in DOMAIN e.args}
    [] OTHER -> {}

(* `quantities` that read a mode.                                           *)
RECURSIVE ReadsState(_, _, _)
ReadsState(e, a, s) ==
  \/ e = Active(a, s)
  \/ Compound(e) /\ \E k \in DOMAIN e.args : ReadsState(e.args[k], a, s)

Quantities ==
  {M.given[x].expr : x \in {y \in DOMAIN M.given : M.given[y].by # "program"}}
    \cup {M.moved[x].expr : x \in {y \in DOMAIN M.moved : M.moved[y].by = "ode"}}

(* `seal_flatters`: something that is nothing elsewhere is not, once the    *)
(* mode is settled.                                                         *)
SealFlatters(a, s) ==
  \E e \in Quantities :
    /\ ReadsState(e, a, s)
    /\ Fold(e, [aut |-> a, state |-> s, settled |-> FALSE], {}) = 0
    /\ Fold(e, [aut |-> a, state |-> s, settled |-> TRUE], {}) # 0

(* `unfed_triggers`: the modes reported.                                    *)
Sealed(a, s) ==
  LET leaving == {t \in OfAutomaton(a) : T(t).source = s}
  IN  /\ leaving # {} /\ \A t \in leaving : Pinned(t) = 0
      /\ \E t \in leaving : UnfedIn(T(t).guard, {}) # {}
      /\ SealFlatters(a, s)

SealedModes ==
  UNION {{<<a, s>> : s \in {r \in ReachableFrom(a, {M.states[a][1]}) : Sealed(a, r)}} :
           a \in Automata}
=============================================================================
