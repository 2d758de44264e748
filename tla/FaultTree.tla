----------------------------- MODULE FaultTree -----------------------------
(***************************************************************************)
(* Fault trees by backward chaining (crates/raichu-core/src/fault_tree.rs). *)
(* A state is entered by firing a transition into it; a firing is its draw *)
(* (a basic event) and its source and its guard; a guard is unrolled down  *)
(* to states, its negations pushed onto them.                              *)
(*                                                                         *)
(* A tree is an expression over basic events, `Refused` one that cannot be *)
(* generated.  Labels and identifiers of gates, laws, profiles, watched    *)
(* boundaries and node budgets are left out.                               *)
(***************************************************************************)
EXTENDS Dependency

Refused   == [op |-> "refused"]
If(c, g, h) == Op("if", <<c, g, h>>)
Vote(k, args) == [op |-> "atleast", k |-> k, args |-> args]
Event(t, s) == [op |-> "event", event |-> <<t, s>>]

HasArgs(e) == "args" \in DOMAIN e

RECURSIVE StatesIn(_)
StatesIn(e) ==
  IF e.op = "active" THEN {<<e.aut, e.state>>}
  ELSE IF HasArgs(e) THEN UNION {StatesIn(e.args[k]) : k \in DOMAIN e.args} ELSE {}

ReadsStates(e) == StatesIn(e) # {}

(* `frozen`: the value of what reads no state and no attribute.             *)
RECURSIVE Worth(_)
Worth(e) ==
  IF e.op = "const" THEN e.value
  ELSE Combined(e.op, [k \in DOMAIN e.args |-> Worth(e.args[k])])

RECURSIVE IsBoolean(_)
IsBoolean(e) ==
  CASE e.op = "const" -> e.boolean
    [] e.op = "if"    -> IsBoolean(e.args[2])
    [] OTHER          -> e.op \in {"active", "and", "or", "not"} \/ Compares(e)

Constant(e) == [op |-> "const", value |-> Worth(e), boolean |-> IsBoolean(e)]

(* An attribute that nothing writes, a constant of its own type.            *)
NeverWritten(x) == [op |-> "const", value |-> M.init[x], boolean |-> x \in M.booleans]

-----------------------------------------------------------------------------
(* `writers`: what can be unrolled is written once, by an expression of the *)
(* present state.                                                           *)
Opaque(x) ==
  \/ x \in Written \cup DOMAIN M.moved
  \/ x \in DOMAIN M.given /\ M.given[x].by \notin {"equation", "function"}

RECURSIVE Unrolled(_, _)
RECURSIVE Resolved(_, _)

(* `unroll_aggregate`.                                                      *)
UnrolledPort(e, open) ==
  LET sources == M.ports[e.port]
      parts   == [k \in DOMAIN sources |-> Resolved(sources[k], open)]
      counted(k) == IF sources[k] \in M.booleans THEN If(parts[k], Const(1), Const(0)) ELSE parts[k]
  IN  IF Refused \in Range(parts) THEN Refused
      ELSE IF \A k \in DOMAIN parts : ~ReadsStates(parts[k])
      THEN [op      |-> "const",
            value   |-> Aggregate(e.agg, [k \in DOMAIN parts |-> Worth(parts[k])]),
            boolean |-> e.agg \in {"any", "all"}]
      ELSE CASE e.agg = "any"   -> Op("or", parts)
             [] e.agg = "all"   -> Op("and", parts)
             [] e.agg = "count" -> Const(Len(sources))
             [] e.agg = "sum"   -> Op("add", [k \in DOMAIN parts |-> counted(k)])

(* `unroll`; `open` holds the attributes being unrolled, met again in a     *)
(* ring.                                                                    *)
Unrolled(e, open) ==
  CASE e.op \in {"const", "active"} -> e
    [] e.op = "time" -> Refused
    [] e.op = "var"  -> Resolved(e.name, open)
    [] e.op = "port" -> UnrolledPort(e, open)
    [] Compound(e)   ->
         LET parts == [k \in DOMAIN e.args |-> Unrolled(e.args[k], open)]
         IN  IF Refused \in Range(parts) THEN Refused ELSE Op(e.op, parts)

Resolved(x, open) ==
  IF x \in open \/ Opaque(x) THEN Refused
  ELSE IF x \notin DOMAIN M.given THEN NeverWritten(x)
  ELSE LET u == Unrolled(M.given[x].expr, open \cup {x})
       IN  IF u = Refused \/ ReadsStates(u) THEN u ELSE Constant(u)

-----------------------------------------------------------------------------
(* `fold_connective`.                                                       *)
Connected(op, parts) ==
  LET neutral   == Bool(op = "and")
      absorbing == Bool(op = "or")
      kept      == SelectSeq(parts, LAMBDA p : p # neutral)
  IN  IF Refused \in Range(parts) THEN Refused
      ELSE IF absorbing \in Range(parts) THEN absorbing
      ELSE IF kept = << >> THEN neutral
      ELSE IF Len(kept) = 1 THEN kept[1] ELSE Op(op, kept)

Mirror  == [lt |-> "gt", le |-> "ge", gt |-> "lt", ge |-> "le", eq |-> "eq", ne |-> "ne"]
NegatedMirrored == [lt |-> "gt", le |-> "ge", gt |-> "lt", ge |-> "le", eq |-> "ne", ne |-> "eq"]
Negated == [lt |-> "ge", le |-> "gt", gt |-> "le", ge |-> "lt", eq |-> "ne", ne |-> "eq"]

(* `flatten_add`.                                                           *)
RECURSIVE Addends(_)
Addends(e) ==
  IF e.op # "add" THEN <<e>> ELSE FlattenSeq([k \in DOMAIN e.args |-> Addends(e.args[k])])

(* One when a condition holds, or one when it does not.                     *)
IsCounted(e) ==
  /\ e.op = "if" /\ ~ReadsStates(e.args[2]) /\ ~ReadsStates(e.args[3])
  /\ {Worth(e.args[2]), Worth(e.args[3])} = {0, 1}

RECURSIVE Normal(_, _)

(* `nnf_vote`: at least so many of the conditions, or of their complements. *)
NormalVote(op, sum, threshold, negate) ==
  LET terms   == Addends(sum)
      counted == SelectSeq(terms, ReadsStates)
      fixed   == FoldLeft(LAMBDA n, e : IF ReadsStates(e) THEN n ELSE n + Worth(e), 0, terms)
      test    == IF negate THEN Negated[op] ELSE op
      room    == threshold - fixed
      few     == test \in {"le", "lt"}
      k == CASE test = "ge" -> room
             [] test = "gt" -> room + 1
             [] test = "le" -> Len(counted) - room
             [] test = "lt" -> Len(counted) - room + 1
             [] OTHER       -> 0
      vote(e) == Normal(e.args[1], (Worth(e.args[2]) = 0) # few)
      votes   == [i \in DOMAIN counted |-> vote(counted[i])]
  IN  IF test \in {"eq", "ne"} \/ \E i \in DOMAIN counted : ~IsCounted(counted[i]) THEN Refused
      ELSE IF k <= 0 THEN Bool(TRUE)
      ELSE IF k > Len(counted) THEN Bool(FALSE)
      ELSE IF Refused \in Range(votes) THEN Refused ELSE Vote(k, votes)

(* `nnf_cmp`: a Boolean against a constant one, or a count and a threshold. *)
NormalComparison(e, negate) ==
  LET moving == {i \in {1, 2} : ReadsStates(e.args[i])}
      i      == Min(moving)
      fixed  == e.args[3 - i]
  IN  IF Cardinality(moving) = 2 THEN Refused
      ELSE IF ~IsBoolean(fixed)
      THEN NormalVote(IF i = 1 THEN e.op ELSE Mirror[e.op], e.args[i], Worth(fixed), negate)
      ELSE IF e.op \in {"eq", "ne"}
      THEN Normal(e.args[i], negate = ((e.op = "eq") = (Worth(fixed) # 0)))
      ELSE Refused

OtherStates(e) ==
  LET others == SelectSeq(M.states[e.aut], LAMBDA s : s # e.state)
  IN  [k \in DOMAIN others |-> Active(e.aut, others[k])]

(* `nnf`: negations pushed down to the states.                              *)
Normal(e, negate) ==
  IF e = Refused THEN Refused
  ELSE IF ~ReadsStates(e) THEN Bool((Worth(e) # 0) # negate)
  ELSE CASE e.op = "active" -> IF negate THEN Op("or", OtherStates(e)) ELSE e
         [] e.op = "not"    -> Normal(e.args[1], ~negate)
         [] e.op \in {"and", "or"} ->
              Connected(IF (e.op = "and") # negate THEN "and" ELSE "or",
                        [k \in DOMAIN e.args |-> Normal(e.args[k], negate)])
         [] e.op = "if" ->
              LET c == e.args[1]
              IN  Normal(Op("or", <<Op("and", <<c, e.args[2]>>),
                                    Op("and", <<Op("not", <<c>>), e.args[3]>>)>>), negate)
         [] Compares(e) -> NormalComparison(e, negate)
         [] OTHER       -> Refused

(* `condition`: what a guard needs.                                         *)
Condition(t) ==
  IF T(t).guard = None THEN Bool(TRUE) ELSE Normal(Unrolled(T(t).guard, {}), FALSE)

(* `leavable_initial` and `refuse_persistence`: a tree explains a state     *)
(* being entered, not kept.                                                 *)
LeavableInitial(a, s) ==
  s = M.states[a][1] /\ \E t \in OfAutomaton(a) : T(t).source = s /\ Range(T(t).targets) # {s}

NeedsPersistenceItself(e) == e.op = "active" /\ LeavableInitial(e.aut, e.state)

NeedsPersistence(e) == \E x \in StatesIn(e) : LeavableInitial(x[1], x[2])

-----------------------------------------------------------------------------
Observer(t) == T(t).kind = "observation"

(* `drawn_law`: a delay of zero is crossed; a rate may not read a state.    *)
Crossed(t)  == T(t).law = "instant" /\ Len(T(t).targets) = 1
Lawless(t)  ==
  T(t).rate # None /\ LET u == Unrolled(T(t).rate, {}) IN u = Refused \/ ReadsStates(u)

RECURSIVE Explained(_, _)

(* `expand_state`: initial, or entered by one of the transitions into it; a *)
(* path that comes back to a state being explained adds no way in.          *)
RECURSIVE StateExplained(_, _, _)

Draw(t, s) == IF Crossed(t) THEN Bool(TRUE) ELSE Event(t, s)

WayThrough(t, s, from, guard) ==
  IF (Observer(t) /\ T(t).law # "instant") \/ from = Refused THEN Refused
  ELSE IF from = Bool(FALSE) THEN from
  ELSE IF guard \in {Refused, Bool(FALSE)} THEN guard
  ELSE IF Lawless(t) THEN Refused
  ELSE [op |-> "way", by |-> <<t, s>>, args |-> <<Draw(t, s), from, guard>>]

GuardExplained(t, condition, open) ==
  IF Observer(t) /\ NeedsPersistence(condition) THEN Refused ELSE Explained(condition, open)

Way(t, s, open) ==
  WayThrough(t, s, StateExplained(T(t).aut, T(t).source, open),
             GuardExplained(t, Condition(t), open))

Entered(a, s, ways) ==
  LET start == IF s = M.states[a][1] THEN <<Bool(TRUE)>> ELSE << >>
  IN  IF Refused \in Range(ways) THEN Refused
      ELSE Op("or", start \o SelectSeq(ways, LAMBDA w : w # Bool(FALSE)))

Into(a, s) ==
  SetToSortSeq({t \in OfAutomaton(a) : s \in Range(T(t).targets) /\ T(t).source # s}, <)

StateExplained(a, s, open) ==
  IF <<a, s>> \in open THEN Bool(FALSE)
  ELSE Entered(a, s, [k \in DOMAIN Into(a, s) |-> Way(Into(a, s)[k], s, open \cup {<<a, s>>})])

(* `expand_vote`.                                                           *)
VoteExplained(e, open) ==
  LET moving == SelectSeq(e.args, ReadsStates)
      parts  == [i \in DOMAIN moving |-> Explained(moving[i], open)]
      k      == e.k - Len(SelectSeq(e.args, LAMBDA v : v = Bool(TRUE)))
  IN  IF Refused \in Range(parts) THEN Refused
      ELSE IF k <= 0 THEN Bool(TRUE)
      ELSE IF k > Len(parts) THEN Bool(FALSE) ELSE Vote(k, parts)

(* `expand`, on a normal form.                                              *)
Explained(e, open) ==
  IF e = Refused THEN Refused
  ELSE IF e.op = "atleast" THEN VoteExplained(e, open)
  ELSE IF ~ReadsStates(e) THEN Bool(Worth(e) # 0)
  ELSE IF e.op = "active" THEN StateExplained(e.aut, e.state, open)
  ELSE LET parts == [k \in DOMAIN e.args |-> Explained(e.args[k], open)]
       IN  IF Refused \in Range(parts) THEN Refused ELSE Op(e.op, parts)

(* `fault_tree_for_targets`: one of these targets is reached.               *)
RawTree(ks) ==
  LET states == SetToSeq({Active(M.targets[k].aut, M.targets[k].state) : k \in ks})
      top    == Normal(Op("or", states), FALSE)
  IN  IF (\E x \in DOMAIN M.moved : M.moved[x].by = "unit") \/ NeedsPersistence(top) THEN Refused
      ELSE Explained(top, {})

-----------------------------------------------------------------------------
Gate(op, args) == IF Len(args) = 1 THEN args[1] ELSE Op(op, args)

SimplifiedConnective(op, parts, kept) ==
  IF Bool(op = "or") \in Range(parts) THEN Bool(op = "or")
  ELSE IF kept = << >> THEN Bool(op = "and") ELSE Gate(op, kept)

SimplifiedVote(k, kept) ==
  IF k <= 0 THEN Bool(TRUE)
  ELSE IF k > Len(kept) THEN Bool(FALSE)
  ELSE IF k = Len(kept) THEN Gate("and", kept)
  ELSE IF k = 1 THEN Gate("or", kept) ELSE Vote(k, kept)

(* `simplify`: constants propagated, like gates merged, single ones dropped.*)
RECURSIVE Simplified(_)
Simplified(n) ==
  IF ~HasArgs(n) THEN n
  ELSE LET op    == IF n.op = "way" THEN "and" ELSE n.op
           parts == [k \in DOMAIN n.args |-> Simplified(n.args[k])]
           of(p) == IF p.op = "const" THEN << >>
                    ELSE IF p.op = op /\ op # "atleast" THEN p.args ELSE <<p>>
           kept  == FlattenSeq([k \in DOMAIN parts |-> of(parts[k])])
           sure  == Len(SelectSeq(parts, LAMBDA p : p = Bool(TRUE)))
       IN  IF op = "atleast" THEN SimplifiedVote(n.k - sure, kept)
           ELSE SimplifiedConnective(op, parts, kept)

-----------------------------------------------------------------------------
(* `find_follower`: two states, entered at once on a condition and left at  *)
(* once on its exact negation.                                              *)
Alternates(a, own) ==
  /\ Len(own) = 2 /\ Len(M.states[a]) = 2
  /\ \A t \in Range(own) : /\ Crossed(t) /\ T(t).guard # None
                           /\ T(t).targets[1] # T(t).source
  /\ T(own[1]).source # T(own[2]).source

FollowsWhen(own, condition, negation, fall) ==
  IF condition = Refused \/ fall = Refused \/ fall # negation THEN None
  ELSE [raised |-> T(own[1]).targets[1], condition |-> condition]

FollowsBy(own, rise) ==
  IF rise = Refused THEN None
  ELSE FollowsWhen(own, Normal(rise, FALSE), Normal(rise, TRUE), Condition(own[2]))

FollowerOwning(a, own) ==
  IF Alternates(a, own) THEN FollowsBy(own, Unrolled(T(own[1]).guard, {})) ELSE None

FollowerOf(a) == FollowerOwning(a, SetToSortSeq(OfAutomaton(a), <))

MaxFollowerDepth == 8

(* `holds_given`: an expression with one automaton in a state, followers    *)
(* read as their conditions; `None` when it depends on other states.        *)
RECURSIVE HoldsGiven(_, _, _)
HoldsGiven(e, given, depth) ==
  CASE e.op = "const"  -> e.value
    [] e.op = "active" ->
         IF e.aut = given[1] THEN Truth(e.state = given[2])
         ELSE IF depth >= MaxFollowerDepth THEN None
         ELSE LET AsFollower(f) ==
                    IF f = None THEN None
                    ELSE LET r == HoldsGiven(f.condition, given, depth + 1)
                         IN  IF r = None THEN None ELSE Truth((r = 1) = (e.state = f.raised))
              IN  AsFollower(FollowerOf(e.aut))
    [] e.op \in {"and", "or"} ->
         LET absorbing == Truth(e.op = "or")
             parts     == {HoldsGiven(e.args[k], given, depth) : k \in DOMAIN e.args}
         IN  IF absorbing \in parts THEN absorbing
             ELSE IF None \in parts THEN None ELSE 1 - absorbing
    [] OTHER -> None

(* `implied_by_source`.                                                     *)
ImpliedBySource(t) ==
  T(t).guard = None \/ HoldsGiven(Condition(t), <<T(t).aut, T(t).source>>, 0) = 1

(* `can_fire`: a guard that cannot be read counts as one that can hold.     *)
CanFire(t) == Condition(t) # Bool(FALSE)

(* Another way out of the same state.                                       *)
Rivals(t) ==
  {u \in OfAutomaton(T(t).aut) \ {t} : /\ T(u).source = T(t).source /\ CanFire(u)
                                       /\ Range(T(u).targets) # {T(u).source}}

(* `note_approximations`: why the tree may exceed the model.                *)
DrawsLaw(t) == ~Crossed(t) \/ FollowerOf(T(t).aut) = None

Leaving(t, s) ==
  {u \in OfAutomaton(T(t).aut) \ {t} : /\ T(u).source = s /\ CanFire(u)
                                       /\ Range(T(u).targets) \ {s, T(t).source} # {}}

ReadsInGuard(t) == T(t).guard # None /\ ReadsStates(Unrolled(T(t).guard, {}))

Warnings(t, s) ==
  IF Observer(t) THEN {}
  ELSE {n \in {"guard reads state", "entered during mission", "competing transition", "target left"} :
          CASE n = "guard reads state"      -> DrawsLaw(t) /\ ReadsInGuard(t) /\ ~ImpliedBySource(t)
            [] n = "entered during mission" -> DrawsLaw(t) /\ T(t).source # M.states[T(t).aut][1]
            [] n = "competing transition"   -> Rivals(t) # {}
            [] n = "target left"            -> Leaving(t, s) # {}} \X {t}

(* `repairs`: what brings back the state that a draw left.                  *)
Repairs(t, s) ==
  {u \in OfAutomaton(T(t).aut) \ {t} : /\ T(u).source = s /\ T(t).source \in Range(T(u).targets)
                                       /\ CanFire(u)}

RECURSIVE WaysIn(_)
WaysIn(n) ==
  IF ~HasArgs(n) THEN {}
  ELSE (IF n.op = "way" THEN {n.by} ELSE {}) \cup UNION {WaysIn(n.args[k]) : k \in DOMAIN n.args}

(* `generate`; `ways` are the firings that some explanation goes through.   *)
Reported(raw, ways) ==
  [top      |-> Simplified(raw),
   ways     |-> ways,
   warnings |-> UNION {Warnings(w[1], w[2]) : w \in ways},
   repaired |-> {w \in ways : ~Crossed(w[1]) /\ Repairs(w[1], w[2]) # {}}]

GeneratedFrom(raw) == Reported(raw, WaysIn(raw))

Generated(ks) == GeneratedFrom(RawTree(ks))

-----------------------------------------------------------------------------
(* `minimise`.                                                              *)
Minimise(sets) == {s \in sets : \A r \in sets : r \subseteq s => r = s}

Products(parts) ==
  FoldLeft(LAMBDA acc, part : Minimise({s \cup r : s \in acc, r \in part}), {{}}, parts)

(* `cut_sets`.                                                              *)
RECURSIVE CutSets(_)
CutSets(n) ==
  LET parts == [k \in DOMAIN n.args |-> CutSets(n.args[k])]
      chosen(c) == [i \in 1..Cardinality(c) |-> parts[SetToSortSeq(c, <)[i]]]
  IN CASE n.op = "const" -> IF n.value # 0 THEN {{}} ELSE {}
       [] n.op = "event" -> {{n.event}}
       [] n.op = "or"    -> Minimise(UNION Range(parts))
       [] n.op = "and"   -> Products(parts)
       [] n.op = "atleast" ->
            Minimise(UNION {Products(chosen(c)) : c \in kSubset(n.k, DOMAIN parts)})

(* The value of a tree once these events have occurred.                     *)
RECURSIVE HoldsFor(_, _)
HoldsFor(n, events) ==
  LET held == {k \in DOMAIN n.args : HoldsFor(n.args[k], events)}
  IN CASE n.op = "const" -> n.value # 0
       [] n.op = "event" -> n.event \in events
       [] n.op = "or"    -> held # {}
       [] n.op = "and"   -> held = DOMAIN n.args
       [] n.op = "atleast" -> Cardinality(held) >= n.k
=============================================================================
