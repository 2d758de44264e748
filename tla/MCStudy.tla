------------------------------- MODULE MCStudy -------------------------------
(***************************************************************************)
(* Small models for Study: repairable components and feared events, with   *)
(* what may or may not remember a failure between them; triggers, fed and  *)
(* unfed; controllers on thresholds; and a corpus of trajectories.         *)
(***************************************************************************)
EXTENDS Study

MCAlphabet == <<"a", "a.up", "b", "c", "d", "late", "top">>

And(g, h) == Op("and", <<g, h>>)
Or(g, h)  == Op("or", <<g, h>>)
Not(g)    == Op("not", <<g>>)
Ko(a)     == Active(a, "ko")
Is(x, b)  == Op("eq", <<Attr(x), Bool(b)>>)
AtLeast(x, v) == Op("ge", <<Attr(x), Const(v)>>)
Below(x, v)   == Op("lt", <<Attr(x), Const(v)>>)

NoEffect == [x \in {} |-> Const(0)]

(* A transition of an unrecorded automaton, at once.                        *)
Switch(a, from, to, guard) ==
  [component |-> a, aut |-> a, source |-> from, targets |-> <<to>>, law |-> "instant",
   guard |-> guard, rate |-> None, policy |-> "reset", monitored |-> FALSE, group |-> None,
   cancellation |-> "auto", kind |-> None, effects |-> NoEffect]

Wait(a, from, to, guard) == [Switch(a, from, to, guard) EXCEPT !.law = "later"]

Recording(t, kind) == [t EXCEPT !.monitored = TRUE, !.group = "cycle", !.kind = kind]

Fails(a, guard)   == Recording(Wait(a, "ok", "ko", guard), "failure")
Repaired(a)       == Recording(Wait(a, "ko", "ok", None), "repair")
Dies(a)           == [Wait(a, "ok", "ko", None) EXCEPT !.monitored = TRUE, !.kind = "failure"]
With(t, effects)  == [t EXCEPT !.effects = effects]
Reaches(guard)    == Switch("top", "no", "yes", guard)

Flag(b) == [x \in {"flag"} |-> Bool(b)]

OkKo    == <<"ok", "ko">>
NoYes   == <<"no", "yes">>
Nothing == [x \in {} |-> 0]

Model(states, init, trans) ==
  [states |-> states, init |-> init, ports |-> [p \in {} |-> << >>], trans |-> trans,
   given |-> [x \in {} |-> 0], moved |-> [x \in {} |-> 0], booleans |-> {},
   targets |-> <<[aut |-> "top", state |-> "yes", name |-> "top"]>>, corpus |-> << >>,
   formula |-> None, asks |-> {"cycles", "tree"}]

(* "a" is repairable, "c" is not, and "top" needs "c" and the guard.        *)
Pair(more, init, guard, trans) ==
  Model(("a" :> OkKo) @@ ("c" :> OkKo) @@ ("top" :> NoYes) @@ more, init,
        <<Repaired("a"), Dies("c"), Reaches(And(guard, Ko("c")))>> \o trans)

Equation(x, e) == x :> [by |-> "equation", expr |-> e]
Function(x, e) == x :> [by |-> "function", expr |-> e]
Both(x, e)     == x :> [by |-> "shared", expr |-> e]

-----------------------------------------------------------------------------
(* The feared event reads the component.                                    *)
Direct == Pair(Nothing, Nothing, Ko("a"), <<Fails("a", None)>>)

(* A flag is set by the failure, and put back by one repair, or by each.    *)
TwoRepairs(second) ==
  [Pair(Nothing, "flag" :> 0, Is("flag", TRUE),
        <<With(Fails("a", None), Flag(TRUE)), second>>)
     EXCEPT !.trans[1] = With(@, Flag(FALSE)), !.booleans = {"flag"}]

(* A flow out of the component, derived, with a restored flag.              *)
Derived ==
  [TwoRepairs(With(Repaired("a"), Flag(FALSE)))
     EXCEPT !.init = @ @@ ("flow" :> 0),
            !.given = Equation("flow", Op("if", <<Is("flag", TRUE), Const(0), Const(1)>>)),
            !.trans[3] = Reaches(And(Below("flow", 1), Ko("c")))]

(* An automaton between them.                                               *)
Through(trans) ==
  Pair("m" :> OkKo, Nothing, Ko("m"), <<Fails("a", None)>> \o trans)

Follows   == Through(<<Switch("m", "ok", "ko", Ko("a")), Switch("m", "ko", "ok", Not(Ko("a")))>>)
Trips     == Through(<<Switch("m", "ok", "ko", Ko("a"))>>)
GoesOn    == Through(<<[Fails("m", Ko("a")) EXCEPT !.policy = "continue"], Repaired("m")>>)
OwnEvents == Through(<<Fails("m", Ko("a")), Repaired("m")>>)

(* Two components behind a chain of automata that follow them.              *)
Chain ==
  [Pair(("b" :> OkKo) @@ ("m" :> OkKo) @@ ("n" :> OkKo), Nothing, Ko("n"),
        <<Fails("a", None), Fails("b", None), Repaired("b"),
          Switch("m", "ok", "ko", And(Ko("a"), Ko("b"))),
          Switch("m", "ko", "ok", Not(And(Ko("a"), Ko("b")))),
          Switch("n", "ok", "ko", Not(Active("m", "ok"))), Switch("n", "ko", "ok", Active("m", "ok"))>>)
     EXCEPT !.trans[2] = Fails("c", Ko("a"))]

(* An external failure mode and the mirror that shows it.                   *)
Mirrored ==
  [Pair(("e" :> OkKo) @@ ("m" :> OkKo), "shown" :> 0, Ko("m"),
        <<Fails("a", None), Wait("e", "ok", "ko", Ko("a")), Wait("e", "ko", "ok", None),
          Recording(Switch("m", "ok", "ko", Is("shown", TRUE)), "failure"),
          Recording(Switch("m", "ko", "ok", Is("shown", FALSE)), "repair")>>)
     EXCEPT !.given = Equation("shown", Ko("e")), !.booleans = {"shown"}]

(* What is stored falls while the component is down; a controller refills   *)
(* it, on a band or on one threshold.                                       *)
Tank(low, high) ==
  [Pair("v" :> <<"shut", "open">>, "level" :> 1, Below("level", 1),
        <<Fails("a", None), Switch("v", "shut", "open", Below("level", low)),
          Switch("v", "open", "shut", AtLeast("level", high))>>)
     EXCEPT !.moved = "level" :> [by |-> "ode",
                                  expr |-> Op("sub", <<Active("v", "open"), Ko("a")>>)]]

(* A second tank, filled by the first, behind a controller of its own.      *)
Cascade ==
  LET first == Tank(1, 1)
  IN  [first EXCEPT
         !.states = @ @@ ("w" :> <<"shut", "open">>), !.init = @ @@ ("depth" :> 0),
         !.trans  = @ \o <<Switch("w", "shut", "open", AtLeast("depth", 1)),
                         Switch("w", "open", "shut", Below("depth", 1))>>,
         !.moved  = @ @@ ("depth" :> [by |-> "unit",
                                      expr |-> Op("sub", <<Active("v", "open"), Active("w", "open")>>)])]

(* The feared event degrades first, and holds what degraded it.             *)
Degrades ==
  [Model(("a" :> OkKo) @@ ("c" :> OkKo) @@ ("top" :> <<"no", "half", "yes">>), Nothing,
         <<Repaired("a"), Dies("c"), Fails("a", None), Switch("top", "no", "half", Ko("a")),
           Switch("top", "half", "yes", Ko("c"))>>)
     EXCEPT !.targets = <<[aut |-> "top", state |-> "half", name |-> "late"],
                          [aut |-> "top", state |-> "yes", name |-> "top"]>>]

Halfway == [Degrades EXCEPT !.targets = <<@[2]>>]

(* Declared, whatever the analysis finds.                                   *)
DeclaredNever ==
  [Direct EXCEPT !.trans[1].cancellation = "never"]

-----------------------------------------------------------------------------
(* A standby that delivers while its trigger is absent; its trigger is not  *)
(* connected, directly or behind an equation or two writers, or something   *)
(* else may open.                                                           *)
Standby(guard, given) ==
  [Pair("r" :> <<"off", "on">>, ("out" :> 0) @@ ("in" :> 0), Below("out", 1),
        <<Fails("a", None), Switch("r", "off", "on", Not(guard)), Switch("r", "on", "off", guard)>>)
     EXCEPT !.ports = ("trigger" :> << >>) @@ ("fed" :> <<"in">>),
            !.given = given @@ Equation("out", Op("if", <<Active("r", "on"), Const(1), Const(0)>>))]

Trigger   == Port("trigger", "any")
Unplugged == Standby(Trigger, Equation("in", Port("trigger", "sum")))
Behind    == Standby(AtLeast("in", 1), Equation("in", Port("trigger", "sum")))
Opened    == Standby(Or(Trigger, Ko("a")), Equation("in", Port("trigger", "sum")))
Fed       == [Standby(Port("fed", "any"), Equation("in", Ko("a"))) EXCEPT !.booleans = {"in"}]
Latching  == [Standby(Is("in", TRUE), Function("in", Ko("a"))) EXCEPT !.booleans = {"in"}]
Doubled   == Standby(AtLeast("in", 1), Both("in", Port("trigger", "sum")))

-----------------------------------------------------------------------------
(* Four causes that no repair hides, and one that may be; the corpus holds  *)
(* two hosts of equal length and weight for one longer path.                *)
Named(n, kind)  == [name |-> n, obj |-> n, group |-> None, kind |-> kind]
Down == [name |-> "a", obj |-> "a", group |-> "cycle", kind |-> "failure"]
Up   == [Down EXCEPT !.name = "a.up", !.kind = "repair"]
Ev(n) == Named(n, "failure")
Path(events, to) == [events |-> events, cause |-> to, weight |-> 1]

Corpus ==
  <<Path(<<Ev("b"), Ev("c")>>, "top"), Path(<<Ev("b"), Down, Up, Ev("d")>>, "top"),
    Path(<<Ev("b"), Ev("c"), Ev("d")>>, "top"), Path(<<Down, Up>>, "top"),
    Path(<<Down, Up, Down, Ev("c"), Ev("b")>>, "top"), Path(<<Down, Ev("b"), Up>>, None)>>

Yard == [Direct EXCEPT !.corpus = Corpus]
KeptYard == [DeclaredNever EXCEPT !.corpus = SubSeq(Corpus, 1, 5)]

-----------------------------------------------------------------------------
(* Feared events for fault trees, each an observer of its condition.        *)
Observed(aut, guard) ==
  [Switch(aut, "no", "yes", guard) EXCEPT !.kind = "observation"]

Ok(a)       == Active(a, "ok")
If01(c)     == If(c, Const(1), Const(0))
If10(c)     == If(c, Const(0), Const(1))
Count(args) == Op("add", args)
Goals(names) == [k \in DOMAIN names |-> [aut |-> names[k], state |-> "yes", name |-> names[k]]]

(* Components that fail once, and the tops given.                           *)
Tree(parts, more, tops, trans) ==
  LET top == [k \in DOMAIN tops |-> ToString(k)]
  IN  [Model([a \in parts |-> OkKo] @@ more @@ [a \in Range(top) |-> NoYes], Nothing,
             [k \in DOMAIN tops |-> Observed(top[k], tops[k])]
               \o SetToSeq({Dies(a) : a \in parts}) \o trans)
         EXCEPT !.targets = Goals(top), !.asks = {"tree"}]

Abc == {"a", "b", "c"}

(* Two of three, said in each of the ways that is recognised.               *)
Votes ==
  [Tree(Abc, Nothing,
        <<Op("ge", <<Count(<<If01(Ko("a")), If01(Ko("b")), If01(Ko("c"))>>), Const(2)>>),
          Op("gt", <<Const(2), Count(<<If01(Ok("a")), Attr("both")>>)>>),
          Not(Op("gt", <<Count(<<If10(Ko("a")), Count(<<If01(Ok("b")), If10(Ko("c"))>>)>>), Const(1)>>))>>, << >>)
     EXCEPT !.init  = ("both" :> 0) @@ ("b is" :> 1) @@ ("c is" :> 1),
            !.ports = "ends" :> <<"b is", "c is">>,
            !.given = Equation("both", Port("ends", "sum")) @@ Equation("b is", Ok("b"))
                        @@ Function("c is", Not(Ko("c"))),
            !.booleans = {"b is", "c is"}]

(* A flow through two blocks, each fed by two others.                       *)
Flows ==
  [Tree(Abc, Nothing,
        <<Not(Attr("out")), Is("mid", FALSE),
          Op("ne", <<Port("both", "all"), Attr("free")>>)>>, << >>)
     EXCEPT !.init  = ("out" :> 1) @@ ("mid" :> 1) @@ ("side" :> 1) @@ ("free" :> 1),
            !.ports = ("some" :> <<"mid", "side">>) @@ ("both" :> <<"mid", "side">>),
            !.given = Equation("mid", And(Ok("a"), Is("free", TRUE))) @@ Equation("side", Ok("b"))
                        @@ Function("out", And(Ok("c"), Port("some", "any"))),
            !.booleans = {"out", "mid", "side", "free"}]

(* A standby that is asked to start, or a rest that is lost.                *)
OnDemand ==
  Tree({"a", "b"}, "s" :> <<"rest", "runs", "failed">>,
       <<Active("s", "failed"), And(Not(Active("s", "rest")), Ko("b"))>>,
       <<[Switch("s", "rest", "runs", Ko("a")) EXCEPT !.targets = <<"runs", "failed">>]>>)

(* An external mode, locked on the mirror that follows it.                  *)
Locked(lock) ==
  Tree({"c"}, ("e" :> OkKo) @@ ("m" :> OkKo), <<And(Ko("m"), Ko("c"))>>,
       <<Wait("e", "ok", "ko", lock), Switch("m", "ok", "ko", Ko("e")),
         Switch("m", "ko", "ok", Not(Ko("e")))>>)

(* A spare that is there as long as another is.                             *)
Spare ==
  Tree({"a", "c"}, "m" :> <<"off", "on">>, <<And(Active("m", "on"), Ko("c"))>>,
       <<Switch("m", "off", "on", Ok("a")), Switch("m", "on", "off", Not(Ok("a")))>>)

(* One that fails while another has not.                                    *)
Beside == Tree({"a", "b"}, Nothing, <<And(Ok("a"), Ko("b")), And(Ko("a"), Ko("b"))>>, << >>)

(* A trip with no reset, after a repairable component.                      *)
Latched ==
  Tree({"c"}, ("a" :> OkKo) @@ ("m" :> OkKo), <<And(Ko("m"), Ko("c")), Ko("a")>>,
       <<Fails("a", None), Repaired("a"), Switch("m", "ok", "ko", Ko("a"))>>)

(* Two ways to fail, the second of which is a stage of the first.           *)
Staged ==
  Tree({}, "a" :> <<"ok", "worn", "ko", "stuck">>,
       <<Not(Active("a", "ok")), Active("a", "ko"), Not(Active("a", "worn"))>>,
       <<Wait("a", "ok", "worn", None), Wait("a", "worn", "ok", None),
         Wait("a", "worn", "ko", None), Wait("a", "ok", "stuck", None)>>)

(* One stage after the other, and nothing else.                             *)
Wears ==
  Tree({"b"}, "a" :> <<"ok", "worn", "ko">>,
       <<Not(Active("a", "ok")), Or(Active("a", "worn"), Active("a", "ko"))>>,
       <<Wait("a", "ok", "worn", None), Wait("a", "worn", "ko", None)>>)

-----------------------------------------------------------------------------
(* Trees given to the quantifier, over six events; the second is certain.   *)
Basic(e)     == [op |-> "event", event |-> e]
Some(fs)     == Op("or", fs)
All(fs)      == Op("and", fs)
Shared       == Or(Basic(1), Basic(2))

Given(f) ==
  [Model("top" :> NoYes, Nothing, <<Reaches(None)>>) EXCEPT
     !.asks = {},
     !.formula = [tree |-> f,
                  p |-> [e \in 1..6 |-> IF e = 2 THEN <<1, 1>> ELSE IF e = 3 THEN <<1, 4>> ELSE <<1, 2>>]]]

Formulas ==
  (* Nothing to cut, everything shared.                                     *)
  ("bridge" :> Some(<<And(Basic(1), Basic(2)), And(Basic(3), Basic(4)),
                      All(<<Basic(1), Basic(5), Basic(4)>>), All(<<Basic(3), Basic(5), Basic(2)>>)>>))
  (* One in another.                                                        *)
  @@ ("modules" :> Vote(2, <<And(Basic(1), Basic(2)), Basic(3),
                             Or(Basic(4), And(Basic(5), Basic(6)))>>))
  @@ ("not coherent" :> Or(And(Basic(1), Not(Basic(2))), And(Basic(2), Or(Basic(3), Basic(4)))))
  (* What one event absorbs, beside a module.                               *)
  @@ ("absorbed" :> And(Or(Basic(1), And(Basic(1), Or(Basic(2), Basic(3)))),
                        Not(And(Not(Basic(4)), Not(Basic(5))))))
  (* A module that turns out certain, by no simplification.                 *)
  @@ ("tautology" :> And(Some(<<And(Basic(1), Basic(2)), Not(And(Basic(1), Basic(2))),
                                And(Basic(1), Basic(1))>>), Or(Basic(3), Basic(4))))
  (* Gates and votes that share.                                            *)
  @@ ("shared" :> All(<<Or(Shared, Basic(3)), Or(Shared, Basic(4)),
                        Vote(2, <<Basic(5), Basic(6), Basic(3)>>)>>))
  @@ ("repeated" :> Vote(2, <<Basic(1), Shared, Shared, And(Basic(3), Basic(4))>>))
  @@ ("votes of votes" :> Vote(2, <<Vote(2, <<Basic(1), Basic(2), Basic(3)>>),
                                    Vote(2, <<Basic(2), Basic(3), Basic(4)>>),
                                    Vote(2, <<Basic(4), Basic(5), Basic(6)>>)>>))
  (* What is not coherent is below what a cutoff may lose.                  *)
  @@ ("pruned" :> Or(And(Basic(1), Basic(2)),
                     And(Basic(3), Or(And(Basic(4), Not(Basic(5))), And(Not(Basic(4)), Basic(5))))))
  @@ ("not minimal" :> Some(<<Basic(1), And(Basic(1), Basic(2)), And(Basic(3), Basic(2))>>))
  (* Constants, and a negated vote.                                         *)
  @@ ("single" :> And(Or(Basic(1), Not(Basic(1))), Basic(2)))
  @@ ("negated vote" :> Not(Vote(2, <<Not(Basic(1)), Not(Basic(2)), Basic(3)>>)))
  @@ ("always" :> Or(Basic(1), Not(Basic(1))))

NoCutoff == [order |-> Absent, probability |-> <<0, 1>>, sets |-> 99, expansions |-> 999]

MCLimits ==
  {NoCutoff, [NoCutoff EXCEPT !.order = 1], [NoCutoff EXCEPT !.probability = <<1, 4>>],
   [NoCutoff EXCEPT !.sets = 1], [NoCutoff EXCEPT !.sets = 2], [NoCutoff EXCEPT !.expansions = 6]}

-----------------------------------------------------------------------------
MCStudyOf ==
  ("direct" :> Yard) @@ ("kept" :> KeptYard)
    @@ ("restored" :> TwoRepairs(With(Repaired("a"), Flag(FALSE))))
    @@ ("not restored" :> TwoRepairs(Repaired("a"))) @@ ("derived" :> Derived)
    @@ ("follows" :> Follows) @@ ("trips" :> Trips) @@ ("goes on" :> GoesOn)
    @@ ("own events" :> OwnEvents) @@ ("mirrored" :> Mirrored) @@ ("band" :> Tank(1, 2))
    @@ ("threshold" :> Tank(1, 1)) @@ ("degrades" :> Degrades)
    @@ ("halfway" :> Halfway) @@ ("chain" :> Chain) @@ ("cascade" :> Cascade)
    @@ ("unplugged" :> Unplugged) @@ ("behind" :> Behind) @@ ("opened" :> Opened)
    @@ ("fed" :> Fed) @@ ("doubled" :> Doubled) @@ ("latching" :> Latching)
    @@ ("votes" :> Votes) @@ ("flows" :> Flows) @@ ("on demand" :> OnDemand)
    @@ ("locked" :> Locked(Ok("m"))) @@ ("unlocked" :> Locked(Ok("c")))
    @@ ("latched" :> Latched) @@ ("staged" :> Staged) @@ ("spare" :> Spare) @@ ("wears" :> Wears)
    @@ ("beside" :> Beside)
    @@ [f \in DOMAIN Formulas |-> Given(Formulas[f])]
=============================================================================
