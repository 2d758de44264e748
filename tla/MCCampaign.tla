---- MODULE MCCampaign ----
(***************************************************************************)
(* TLC instance of the campaigns: one that estimates (Campaign), one that  *)
(* keeps its sequences (Recording), one that measures importance           *)
(* (Importance); `subject` says which runs.                                *)
(***************************************************************************)
EXTENDS Recording, Importance, TLC

VARIABLE subject

Jump(at, value) == [at |-> at, value |-> value]
History(init, jumps, cause) ==
  [init |-> init, jumps |-> jumps, cause |-> cause, fails |-> FALSE]

MCHistories ==
  {History(0, <<Jump(0, 1), Jump(2, 0), Jump(3, 1)>>, None),
   History(1, <<Jump(1, 0), Jump(1, 1)>>, "lost"),
   History(0, <<Jump(1, -1), Jump(2, 1)>>, "void"),
   History(0, <<Jump(2, 2)>>, "lost"),
   [History(0, <<>>, None) EXCEPT !.fails = TRUE]}

MCSamples == <<0, 2, 3>>
MCOrders == 0..5

-----------------------------------------------------------------------------
(* What a replica records: no name of automata, some, all; kinds or not.    *)
Entry(obj, automaton, kind) == [obj |-> obj, attr |-> "occ", automaton |-> automaton, kind |-> kind]

MCSequences ==
  [h \in MCHistories |->
     [cause |-> h.cause,
      events |-> CASE h.cause = "lost" -> <<Entry("p", "leak", "failure"), Entry("q", "", None)>>
                   [] h.cause = "void" -> <<Entry("q", "", None)>>
                   [] OTHER -> << >>]]

MCAsked == <<9, 0, 2>>

MCConditions == {None, [column |-> 3, least |-> 1]}
MCOlder == {<<[tag |-> "header", version |-> 1, nbRuns |-> 0, width |-> 0]>>}

-----------------------------------------------------------------------------
(* A pump with two modes, another, a valve that fails on demand or parks,   *)
(* an observer of the pumps, and the feared event.                          *)
Way(obj, automaton, targets, kind) ==
  [obj |-> obj, automaton |-> automaton, targets |-> targets, kind |-> kind,
   records |-> {"occ", "ok", "park"}, init |-> "ok"]

MCTransitions ==
  {Way("p", "leak", <<"occ">>, "failure"), Way("p", "leak", <<"ok">>, "repair"),
   Way("p", "jam", <<"occ">>, "failure"), Way("p", "jam", <<"ok">>, "repair"),
   Way("q", "fm", <<"occ">>, "failure"), Way("q", "fm", <<"ok">>, "repair"),
   Way("v", "fm", <<"occ", "park">>, "failure"), Way("v", "fm", <<"ok">>, Absent),
   Way("obs", "both", <<"occ">>, "observation"), Way("obs", "both", <<"ok">>, "observation"),
   Way("top", "er", <<"occ">>, Absent), Way("top", "er", <<"ok">>, Absent)}

Event(obj, automaton, attr) == [obj |-> obj, automaton |-> automaton, attr |-> attr]

MCFeared == Event("top", "er", "occ")
Leak == Event("p", "leak", "occ")
Jam  == Event("p", "jam", "occ")
Fm   == Event("q", "fm", "occ")
Stuck == Event("v", "fm", "occ")

MCEventNames == <<Event("obs", "both", "occ"), Jam, Leak, Fm, Stuck, Event("v", "fm", "park")>>

MCSelections ==
  {[of |-> "failures", events |-> {}], [of |-> "monitored", events |-> {}], [of |-> "listed", events |-> {Leak, Fm}]}

MCGroups ==
  [s \in MCSelections |->
     IF s.of = "listed" THEN [g \in {"pumps"} |-> {Leak, Fm}]
     ELSE [g \in {"water", "spare"} |-> IF g = "water" THEN {Jam, Fm, Stuck} ELSE {Stuck}]]

At(obj, automaton, attr, time) == [obj |-> obj, automaton |-> automaton, attr |-> attr, time |-> time]
Fails(e, time)   == At(e.obj, e.automaton, e.attr, time)
Returns(e, time) == At(e.obj, e.automaton, "ok", time)
Path(events, weight) == [events |-> events, weight |-> weight]

Parallel == Path(<<Fails(Leak, 1), Fails(Fm, 1), At("obs", "both", "occ", 1), Fails(MCFeared, 1),
                   Returns(Fm, 2), Returns(MCFeared, 2)>>, 1)
Repaired == Path(<<Fails(Fm, 1), Returns(Fm, 1), Fails(Jam, 2), Fails(Fm, 3), Fails(MCFeared, 3)>>, 1)
Demand   == Path(<<Fails(Leak, 2), Fails(Stuck, 2), Fails(MCFeared, 2), Fails(Fm, 2),
                   Returns(Leak, 3)>>, 2)
Parked   == Path(<<At("v", "fm", "park", 1), Fails(Jam, 1), Fails(Stuck, 3), Fails(MCFeared, 3)>>, 1)
Twice    == Path(<<Fails(Leak, 1), Fails(Jam, 1), Fails(MCFeared, 1), Returns(Leak, 2), Returns(MCFeared, 2),
                   Fails(Fm, 2), Fails(MCFeared, 3)>>, 1)
Quiet    == Path(<<Fails(Jam, 1), Returns(Jam, 3)>>, 1)
Sudden   == Path(<<Fails(MCFeared, 2)>>, 1)

MCCorpora ==
  {<<Parallel, Repaired, Quiet>>, <<Demand, Parked, Parallel, Quiet>>, <<Twice, Demand, Repaired>>,
   <<Parallel, Sudden, Quiet>>, <<Quiet>>}

MCDates == <<1, 2, 3>>

-----------------------------------------------------------------------------
Unrecorded ==
  /\ before = NoFile /\ rawPath = NoFile /\ partial = NoFile /\ written = 0 /\ condition = None
  /\ reduced = << >> /\ task = "open" /\ copy = << >> /\ reader = Unread

Unmeasured ==
  /\ selection = (CHOOSE s \in Selections : TRUE) /\ basics = {} /\ trajectories = << >> /\ unread = {} /\ realized = [c \in {} |-> 0]
  /\ atTarget = << >> /\ bins = [x \in {} |-> 0] /\ stage = "push" /\ replay = Absent
  /\ here = {} /\ judged = {} /\ kept = << >> /\ units = << >> /\ sums = Absent

NoCampaign ==
  /\ history = [r \in Replica |-> CHOOSE h \in Histories : TRUE] /\ indicators = 0 /\ serial = FALSE
  /\ first = 0 /\ done = {} /\ sunk = << >> /\ status = "stopped" /\ failed = None

MCInit ==
  \/ subject = "estimate" /\ MInit /\ Unrecorded /\ Unmeasured
  \/ subject = "record" /\ RInit /\ Unmeasured /\ \A r \in Replica : r > 1 => history[r] = history[r - 1]
  \/ subject = "measure" /\ NoCampaign /\ Unrecorded /\ IInit

Estimating == subject = "estimate" /\ MNext /\ UNCHANGED <<subject, rvars, ivars>>
Keeping == subject = "record" /\ RNext /\ UNCHANGED <<subject, ivars>>
Measuring  == subject = "measure" /\ INext /\ UNCHANGED <<subject, mvars, rvars>>

MCSpec == MCInit /\ [][Estimating \/ Keeping \/ Measuring]_<<subject, mvars, rvars, ivars>>
            /\ WF_<<subject, mvars, rvars, ivars>>(Estimating \/ Keeping)
====
