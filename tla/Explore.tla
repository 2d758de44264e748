------------------------------ MODULE Explore ------------------------------
(***************************************************************************)
(* The exploration of the tree of sequences: crates/raichu-explore, the    *)
(* walk of walk.rs driven by the exact strategy (exact.rs) or by the       *)
(* discretised one (discretised.rs).  The root is examined on one engine   *)
(* and each of its children walked by a task of a thread pool, on an       *)
(* engine of its own; a step of a task is one child visited, or one frame  *)
(* popped.  Imported units and continuous evolution are left out.          *)
(*                                                                         *)
(* Probabilities are integers out of Scale.  Two laws are abstracted: the  *)
(* probability that n sojourns end by the horizon of an exact exploration  *)
(* halves with each of them, and half of the mass of a discretised window  *)
(* is carried by its competitors, whatever their hazard.                   *)
(***************************************************************************)
EXTENDS Deferred, SequencesExt

CONSTANTS
  Scale,            \* the integer that stands for probability 1
  MaxInstantaneous, \* EngineConfig::max_fixpoint_iterations
  TolEvent,         \* SolverParams::tol_event, in units of time
  Threads,          \* threads of the pool
  StudyOf,          \* the settings explored, a function from names to them
  Depth             \* length of the sequences the reference looks at

ASSUME ExploreAssumption ==
  /\ Scale \in Nat \ {0} /\ MaxInstantaneous \in Nat /\ TolEvent \in Nat
  /\ Threads \in Nat \ {0} /\ Depth \in Nat
  /\ \A n \in DOMAIN StudyOf :
       LET s == StudyOf[n]
       IN  /\ s.model \in Models /\ s.algorithm \in {"exact", "discretised"}
           /\ s.goal \in DOMAIN ModelOf[s.model].goals
           /\ s.horizon \in 0..1 /\ s.level \in Nat \ {0}
           /\ s.min_probability \in Nat \cup {None} /\ s.max_length \in Nat \cup {None}
           /\ s.max_failures \in Nat \cup {None} /\ s.max_branches \in (Nat \ {0}) \cup {None}

VARIABLES
  study,   \* the settings of this exploration; never change
  phase,   \* "root", "children", or how the exploration ended
  root,    \* what the root's walker found
  walkers  \* one walker for each child of the root

evars == <<model, study, phase, root, walkers>>

Setting == StudyOf[study]
Exact   == Setting.algorithm = "exact"

-----------------------------------------------------------------------------
(* The domain of an exact exploration, without exploring                   *)

(* `reachable_states`: guards ignored.                                      *)
ReachableAtOnce(aut) ==
  {ModelOf[model].init[aut]} \cup
  UNION {Range(T(t).targets) : t \in {u \in Trans : /\ T(u).aut = aut
                                                    /\ T(u).source = ModelOf[model].init[aut]}}

Reachable(aut) ==
  LET Next(S) == S \cup UNION {Range(T(t).targets) :
                                 t \in {u \in Trans : T(u).aut = aut /\ T(u).source \in S}}
      after[n \in 0..Cardinality(Value)] ==
        IF n = 0 THEN {ModelOf[model].init[aut]} ELSE Next(after[n - 1])
  IN  after[Cardinality(Value)]

(* `exact_domain_report`.                                                   *)
OutsideDomain == {t \in Trans : Watched(t) /\ T(t).source \in Reachable(T(t).aut)}

-----------------------------------------------------------------------------
(* Masses                                                                  *)

(* `absorption` of the sojourns on the path to a node.                      *)
Absorbed(pi, sojourns) ==
  IF sojourns = 0 THEN pi ELSE IF Setting.horizon = 0 THEN 0 ELSE pi \div 2 ^ sojourns

(* `node_mass`; `shared` counts the sojourns of an exact node.              *)
NodeMass(pi, shared) == IF Exact THEN Absorbed(pi, shared) ELSE pi

(* `child_mass`.                                                            *)
ChildPi(pi, child) == (pi * child.num) \div child.den
Score(mass, child) == IF Exact THEN mass ELSE mass * Setting.level ^ child.cells

NoTally == [min_probability |-> 0, max_length |-> 0, max_failures |-> 0, max_branches |-> 0]
TotalMass(tally) ==
  tally.min_probability + tally.max_length + tally.max_failures + tally.max_branches

NothingFound == [sequences |-> << >>, lower |-> 0, tallies |-> NoTally, expanded |-> 0]

(* `merge_by_path`.                                                         *)
Merged(raw, sequence) ==
  LET same == {k \in DOMAIN raw : raw[k].path = sequence.path}
  IN  IF same = {} THEN Append(raw, sequence)
      ELSE [raw EXCEPT ![CHOOSE k \in same : TRUE].probability = @ + sequence.probability]

(* `record`.                                                                *)
Recorded(out, path, mass) ==
  IF mass <= 0 THEN out
  ELSE LET sequence == [path |-> path, probability |-> mass]
       IN  [out EXCEPT !.lower = @ + mass,
                       !.sequences = IF Exact THEN Append(@, sequence) ELSE Merged(@, sequence)]

-----------------------------------------------------------------------------
(* The children of a node                                                  *)

Fires(act, t, branch, date, num, den, cells) ==
  [act |-> act, t |-> t, branch |-> branch, date |-> date, num |-> num, den |-> den,
   cells |-> cells]

InOrder(S) == SetToSortSeq(S, <)

(* `next_immediate_transition`, then `immediate` of each strategy.          *)
NextImmediate(en) ==
  IF Ready(en) # {} THEN FirstReady(en)
  ELSE IF DueBy(en, en.time) THEN NextDated(en) ELSE None

Instantaneous(t) == T(t).law = "inst" \/ (T(t).law = "delay" /\ T(t).delay = 0)

Accepted(t) == IF t = None \/ (Exact /\ ~Instantaneous(t)) THEN None ELSE t

Immediate(en) == Accepted(NextImmediate(en))

(* `instantaneous_branches`.                                                *)
BranchChildren(act, t, date, cells) ==
  LET total == MapThenSumSet(LAMBDA b : T(t).probs[b], Branches(t))
      Of(b) == Fires(act, t, b, date, IF T(t).law = "inst" THEN T(t).probs[b] ELSE 1,
                     IF T(t).law = "inst" THEN total ELSE 1, cells)
  IN  [k \in 1..Cardinality(Branches(t)) |-> Of(InOrder(Branches(t))[k])]

NoNode             == [kind |-> "leaf", children |-> << >>, shared |-> 0, streak |-> 0]
Expanded(children, shared, streak) ==
  [kind |-> "expand", children |-> children, shared |-> shared, streak |-> streak]
Refused            == [NoNode EXCEPT !.kind = "error"]

RunningClocks(en) == {t \in Trans : T(t).law = "clock" /\ Running(en, t)}
Competing(en) == {t \in RunningClocks(en) : T(t).rate[en.store] > 0}
TotalRate(en) == MapThenSumSet(LAMBDA t : T(t).rate[en.store], Competing(en))

(* `timed` of exact.rs: the competition of the armed exponentials; any      *)
(* other law that is fireable is refused.                                   *)
ExactTimed(en, shared) ==
  LET fireable == Dated(en) \cup RunningClocks(en) \cup Ready(en)
      order    == InOrder(Competing(en))
  IN  IF \E t \in fireable : T(t).law # "clock" THEN Refused
      ELSE IF Competing(en) = {} THEN NoNode
      ELSE Expanded([k \in DOMAIN order |->
                       Fires("now", order[k], 1, None, T(order[k]).rate[en.store],
                             TotalRate(en), 0)],
                    shared + 1, 0)

(* The instant at which half of a cell's mass is spent.                     *)
Median(c, from, to) == from + ((2 * c - 1) * (to - from)) \div (2 * Setting.level)

(* `timed` of discretised.rs: the window up to what the engine does next,   *)
(* cut into cells, and the child that lets time run.                        *)
Opened(children) == IF children = << >> THEN NoNode ELSE Expanded(children, 0, 0)

Windowed(en, event, end, order, total, cells) ==
  LET level == Setting.level
      Cell(k, c) == Fires("at", order[k], 1, Median(c, en.time, end),
                          T(order[k]).rate[en.store], 2 * level * total, cells + 1)
      firing == [i \in 1..(Len(order) * level) |->
                   Cell(1 + (i - 1) \div level, 1 + ((i - 1) % level))]
      survival == IF event = None THEN << >>
                  ELSE <<Fires("advance", event, None, end, 1,
                               IF order = << >> THEN 1 ELSE 2, cells)>>
  IN  IF end - en.time > TolEvent THEN Opened(firing \o survival)
      ELSE IF event = None THEN NoNode
      ELSE Expanded(BranchChildren("advance_and_fire", event, end, cells), 0, 0)

DiscretisedTimed(en, cells) ==
  IF en.time >= TMax THEN NoNode
  ELSE LET probe == Probed(en, TMax)
       IN  Windowed(en, probe.event, probe.engine.time, InOrder(Competing(en)),
                    TotalRate(en), cells)

(* Consecutive instantaneous firings, once one more has fired.              *)
OneMore(streak) == streak + 1

(* `examine`, up to the branch cap.                                         *)
ExaminedAt(t, en, shared, cells, streak) ==
  CASE t # None /\ streak >= MaxInstantaneous -> Refused
    [] t # None /\ streak < MaxInstantaneous ->
         Expanded(BranchChildren("now", t, None, cells), shared, OneMore(streak))
    [] t = None /\ en.seqEnd # None ->
         [NoNode EXCEPT !.kind = IF en.seqEnd.cause = Setting.goal THEN "target" ELSE "leaf"]
    [] OTHER -> IF Exact THEN ExactTimed(en, shared) ELSE DiscretisedTimed(en, cells)

Examined(en, shared, cells, streak) ==
  ExaminedAt(Immediate(en), en, shared, cells, streak)

(* `fire` of each strategy.                                                 *)
There(en, child) ==
  CASE child.act = "now" -> en
    [] child.act = "at" -> IF en.time < child.date THEN RestartedAt(en, child.date) ELSE en
    [] OTHER -> Probed(en, child.date).engine

FiredThere(there, child) ==
  IF child.act = "advance" THEN there
  ELSE CHOOSE after \in IF ~Armed(there, child.t)
                        THEN WatchedFired(there, child.t, child.branch)
                        ELSE Fired(there, child.t, child.branch) : TRUE

Enacted(en, child) == FiredThere(There(en, child), child)

(* `step`, `admit`.                                                         *)
Steps(child) == IF child.act = "advance" THEN << >> ELSE << <<child.t, child.branch>> >>

Failures(child) ==
  IF child.act # "advance" /\ T(child.t).failure /\ child.branch = 1 THEN 1 ELSE 0

Verdict(pi, shared, failures, path, child) ==
  LET mass == NodeMass(ChildPi(pi, child), shared)
      Crossed(why) ==
        /\ Setting[why] # None
        /\ CASE why = "min_probability" -> Score(mass, child) < Setting[why]
             [] why = "max_length"      -> Len(path \o Steps(child)) > Setting[why]
             [] why = "max_failures"    -> failures + Failures(child) > Setting[why]
      cuts == SelectSeq(<<"min_probability", "max_length", "max_failures">>, Crossed)
  IN  IF mass <= 0 THEN "empty" ELSE IF cuts = << >> THEN "admitted" ELSE Head(cuts)

Pruned(out, why, mass) ==
  IF why = "empty" THEN out ELSE [out EXCEPT !.tallies[why] = @ + mass]

(* The branch cap, last: a node that may be expanded no more is tallied.    *)
AfterCap(node, budget) ==
  IF node.kind = "expand" /\ budget = 0 THEN [NoNode EXCEPT !.kind = "capped"] ELSE node

Spent(budget) == IF budget = None THEN None ELSE budget - 1

NotedUntallied(out, node, path, mass) ==
  CASE node.kind = "target" -> Recorded(out, path, mass)
    [] node.kind = "expand" -> [out EXCEPT !.expanded = @ + 1]
    [] OTHER -> out

Noted(out, node, path, mass) ==
  CASE node.kind = "target" -> Recorded(out, path, mass)
    [] node.kind = "capped" -> Pruned(out, "max_branches", mass)
    [] node.kind = "expand" -> [out EXCEPT !.expanded = @ + 1]
    [] OTHER -> out

-----------------------------------------------------------------------------
(* A walker: its engine, and the frames of the nodes on its path.  `done`   *)
(* is a history, the children enacted from the root to a frame's node.      *)

Frame(node, pi, failures, snapshot, pushed, done) ==
  [pi |-> pi, failures |-> failures, streak |-> node.streak, children |-> node.children,
   shared |-> node.shared, snapshot |-> snapshot, next |-> 1, dirty |-> FALSE,
   pushed |-> pushed, done |-> done]

(* `split_budget`.                                                          *)
Share(remaining, n, k) ==
  IF remaining = None THEN None
  ELSE remaining \div n + (IF k - 1 < remaining % n THEN 1 ELSE 0)

AtRoot == Examined(Built, 0, 0, 0)

(* The root's walker, and the frame of each child, alone in it.             *)
RootFound(node) ==
  Noted(NothingFound, AfterCap(node, Setting.max_branches), << >>, NodeMass(Scale, 0))

Spawned(node, k) ==
  [state |-> "queued", engine |-> Built, path |-> << >>, out |-> NothingFound,
   budget |-> Share(IF Setting.max_branches = None THEN None
                    ELSE Setting.max_branches - RootFound(node).expanded,
                    Len(node.children), k),
   stack |-> <<Frame([node EXCEPT !.children = <<@[k]>>], Scale, 0, None, FALSE, << >>)>>,
   done |-> << >>]

(* `drive`, up to the parallel part.                                        *)
Opening(node) ==
  /\ root' = RootFound(node)
  /\ IF node.kind = "expand"
     THEN /\ phase' = "children"
          /\ walkers' = [k \in DOMAIN node.children |-> Spawned(node, k)]
     ELSE phase' = (IF node.kind = "error" THEN "failed" ELSE "explored") /\ UNCHANGED walkers

ExploreRoot ==
  /\ phase = "root"
  /\ IF Exact /\ OutsideDomain # {}
     THEN phase' = "outside" /\ UNCHANGED <<root, walkers>>
     ELSE Opening(AtRoot)
  /\ UNCHANGED <<model, study>>

Active == {k \in DOMAIN walkers : walkers[k].state = "active"}
Top(k) == Last(walkers[k].stack)

(* A thread of the pool takes any child that waits.                         *)
Take(k) ==
  /\ phase = "children" /\ walkers[k].state = "queued" /\ Cardinality(Active) < Threads
  /\ walkers' = [walkers EXCEPT ![k].state = "active"]
  /\ UNCHANGED <<model, study, phase, root>>

Walking(k) == phase = "children" /\ walkers[k].state = "active"

Becomes(k, walker) ==
  /\ walkers' = [walkers EXCEPT ![k] = walker]
  /\ UNCHANGED <<model, study, phase, root>>

(* No child left: the frame is popped, and its step with it.                *)
PopKeepingStep(k) ==
  LET w == walkers[k]
  IN  /\ Walking(k) /\ Top(k).next > Len(Top(k).children)
      /\ Becomes(k, [w EXCEPT
           !.stack = Front(@),
           !.state = IF Len(w.stack) = 1 THEN "walked" ELSE @])

Pop(k) ==
  LET w == walkers[k]
  IN  /\ Walking(k) /\ Top(k).next > Len(Top(k).children)
      /\ Becomes(k, [w EXCEPT
           !.stack = Front(@),
           !.path  = IF Top(k).pushed THEN Front(@) ELSE @,
           !.state = IF Len(w.stack) = 1 THEN "walked" ELSE @])

ChildOf(frame) == frame.children[frame.next]

VerdictOn(k) ==
  Verdict(Top(k).pi, Top(k).shared, Top(k).failures, walkers[k].path, ChildOf(Top(k)))

Prune(k) ==
  LET w     == walkers[k]
      child == ChildOf(Top(k))
  IN  /\ Walking(k) /\ Top(k).next <= Len(Top(k).children) /\ VerdictOn(k) # "admitted"
      /\ Becomes(k, [w EXCEPT
           !.out = Pruned(@, VerdictOn(k), NodeMass(ChildPi(Top(k).pi, child), Top(k).shared)),
           !.stack[Len(w.stack)].next = @ + 1])

(* The engine at the node of the frame: restored if it has moved since, and *)
(* if there is a snapshot, which a frame of a single child has not.         *)
AtNode(w, frame) ==
  IF frame.dirty /\ frame.snapshot # None THEN frame.snapshot ELSE w.engine

(* Fire the next child and examine where it leads: a leaf, or a new frame.  *)
Reached(after, shared, cells, streak, budget) ==
  IF after.error # None THEN Refused
  ELSE AfterCap(Examined(after, shared, cells, streak), budget)

Descended(w, frame, child, after, node) ==
  LET pi     == ChildPi(frame.pi, child)
      path   == w.path \o Steps(child)
      opens  == node.kind = "expand"
      marked == [w.stack EXCEPT ![Len(w.stack)] = [frame EXCEPT !.next = @ + 1, !.dirty = TRUE]]
      below  == Frame(node, pi, frame.failures + Failures(child),
                      IF Len(node.children) > 1 THEN after ELSE None,
                      Steps(child) # << >>, Append(frame.done, child))
  IN  [w EXCEPT
        !.engine = after,
        !.done   = Append(frame.done, child),
        !.state  = IF node.kind = "error" THEN "failed" ELSE @,
        !.path   = IF opens THEN path ELSE @,
        !.out    = Noted(@, node, path, NodeMass(pi, frame.shared)),
        !.budget = IF opens THEN Spent(@) ELSE @,
        !.stack  = IF opens THEN Append(marked, below) ELSE marked]

Entered(w, frame, child, after) ==
  Descended(w, frame, child, after,
            Reached(after, frame.shared, child.cells, frame.streak, w.budget))

Descend(k) ==
  LET w     == walkers[k]
      child == ChildOf(Top(k))
  IN  /\ Walking(k) /\ Top(k).next <= Len(Top(k).children) /\ VerdictOn(k) = "admitted"
      /\ Becomes(k, Entered(w, Top(k), child, Enacted(AtNode(w, Top(k)), child)))

(* The reduction in child order: the first error wins.                      *)
Reduce ==
  /\ phase = "children" /\ \A k \in DOMAIN walkers : walkers[k].state \in {"walked", "failed"}
  /\ phase' = IF \E k \in DOMAIN walkers : walkers[k].state = "failed" THEN "failed"
              ELSE "explored"
  /\ UNCHANGED <<model, study, root, walkers>>

(* `assemble`.                                                              *)
Partials == <<root>> \o [k \in DOMAIN walkers |-> walkers[k].out]

Lower   == FoldLeft(LAMBDA sum, part : sum + part.lower, 0, Partials)
Upper   == Lower + FoldLeft(LAMBDA sum, part : sum + TotalMass(part.tallies), 0, Partials)
Explored == FoldLeft(LAMBDA sum, part : sum + part.expanded, 0, Partials)
Sequences ==
  LET all == FlattenSeq([k \in DOMAIN Partials |-> Partials[k].sequences])
  IN  IF Exact THEN all ELSE FoldLeft(Merged, << >>, all)

-----------------------------------------------------------------------------
EInit ==
  /\ study \in DOMAIN StudyOf
  /\ model = StudyOf[study].model
  /\ phase = "root" /\ root = NothingFound /\ walkers = << >>

Walk(k) == Take(k) \/ Pop(k) \/ Prune(k) \/ Descend(k)

ENext ==
  \/ ExploreRoot
  \/ \E k \in DOMAIN walkers : Walk(k)
  \/ Reduce

ESpec == EInit /\ [][ENext]_evars

-----------------------------------------------------------------------------
(* The references: the recursion the walk unrolls, and the tree uncut      *)

RECURSIVE Recursed(_, _, _, _)
RecursedInto(after, node, child, at, acc) ==
  LET pi   == ChildPi(at.pi, child)
      path == at.path \o Steps(child)
  IN  IF node.kind = "error" THEN [acc EXCEPT !.failed = TRUE]
      ELSE Recursed(after, node.children,
                    [pi |-> pi, shared |-> node.shared, path |-> path, streak |-> node.streak,
                     failures |-> at.failures + Failures(child)],
                    [acc EXCEPT !.out = Noted(@, node, path, NodeMass(pi, at.shared)),
                                !.budget = IF node.kind = "expand" THEN Spent(@) ELSE @])

RecursedOn(after, child, at, acc) ==
  RecursedInto(after, Reached(after, at.shared, child.cells, at.streak, acc.budget),
               child, at, acc)

RecursedChild(en, child, why, at, acc) ==
  IF why = "admitted" THEN RecursedOn(Enacted(en, child), child, at, acc)
  ELSE [acc EXCEPT !.out = Pruned(@, why, NodeMass(ChildPi(at.pi, child), at.shared))]

Recursed(en, children, at, acc) ==
  IF acc.failed \/ children = << >> THEN acc
  ELSE LET child == Head(children)
       IN  Recursed(en, Tail(children), at,
                    RecursedChild(en, child, Verdict(at.pi, at.shared, at.failures, at.path, child),
                                  at, acc))

RecursionFrom(node, k) ==
  Recursed(Built, <<node.children[k]>>,
           [pi |-> Scale, shared |-> node.shared, failures |-> 0, streak |-> node.streak,
            path |-> << >>],
           [out |-> NothingFound, budget |-> Spawned(node, k).budget, failed |-> FALSE])

(* The mass that reaches the goal, and the one of the nodes left open after *)
(* `deep` firings or where the exploration cannot go on.                    *)
Nothing == [reached |-> 0, open |-> 0]
Both(a, b) == [reached |-> a.reached + b.reached, open |-> a.open + b.open]

RECURSIVE Reaching(_, _, _, _, _, _)
ReachingFrom(node, en, pi, mass, deep) ==
  CASE node.kind = "leaf" \/ mass = 0 -> Nothing
    [] node.kind = "target" /\ mass > 0 -> [Nothing EXCEPT !.reached = mass]
    [] mass > 0 /\ (node.kind = "error" \/ (node.kind = "expand" /\ deep = 0)) ->
         [Nothing EXCEPT !.open = mass]
    [] OTHER ->
         FoldLeft(LAMBDA sum, child :
                    Both(sum, Reaching(Enacted(en, child), ChildPi(pi, child), node.shared,
                                       child.cells, node.streak, deep - 1)),
                  Nothing, node.children)

Reaching(en, pi, shared, cells, streak, deep) ==
  ReachingFrom(Examined(en, shared, cells, streak), en, pi, NodeMass(pi, shared), deep)

-----------------------------------------------------------------------------
(* Properties                                                              *)

Matches(w, reference) ==
  /\ reference.failed = (w.state = "failed")
  /\ w.state = "walked" => reference.out = w.out /\ reference.budget = w.budget

Brackets(true) == Lower <= true.reached + true.open /\ true.reached <= Upper

(* walk.rs: the explicit stack visits the tree "in exactly the order a      *)
(* recursion takes: a node's children in order, each child's subtree before *)
(* the next child", so what a child of the root yields, its sequences in    *)
(* their order, its sums and its tallies, depends on no other task: the     *)
(* result "is bit-identical whatever the thread count".                     *)
WalkIsTheRecursion ==
  \A k \in DOMAIN walkers :
    walkers[k].state \in {"walked", "failed"} =>
      Matches(walkers[k], RecursionFrom(AtRoot, k))

(* Whatever the cut-offs discarded, the probability of the goal lies        *)
(* between the bounds: "every pruned mass is added to the upper bound".     *)
BoundsBracket ==
  phase = "explored" =>
    Brackets(Reaching(Built, Scale, 0, 0, 0, Depth))

(* The branch cap holds for all the walkers together, at every moment,      *)
(* though each of them counts down a share of its own.                      *)
CapIsShared ==
  Setting.max_branches # None => Explored <= Setting.max_branches

(* The exact strategy looks at the first transition due alone and drops it  *)
(* if it is not instantaneous: a watched one that came first would hide the *)
(* instantaneous ones.  The static report, which ignores guards, keeps such *)
(* models out.                                                              *)
NothingHidesTheInstantaneous ==
  Exact => \A k \in DOMAIN walkers : Ready(walkers[k].engine) = {}

(* `InstantaneousCycle`: no sequence fires more than the cap of             *)
(* instantaneous transitions in a row, whose mass no probability cut-off    *)
(* ever decreases; a timed firing in between starts the count again.        *)
InstantaneousCapped ==
  \A k \in DOMAIN walkers :
    LET done == walkers[k].done
        Now(i) == done[i].act = "now" /\ (Exact => Instantaneous(done[i].t))
    IN  \A i \in 1..(Len(done) - MaxInstantaneous) :
          \E j \in i..(i + MaxInstantaneous) : ~Now(j)

(* The two caps that keep a walk finite, at every moment of it.             *)
CapsHold == CapIsShared /\ InstantaneousCapped

(* What the cut-offs discard is all in the bound above, and no more is      *)
(* explored than they allow, however the cap was divided.                   *)
CutOffsAreSound == BoundsBracket /\ CapsHold
=============================================================================
