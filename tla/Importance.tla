------------------------------ MODULE Importance ------------------------------
(***************************************************************************)
(* Importance measures of a feared event, from one campaign                *)
(* (src/crates/raichu-analysis/src/importance.rs).  Each trajectory is     *)
(* reduced at once to its realized cut and to the configuration of basic   *)
(* events it is in at each instant; once the campaign is over, the cuts    *)
(* are applied to the configurations one after the other, by counters that *)
(* follow what changes between two of them.                                *)
(*                                                                         *)
(* Trajectories may come in any order and configurations be judged in any  *)
(* order.  Sums of weights stand for the measures, which divide them.      *)
(***************************************************************************)
EXTENDS Integers, Sequences, FiniteSets, FiniteSetsExt, SequencesExt

CONSTANTS
  Transitions,   \* [obj, automaton, targets, kind, records, init]
  FearedEvent,   \* [obj, automaton, attr]
  Selections,    \* [of, events]: "failures", "monitored" or "listed"
  GroupsOf,      \* of a selection: [name |-> set of events]
  Dates,         \* ascending instants
  Corpora,       \* sequences of [events, weight], an event is [obj, automaton, attr, time]
  EventNames,    \* all events, in the order of names
  Absent

VARIABLES
  selection,
  basics,      \* the basic events it gives
  trajectories,
  unread,      \* trajectories not pushed yet
  realized,    \* weight of each realized cut
  atTarget,    \* weight in the feared event, per instant
  bins,        \* weight per instant and configuration
  stage,       \* "push", "cut", "judge" or "done"
  replay,      \* [missing, realized, touching, open]
  here,        \* the configuration the replay is in
  judged,
  kept,        \* the cuts, each with its weight
  units,       \* the events of each unit
  sums         \* weights of the verdicts, per unit and instant

given == <<selection, basics, trajectories>>
read  == <<unread, realized, atTarget, bins>>
ivars == <<given, read, stage, replay, here, judged, kept, units, sums>>

-----------------------------------------------------------------------------
(* `basic_events`: the states that transitions enter and record; a declared *)
(* role is that of the first branch.                                        *)
Entered(t, state) == [obj |-> t.obj, automaton |-> t.automaton, attr |-> state]

RecordedBy(t) == {b \in DOMAIN t.targets : t.targets[b] \in t.records}

Selected(of, t, b) ==
  CASE of = "failures"  -> b = 1 /\ t.kind = "failure"
    [] of = "monitored" -> t.targets[b] # t.init

BasicEvents(s) ==
  (IF s.of = "listed" THEN s.events
   ELSE UNION {{Entered(t, t.targets[b]) : b \in {x \in RecordedBy(t) : Selected(s.of, t, x)}} : t \in Transitions})
    \ {FearedEvent}

(* The automata followed (`Slot`), and what their states mean.              *)
Owner(e)   == <<e.obj, e.automaton>>
Followed   == {Owner(e) : e \in basics \cup {FearedEvent}}
Meaning(e) == LET n == [obj |-> e.obj, automaton |-> e.automaton, attr |-> e.attr]
              IN  IF n \in basics \cup {FearedEvent} THEN n ELSE Absent

Changes(s) ==
  LET seen == SelectSeq(s.events, LAMBDA e : Owner(e) \in Followed)
  IN  [k \in DOMAIN seen |-> [time |-> seen[k].time, owner |-> Owner(seen[k]), bit |-> Meaning(seen[k])]]

(* The state of each automaton that moved.                                  *)
StateAfter(changes) ==
  FoldLeft(LAMBDA state, c : [a \in DOMAIN state \cup {c.owner} |-> IF a = c.owner THEN c.bit ELSE state[a]],
           [a \in {} |-> Absent], changes)

Active(state) == {state[a] : a \in DOMAIN state} \ {Absent, FearedEvent}

(* `push`: what is active at the first feared event, its automaton aside.   *)
RealizedCutLater(changes) ==
  LET last == CHOOSE k \in DOMAIN changes : changes[k].bit = FearedEvent
                /\ \A j \in DOMAIN changes : changes[j].bit = FearedEvent => j <= k
  IN  Active(StateAfter(SubSeq(changes, 1, last)))

RealizedCut(changes) ==
  LET first == CHOOSE k \in DOMAIN changes : changes[k].bit = FearedEvent
                 /\ \A j \in DOMAIN changes : changes[j].bit = FearedEvent => k <= j
      state == StateAfter(SubSeq(changes, 1, first - 1))
  IN  Active([a \in DOMAIN state \ {changes[first].owner} |-> state[a]])

Reaches(changes) == \E k \in DOMAIN changes : changes[k].bit = FearedEvent

(* `tally`: a change dated at an instant comes before it.                   *)
StateAt(changes, k) ==
  StateAfter(SelectSeq(changes, LAMBDA c : c.time <= Dates[k]))

Weighing(f, x, w) ==
  [y \in DOMAIN f \cup {x} |-> (IF y \in DOMAIN f THEN f[y] ELSE 0) + (IF y = x THEN w ELSE 0)]

Instants == DOMAIN Dates

PushTrajectory(i) ==
  LET s == trajectories[i]
      changes == Changes(s)
      config  == [k \in Instants |-> Active(StateAt(changes, k))]
  IN  /\ stage = "push" /\ i \in unread /\ unread' = unread \ {i}
      /\ realized' = IF Reaches(changes) THEN Weighing(realized, RealizedCut(changes), s.weight)
                     ELSE realized
      /\ atTarget' = [k \in Instants |-> atTarget[k] +
                        (IF FearedEvent \in Range(StateAt(changes, k)) THEN s.weight ELSE 0)]
      /\ bins' = FoldLeft(LAMBDA f, k : Weighing(f, <<k, config[k]>>, s.weight),
                          bins, [k \in Instants |-> k])
      /\ UNCHANGED <<given, stage, replay, here, judged, kept, units, sums>>

-----------------------------------------------------------------------------
(* `cut_sets`: shortest first, then heaviest, then by names.                *)
Position(e) == CHOOSE k \in DOMAIN EventNames : EventNames[k] = e
ByName(cut)  == SetToSortSeq({Position(e) : e \in cut}, LAMBDA a, b : a < b)

NamesBefore(p, q) ==
  \/ p # q /\ IsPrefix(p, q)
  \/ \E k \in DOMAIN p \cap DOMAIN q :
       SubSeq(p, 1, k - 1) = SubSeq(q, 1, k - 1) /\ p[k] < q[k]

CutBefore(a, b) ==
  LET m == Cardinality(a) n == Cardinality(b)
  IN  \/ m < n
      \/ m = n /\ realized[a] > realized[b]
      \/ m = n /\ realized[a] = realized[b] /\ NamesBefore(ByName(a), ByName(b))

Absorb(least, cut) ==
  LET hosts == {k \in DOMAIN least : least[k].events \subseteq cut}
  IN  IF hosts = {} THEN Append(least, [events |-> cut, weight |-> realized[cut]])
      ELSE [least EXCEPT ![Min(hosts)].weight = @ + realized[cut]]

CutSets == FoldLeft(Absorb, << >>, SetToSortSeq(DOMAIN realized, CutBefore))

(* The units: events and components of the cuts, and the groups.            *)
UnitsOf(inCuts) ==
  [u \in {<<"event", e>> : e \in inCuts} \cup {<<"component", e.obj>> : e \in inCuts}
           \cup {<<"group", g>> : g \in DOMAIN GroupsOf[selection]} |->
     CASE u[1] = "event"     -> {u[2]}
       [] u[1] = "component" -> {e \in inCuts : e.obj = u[2]}
       [] OTHER              -> GroupsOf[selection][u[2]]]

-----------------------------------------------------------------------------
(* `UnitIndex`: an incidence is a unit and a cut that share an event.       *)
Cuts         == {cut.events : cut \in Range(kept)}
Meets(u, c)  == units[u] \cap c # {}
Incidences   == {x \in (DOMAIN units) \X Cuts : Meets(x[1], x[2])}
Bound        == {u \in DOMAIN units : \E c \in Cuts : Meets(u, c)}

(* `Replay::reset`: an empty cut is realized whatever is active.            *)
NothingActive ==
  [missing  |-> [c \in Cuts |-> Cardinality(c)],
   realized |-> Cardinality(Cuts \cap {{}}),
   touching |-> [u \in DOMAIN units |-> 0],
   open     |-> [x \in Incidences |-> Cardinality(units[x[1]] \cap x[2])]]

(* `toggle`: a cut is realized when its last event comes, and no longer     *)
(* when the first goes.                                                     *)
Flipping(r, e, on) == {c \in Cuts : e \in c /\ r.missing[c] = IF on THEN 1 ELSE 0}

ToggleOpening(r, e, on) ==
  LET step == IF on THEN 1 ELSE 0 - 1
      flip == Flipping(r, e, on)
  IN  [missing  |-> [c \in Cuts |-> r.missing[c] - (IF e \in c THEN step ELSE 0)],
       realized |-> r.realized + step * Cardinality(flip),
       touching |-> [u \in DOMAIN units |-> r.touching[u] + step * Cardinality({c \in flip : Meets(u, c)})],
       open     |-> [x \in Incidences |-> r.open[x] - (IF e \in x[2] THEN step ELSE 0)]]

Toggle(r, e, on) ==
  LET step == IF on THEN 1 ELSE 0 - 1
      flip == Flipping(r, e, on)
  IN  [missing  |-> [c \in Cuts |-> r.missing[c] - (IF e \in c THEN step ELSE 0)],
       realized |-> r.realized + step * Cardinality(flip),
       touching |-> [u \in DOMAIN units |-> r.touching[u] + step * Cardinality({c \in flip : Meets(u, c)})],
       open     |-> [x \in Incidences |->
                       r.open[x] - (IF e \in units[x[1]] \cap x[2] THEN step ELSE 0)]]

(* `switch`.                                                               *)
Switched(r, from, to) ==
  LET off == FoldSet(LAMBDA e, f : Toggle(f, e, FALSE), r, from \ to)
  IN  FoldSet(LAMBDA e, f : Toggle(f, e, TRUE), off, to \ from)

(* `pivotal_with`: all that a cut misses is of the unit.                    *)
PivotalWith(r, u) == \E x \in Incidences : x[1] = u /\ r.missing[x[2]] = r.open[x]

-----------------------------------------------------------------------------
(* `finish`.                                                               *)
Configurations == {x[2] : x \in DOMAIN bins}

Zero == [u \in DOMAIN units |->
          [k \in Instants |-> [plus |-> 0, minus |-> 0, touched |-> 0, down |-> 0]]]

CutUp ==
  /\ stage = "push" /\ unread = {} /\ stage' = "cut"
  /\ kept' = CutSets
  /\ units' = UnitsOf(UNION {cut.events : cut \in Range(kept')})
  /\ UNCHANGED <<given, read, replay, here, judged, sums>>

StartJudging ==
  /\ stage = "cut" /\ stage' = "judge"
  /\ replay' = NothingActive
  /\ sums' = [units |-> Zero, cuts |-> [k \in Instants |-> 0]]
  /\ UNCHANGED <<given, read, here, judged, kept, units>>

WeightIf(holds, w) == IF holds THEN w ELSE 0

Judge(config) ==
  LET r    == Switched(replay, here, config)
      down == r.realized > 0
      weight(k) == IF <<k, config>> \in DOMAIN bins THEN bins[<<k, config>>] ELSE 0
      verdict(u) == [plus    |-> u \in Bound /\ (down \/ PivotalWith(r, u)),
                     minus   |-> u \in Bound /\ r.realized > r.touching[u],
                     touched |-> u \in Bound /\ r.touching[u] > 0,
                     down    |-> config \cap units[u] # {}]
  IN  /\ stage = "judge" /\ config \in Configurations \ judged
      /\ replay' = r /\ here' = config /\ judged' = judged \cup {config}
      /\ sums' =
           [cuts  |-> [k \in Instants |-> sums.cuts[k] + WeightIf(down, weight(k))],
            units |-> [u \in DOMAIN units |-> LET v == verdict(u) IN [k \in Instants |->
                        [f \in DOMAIN v |-> sums.units[u][k][f] + WeightIf(v[f], weight(k))]]]]
      /\ UNCHANGED <<given, read, stage, kept, units>>

(* Without a unit that meets no cut the structure is what it is with it.    *)
EndJudging ==
  /\ stage = "judge" /\ judged = Configurations
  /\ stage' = "done"
  /\ sums' = [sums EXCEPT !.units =
       [u \in DOMAIN @ |-> IF u \in Bound THEN @[u]
          ELSE [k \in Instants |-> [@[u][k] EXCEPT !.plus = sums.cuts[k], !.minus = sums.cuts[k]]]]]
  /\ UNCHANGED <<given, read, replay, here, judged, kept, units>>

IInit ==
  /\ selection \in Selections /\ basics = BasicEvents(selection) /\ trajectories \in Corpora
  /\ unread = DOMAIN trajectories
  /\ realized = [c \in {} |-> 0] /\ atTarget = [k \in Instants |-> 0]
  /\ bins = [x \in {} |-> 0] /\ stage = "push" /\ replay = Absent
  /\ here = {} /\ judged = {} /\ kept = << >> /\ units = << >> /\ sums = Absent

INext ==
  \/ \E i \in unread : PushTrajectory(i)
  \/ CutUp \/ StartJudging
  \/ \E config \in Configurations : Judge(config)
  \/ EndJudging

-----------------------------------------------------------------------------
(* What is active in a trajectory just after an instant, before its k-th    *)
(* event, by what each automaton recorded last.                             *)
LastOf(s, upTo, a) == {k \in upTo : Owner(s.events[k]) = a /\ \A j \in upTo : Owner(s.events[j]) = a => j <= k}
Standing(s, upTo) ==
  {Meaning(s.events[k]) : k \in UNION {LastOf(s, upTo, a) : a \in Followed}} \ {Absent}

Past(s, k) == {j \in DOMAIN s.events : s.events[j].time <= Dates[k]}

(* The first feared event.                                                  *)
Feared(s) == {k \in DOMAIN s.events : Meaning(s.events[k]) = FearedEvent}

Paths ==
  {LET s == trajectories[i] IN
   {e \in Standing(s, 1..Min(Feared(s))) : Owner(e) # Owner(FearedEvent)} :
     i \in {j \in DOMAIN trajectories : Feared(trajectories[j]) # {}}}

Down(D) == \E P \in Paths : P \subseteq D

(* Each measure of each event, component and group at each instant is the   *)
(* one its definition gives, from the states of the trajectories and the    *)
(* structure of all that was seen to be enough: the risk as it is, with the *)
(* unit failed and with it perfect, the share of the cuts it is in, and how *)
(* often it is down (importance.rs:43-65), whatever order trajectories come *)
(* and configurations are judged in.  No weight of the corpus is lost among *)
(* the cuts, which are the least of what was seen.                          *)
MeasuresAreTheirDefinitions ==
  stage = "done" =>
    LET weigh(Test(_)) == MapThenSumSet(LAMBDA i : WeightIf(Test(trajectories[i]), trajectories[i].weight),
                                        DOMAIN trajectories)
        active(s, k) == Standing(s, Past(s, k)) \ {FearedEvent}
        least == {P \in Paths : \A Q \in Paths : Q \subseteq P => Q = P}
        by(u) == units[u]
    IN  /\ Cuts = least
        /\ weigh(LAMBDA s : Feared(s) # {}) = MapThenSumSet(LAMBDA k : kept[k].weight, DOMAIN kept)
        /\ \A k \in Instants :
             /\ atTarget[k] = weigh(LAMBDA s : FearedEvent \in Standing(s, Past(s, k)))
             /\ sums.cuts[k] = weigh(LAMBDA s : Down(active(s, k)))
             /\ \A u \in DOMAIN units :
                  sums.units[u][k] =
                    [plus    |-> weigh(LAMBDA s : Down(active(s, k) \cup by(u))),
                     minus   |-> weigh(LAMBDA s : Down(active(s, k) \ by(u))),
                     touched |-> weigh(LAMBDA s : \E P \in least : P \subseteq active(s, k) /\ P \cap by(u) # {}),
                     down    |-> weigh(LAMBDA s : active(s, k) \cap by(u) # {})]
=============================================================================
