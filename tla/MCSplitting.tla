---- MODULE MCSplitting ----
EXTENDS Splitting, TLC

MCNone == "none"

Trn(aut, src, dst, law, policy, guard) ==
  [aut |-> aut, src |-> src, dst |-> dst, law |-> law, policy |-> policy, guard |-> guard]

(* Two units in parallel; the target needs both, watched by a transition of  *)
(* its own.                                                                  *)
Parallel ==
  [trans |-> <<Trn("a", "up", "down", 1 :> 1 @@ 3 :> 1, "reset", {}),
               Trn("b", "up", "down", 1 :> 1 @@ 2 :> 1 @@ 3 :> 2, "reset", {}),
               Trn("s", "ok", "lost", 0 :> 1, "reset", {<<"a", "down">>, <<"b", "down">>})>>,
   init |-> [a |-> "up", b |-> "up", s |-> "ok"],
   target |-> <<"s", "lost">>, tmax |-> 2, grid |-> <<>>,
   score |-> [a |-> [up |-> 0, down |-> 1], b |-> [up |-> 0, down |-> 1]]]

(* A unit that ages only while the other is on, and keeps its age; the score *)
(* rises while it is paused and again once it runs.                          *)
Paused ==
  [trans |-> <<Trn("m", "on", "off", 1 :> 1 @@ 5 :> 1, "reset", {}),
               Trn("m", "off", "back", 1 :> 1, "reset", {}),
               Trn("m", "back", "on", 0 :> 1, "reset", {}),
               Trn("c", "c0", "c1", 0 :> 1, "reset", {<<"m", "off">>}),
               Trn("c", "c1", "c2", 0 :> 1, "reset", {<<"m", "on">>}),
               Trn("b", "up", "down", 3 :> 1 @@ 6 :> 2, "resume", {<<"m", "on">>})>>,
   init |-> [m |-> "on", c |-> "c0", b |-> "up"],
   target |-> <<"b", "down">>, tmax |-> 4, grid |-> <<1, 3>>,
   score |-> [c |-> [c0 |-> 0, c1 |-> 1, c2 |-> 2]]]

(* A chain of failures scored one by one: several levels.                   *)
Chain ==
  [trans |-> <<Trn("c", "c0", "c1", 1 :> 1 @@ 2 :> 1, "reset", {}),
               Trn("c", "c1", "c2", 1 :> 1 @@ 2 :> 1, "reset", {}),
               Trn("c", "c2", "c3", 1 :> 1, "reset", {})>>,
   init |-> [c |-> "c0"],
   target |-> <<"c", "c3">>, tmax |-> 3, grid |-> <<2>>,
   score |-> [c |-> [c0 |-> 0, c1 |-> 1, c2 |-> 2, c3 |-> 3]]]

(* The same, of which only the first failure is drawn.                      *)
Drawn1 == [Chain EXCEPT !.trans[2].law = 1 :> 1]

With(model, particles, batches, iterations) ==
  model @@ [particles |-> particles, batches |-> batches, maxIterations |-> iterations]

MCStudies ==
  {With(Parallel, 2, 2, 2), With(Paused, 2, 2, 0), With(Chain, 2, 2, 2), With(Drawn1, 3, 2, 1)}

-----------------------------------------------------------------------------
(* The expectation of what a batch returns from these particles on, over    *)
(* every draw of parents and of restarts.                                   *)
RECURSIVE Estimated(_)
RECURSIVE Replacing(_, _, _, _)
Estimated(particles) ==
  IF Lowest(particles) = Reached THEN Whole
  ELSE IF Survivors(particles) = {} THEN Nil
  ELSE Times(Frac(Particles - Cardinality(Killed(particles)), Particles),
             Replacing(particles, InOrder(Killed(particles)), Survivors(particles),
                       Lowest(particles)))

Replacing(particles, killed, parents, level) ==
  IF killed = <<>> THEN Estimated(particles)
  ELSE LET from(parent) ==
             Expected(Branched(BranchPoint(particles[parent], level)),
                      LAMBDA x : Replacing([particles EXCEPT ![Head(killed)] = x],
                                           Tail(killed), parents, level))
       IN  Times(Frac(1, Cardinality(parents)),
                 FoldSet(LAMBDA parent, sum : Plus(sum, from(parent)), Nil, parents))

RECURSIVE Waves(_, _)
Waves(particles, i) ==
  IF i > Particles THEN Estimated(particles)
  ELSE LET all == Launched
       IN  Expected(all, LAMBDA x : Waves([particles EXCEPT ![i] = x], i + 1))

HitRate == Expected(Launched, LAMBDA x : IF LevelOf(x) = Reached THEN Whole ELSE Nil)

Fresh == \A b \in B : batch[b] = New

(* The estimate is unbiased: over all draws, of durations, of parents and of *)
(* conditional residuals, a batch returns on average the probability that a  *)
(* trajectory reaches the target (`run_splitting`, `redraw_clock`).          *)
Unbiased == Fresh => Waves([i \in Places |-> <<>>], 1) = HitRate
====
