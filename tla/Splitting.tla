----------------------------- MODULE Splitting -----------------------------
(* Adaptive multilevel splitting, `run_splitting`                            *)
(* (src/crates/raichu-montecarlo/src/splitting.rs): batches of particles,    *)
(* each a trajectory reduced to the engines it held when its score rose.     *)
(* The particles of the lowest score are replaced by restarts of the others' *)
(* first crossing above it, until all have reached the target, none is       *)
(* above the rest, or the replacements run out.                              *)
(*                                                                           *)
(* Batches run on several threads; within one, only the first wave does.     *)
EXTENDS Clocks

Particles     == study.particles
Batches       == study.batches
MaxIterations == study.maxIterations

(* `validate`: fewer than 2^31 batches, whose blocks then fit the range.     *)
ASSUME SettingsOK ==
  \A s \in Studies :
    /\ s.particles \in Nat /\ s.particles > 1 /\ s.particles < StreamBlock
    /\ s.batches \in Nat /\ s.batches > 1 /\ s.batches * StreamBlock <= PilotStreamBase

VARIABLES batch,   \* the state of each batch
          used     \* how often each stream was handed out

svars == <<study, batch, used>>

B      == 0..(Batches - 1)
Places == 1..Particles
Reached == 1000        \* the score of the target: above every other

-----------------------------------------------------------------------------
(* One trajectory                                                           *)

Score(e) ==
  IF e.hit THEN Reached
  ELSE MapThenSumSet(LAMBDA a : study.score[a][e.at[a]], DOMAIN study.score)

LevelOf(crossings) == IF crossings = <<>> THEN 0 ELSE Last(crossings).level

(* A crossing is kept when the score rises above all it has been.           *)
Scored(e, crossings) ==
  IF crossings = <<>> \/ Score(e) > LevelOf(crossings)
  THEN Append(crossings, [level |-> Score(e), engine |-> e])
  ELSE crossings

NextStop(e) ==
  LET ahead == SelectSeq(study.grid, LAMBDA t : t > e.time)
  IN  IF ahead = <<>> THEN study.tmax ELSE Head(ahead)

Crossing == [level : Nat, engine : Engines]

(* `trajectory`, from an engine whose instant is complete.                  *)
Trajectory[e \in Engines, crossings \in Seq(Crossing)] ==
  LET scored == Scored(e, crossings)
  IN  IF e.hit \/ e.time >= study.tmax THEN Surely(scored)
      ELSE Onward(Onward(StepUntil(e, NextStop(e)), LAMBDA x : Completed[x]),
                  LAMBDA x : Trajectory[x, scored])

Launched ==
  Onward(Onward(Built, LAMBDA e : Completed[e]), LAMBDA e : Trajectory[e, << >>])

(* A restart from a crossing keeps it as its own first one.                 *)
Branched(crossing) ==
  Onward(Onward(Restarted(crossing.engine), LAMBDA e : Completed[e]),
         LAMBDA e : Trajectory[e, <<crossing>>])

-----------------------------------------------------------------------------
(* One replacement                                                          *)

Lowest(particles) ==
  CHOOSE l \in {LevelOf(particles[i]) : i \in Places} :
    \A i \in Places : l <= LevelOf(particles[i])

Survivors(particles) == {i \in Places : LevelOf(particles[i]) > Lowest(particles)}
Killed(particles)    == {i \in Places : LevelOf(particles[i]) <= Lowest(particles)}

BranchPoint(crossings, level)        == SelectSeq(crossings, LAMBDA c : c.level > level)[1]

InOrder(S) == SetToSortSeq(S, LAMBDA i, j : i < j)

-----------------------------------------------------------------------------
(* The batch as a process                                                   *)

New == [phase |-> "launch", waiting |-> Places, particles |-> [i \in Places |-> <<>>],
        rank |-> Particles + 1,
        weight |-> Whole, levels |-> <<>>, killed |-> <<>>, parents |-> {},
        estimate |-> Nil, extinct |-> FALSE]

SInit == /\ study \in Studies
         /\ batch = [b \in B |-> New]
         /\ used = [s \in 0..(PilotStreamBase - 1) |->
                     Cardinality({b \in B : s = Stream(b, 0)})]

Take(b, rank) == used' = [used EXCEPT ![Stream(b, rank)] = @ + 1]

Set(b, fields) ==
  batch' = [batch EXCEPT ![b] = [x \in DOMAIN @ |-> IF x \in DOMAIN fields THEN fields[x] ELSE @[x]]]

(* The first wave, in any order: each place has its own stream.             *)
Launch(b) ==
  /\ batch[b].phase = "launch"
  /\ LET run == Launched
     IN  \E i \in Places, k \in DOMAIN run :
           /\ i \in batch[b].waiting
           /\ Set(b, [waiting |-> batch[b].waiting \ {i},
                      particles |-> [batch[b].particles EXCEPT ![i] = run[k].is],
                      phase |-> IF batch[b].waiting = {i} THEN "select" ELSE "launch"])
           /\ Take(b, i)
  /\ UNCHANGED study

AllReached(b) ==
  /\ batch[b].phase = "select"
  /\ Lowest(batch[b].particles) = Reached
  /\ Set(b, [phase |-> "done", estimate |-> batch[b].weight])
  /\ UNCHANGED <<study, used>>

Extinct(b) ==
  /\ batch[b].phase = "select"
  /\ Lowest(batch[b].particles) < Reached
  /\ Survivors(batch[b].particles) = {}
  /\ Set(b, [phase |-> "done", extinct |-> TRUE])
  /\ UNCHANGED <<study, used>>

IterationLimit(b) ==
  /\ batch[b].phase = "select"
  /\ Lowest(batch[b].particles) < Reached
  /\ Survivors(batch[b].particles) # {}
  /\ Len(batch[b].levels) >= MaxIterations
  /\ Set(b, [phase |-> "limit"])
  /\ UNCHANGED <<study, used>>

Select(b) ==
  /\ batch[b].phase = "select"
  /\ Lowest(batch[b].particles) < Reached
  /\ Survivors(batch[b].particles) # {}
  /\ Len(batch[b].levels) < MaxIterations
  /\ LET ps == batch[b].particles
     IN  Set(b, [phase |-> "replace", killed |-> InOrder(Killed(ps)),
                 parents |-> Survivors(ps),
                 weight |-> Times(batch[b].weight,
                                  Frac(Particles - Cardinality(Killed(ps)), Particles)),
                 levels |-> Append(batch[b].levels, Lowest(ps))])
  /\ UNCHANGED <<study, used>>

(* One of the killed at a time, each on the next rank.                      *)
Replace(b) ==
  LET w == batch[b]
  IN  /\ w.phase = "replace"
      /\ Stream(b, w.rank) # Refused
      /\ \E parent \in w.parents :
           LET from == Branched(BranchPoint(w.particles[parent], Last(w.levels)))
           IN  \E k \in DOMAIN from :
                 Set(b, [particles |-> [w.particles EXCEPT ![Head(w.killed)] = from[k].is],
                         killed |-> Tail(w.killed), rank |-> w.rank + 1,
                         phase |-> IF Len(w.killed) = 1 THEN "select" ELSE "replace"])
      /\ Take(b, w.rank)
      /\ UNCHANGED study

(* The streams of the batch are exhausted: refused, not wrapped.            *)
StreamsExhausted(b) ==
  /\ batch[b].phase = "replace"
  /\ Stream(b, batch[b].rank) = Refused
  /\ Set(b, [phase |-> "exhausted"])
  /\ UNCHANGED <<study, used>>

Over == {"done", "limit", "exhausted"}
Finished == (\A b \in B : batch[b].phase \in Over) /\ UNCHANGED svars

BatchStep(b) == \/ Launch(b) \/ AllReached(b) \/ Extinct(b) \/ IterationLimit(b)
                \/ Select(b) \/ Replace(b) \/ StreamsExhausted(b)

SNext == (\E b \in B : BatchStep(b)) \/ Finished

SSpec == SInit /\ [][SNext]_svars

-----------------------------------------------------------------------------
(* What the batches have to keep; what they estimate is in MCSplitting.     *)

(* No stream serves two trajectories of a campaign, nor a trajectory and a   *)
(* draw of parents, and each batch has used the first streams of its block,  *)
(* as many as the trajectories it reports and one (`stream`, `rank`).        *)
StreamsAreFresh ==
  /\ \A s \in DOMAIN used : used[s] <= 1
  /\ (\A b \in B : batch[b].phase # "launch") =>
       {s \in DOMAIN used : used[s] = 1}
         = UNION {{Stream(b, rank) : rank \in 0..(batch[b].rank - 1)} : b \in B}
=============================================================================
