------------------------------ MODULE Campaign ------------------------------
(* A Monte-Carlo campaign: `stream_replicas`, `simulate_chunk`, the reducer  *)
(* and the readers of change-point series of                                *)
(* src/crates/raichu-montecarlo/src/lib.rs, over what one engine records     *)
(* (src/crates/raichu-core/src/engine/sampling.rs).                          *)
(*                                                                           *)
(* Replicas of a chunk run on several threads and end in any order; the      *)
(* chunk is then read in the order of its replicas.  A campaign whose unit   *)
(* allows one instance runs them one at a time.  What one replica does is a  *)
(* history: jumps of one indicator, and how it ends.                         *)
EXTENDS Integers, Sequences, FiniteSets, FiniteSetsExt, SequencesExt

CONSTANTS
  NbRuns,       \* `nb_runs`
  Samples,      \* ascending instants
  TMax,         \* the horizon
  Histories,    \* what a replica may do
  ChunkBytes, MaxChunk, SampleBytes,   \* the budget of one chunk
  Widths,       \* how many indicators a model may have
  Orders,       \* quantile orders, in fifths
  None          \* no end cause, no failure

Replica == 0..(NbRuns - 1)
Instant == DOMAIN Samples

ASSUME CampaignOK == /\ NbRuns \in Nat \ {0} /\ TMax \in Nat
                     /\ ChunkBytes \in Nat /\ Widths \subseteq Nat
                     /\ {MaxChunk, SampleBytes} \subseteq Nat \ {0}
                     /\ Samples \in Seq(Nat)
                     /\ \A k \in Instant : Samples[k] \in 0..TMax
                     /\ \A k \in Instant : k > 1 => Samples[k - 1] < Samples[k]

VARIABLES history,   \* what each replica does on its stream
          indicators,   \* of the model: they share the history here
          serial,    \* one replica at a time
          first,     \* of the chunk
          done,      \* replicas of the chunk that have run
          sunk,      \* the replicas handed to the sink, in that order
          status,    \* "running", "estimated", "refused", or "stopped" by its caller
          failed     \* the replica a refusal names

mvars == <<history, indicators, serial, first, done, sunk, status, failed>>

-----------------------------------------------------------------------------
(* What one engine records: the points where the value changes, and the      *)
(* samples flushed before each event, the first ones at the start.           *)

Flushed(rec, past) ==
  LET due == {k \in Instant : k > Len(rec.samples) /\ past[Samples[k]]}
  IN  [rec EXCEPT !.samples = @ \o [j \in 1..Cardinality(due) |-> rec.value]]

Through(t) == [s \in 0..TMax |-> s <= t]
Until(t)   == [s \in 0..TMax |-> s < t]

Noted(rec, t) ==
  IF rec.points # <<>> /\ Last(rec.points).value = rec.value THEN rec
  ELSE [rec EXCEPT !.points = Append(@, [at |-> t, value |-> rec.value])]

Initially(h) ==
  Flushed(Noted([value |-> h.init, points |-> <<>>, samples |-> <<>>], 0), Through(0))

Jumped(rec, jump) ==
  Noted([Flushed(rec, Until(jump.at)) EXCEPT !.value = jump.value], jump.at)

(* A trajectory stopped by a target holds its state to the horizon.         *)
Recorded == [h \in Histories |-> Flushed(FoldLeft(Jumped, Initially(h), h.jumps), Through(TMax))]

-----------------------------------------------------------------------------
(* Reading a series of change points                                        *)

Earlier(a, b) == IF a < b THEN a ELSE b
Later(a, b)   == IF a > b THEN a ELSE b
Sum(f, S)     == MapThenSumSet(LAMBDA x : f[x], S)

(* `sojourn_at`.                                                            *)
SojournAt(points, instant) ==
  LET open == {i \in DOMAIN points : points[i].at < instant}
      upTo == [i \in open |->
                 IF i = Len(points) THEN instant ELSE Earlier(points[i + 1].at, instant)]
  IN  FoldSet(LAMBDA i, acc : acc + points[i].value * (upTo[i] - points[i].at), 0, open)

Seen(points, instant) == SelectSeq(points, LAMBDA p : p.at <= instant)

(* `nb_occurrences_at`: from nothing to above zero, the initial value taken. *)
OccurrencesAt(points, instant) ==
  LET seen == Seen(points, instant)
  IN  Cardinality({i \in DOMAIN seen :
                     (i = 1 \/ seen[i - 1].value <= 0) /\ seen[i].value > 0})

(* `zero_departures_at`: the initial value is where it starts, not a move.   *)
ZeroDeparturesAt(points, instant) ==
  LET seen == Seen(points, instant)
  IN  Cardinality({i \in DOMAIN seen \ {1} : seen[i - 1].value = 0 /\ seen[i].value # 0})

(* `nonzero_reached_at`.                                                    *)
NonzeroReachedAt(points, instant) ==
  IF \E i \in DOMAIN Seen(points, instant) : points[i].value # 0 THEN 1 ELSE 0

(* `replica_samples`.                                                       *)
SampleAt(rec, k) ==
  [value    |-> rec.samples[k],
   sojourn  |-> SojournAt(rec.points, Samples[k]),
   occurred |-> OccurrencesAt(rec.points, Samples[k]),
   departed |-> ZeroDeparturesAt(rec.points, Samples[k]),
   nonzero  |-> NonzeroReachedAt(rec.points, Samples[k])]

AtEach(f) == SubSeq(f, 1, Len(Samples))

ReplicaSamples == [h \in Histories |-> AtEach([k \in Instant |-> SampleAt(Recorded[h], k)])]

-----------------------------------------------------------------------------
(* The reduction                                                            *)

Blank == [folded |-> 0, ends |-> <<>>, reached |-> <<>>,
          sums |-> AtEach([k \in Instant |->
                            [value |-> 0, sojourn |-> 0, occurred |-> 0,
                             departed |-> 0, nonzero |-> 0, reached |-> 0]]),
          columns |-> AtEach([k \in Instant |-> <<>>])]

Added(sums, s) ==
  [value    |-> sums.value + s.value,       sojourn |-> sums.sojourn + s.sojourn,
   occurred |-> sums.occurred + s.occurred, departed |-> sums.departed + s.departed,
   nonzero  |-> sums.nonzero + s.nonzero,
   reached  |-> sums.reached + (IF s.occurred > 0 THEN 1 ELSE 0)]

(* `count_to_targets`: the first target reached, when there is one.         *)
Counted(reached, cause) ==
  IF cause = None THEN reached
  ELSE [c \in DOMAIN reached \cup {cause} |->
          (IF c \in DOMAIN reached THEN reached[c] ELSE 0) + (IF c = cause THEN 1 ELSE 0)]

(* `Reducer::push`, and what the sink keeps of the end of the replica.      *)
Pushed(red, r) ==
  LET samples == ReplicaSamples[history[r]]
  IN  [folded  |-> red.folded + 1,
       ends    |-> Append(red.ends, history[r].cause),
       reached |-> Counted(red.reached, history[r].cause),
       sums    |-> AtEach([k \in Instant |-> Added(red.sums[k], samples[k])]),
       columns |-> AtEach([k \in Instant |-> Append(red.columns[k], samples[k].value)])]

(* What the reducer holds after its pushes.                                 *)
Reducer == FoldLeft(Pushed, Blank, sunk)

(* A nearest-rank quantile of a column, `order` fifths.                    *)
QuantileBelow(column, order) ==
  LET sorted == SortSeq(column, LAMBDA a, b : a < b)
      rank   == Later((order * Len(column)) \div 5 - 1, 0)
  IN  sorted[rank + 1]

Quantile(column, order) ==
  LET sorted == SortSeq(column, LAMBDA a, b : a < b)
      rank   == Earlier(Later((order * Len(column) + 4) \div 5 - 1, 0), Len(column) - 1)
  IN  sorted[rank + 1]

-----------------------------------------------------------------------------
(* The campaign                                                             *)

(* `chunk_len`.                                                             *)
ChunkLenFitting ==
  IF indicators = 0 \/ Samples = <<>> THEN MaxChunk
  ELSE Earlier(ChunkBytes \div (indicators * Len(Samples) * SampleBytes), MaxChunk)

ChunkLen ==
  IF indicators = 0 \/ Samples = <<>> THEN MaxChunk
  ELSE LET fits == ChunkBytes \div (indicators * Len(Samples) * SampleBytes)
       IN  Earlier(Later(fits, 1), MaxChunk)

ChunkEnd == Earlier(first + ChunkLen, NbRuns)
Chunk    == first..(ChunkEnd - 1)

MInit == /\ history \in [Replica -> Histories]
         /\ indicators \in Widths /\ serial \in BOOLEAN
         /\ first = 0 /\ done = {} /\ sunk = <<>> /\ status = "running" /\ failed = None

(* One replica of the chunk, on whichever thread.                           *)
Simulate(r) ==
  /\ status = "running" /\ ~serial
  /\ r \in Chunk \ done
  /\ done' = done \cup {r}
  /\ UNCHANGED <<history, indicators, serial, first, sunk, status, failed>>

Failing(S) == {r \in S : history[r].fails}

Blamed(S)  == CHOOSE r \in Failing(S) : \A q \in Failing(S) : r <= q

EndChunkAtFirstReport ==
  /\ status = "running" /\ ~serial
  /\ Failing(done) # {}
  /\ status' = "refused" /\ failed' = Blamed(done)
  /\ UNCHANGED <<history, indicators, serial, first, done, sunk>>

(* The chunk is read in replica order: up to a failure, or folded whole.    *)
EndChunkFailed ==
  /\ status = "running" /\ ~serial
  /\ first < NbRuns /\ done = Chunk
  /\ Failing(Chunk) # {}
  /\ status' = "refused" /\ failed' = Blamed(Chunk)
  /\ UNCHANGED <<history, indicators, serial, first, done, sunk>>

(* `collect` gives the replicas of the chunk in their order.                *)
InOrder == [k \in 1..(ChunkEnd - first) |-> first + k - 1]

EndChunk ==
  /\ status = "running" /\ ~serial
  /\ first < NbRuns /\ done = Chunk
  /\ Failing(Chunk) = {}
  /\ sunk' = sunk \o InOrder
  /\ first' = ChunkEnd /\ done' = {}
  /\ UNCHANGED <<history, indicators, serial, status, failed>>

(* A single instance: each replica is folded before the next starts.        *)
SimulateSerial ==
  /\ status = "running" /\ serial /\ first < NbRuns
  /\ IF history[first].fails
     THEN status' = "refused" /\ failed' = first /\ UNCHANGED <<first, sunk>>
     ELSE sunk' = Append(sunk, first) /\ first' = first + 1
          /\ UNCHANGED <<status, failed>>
  /\ UNCHANGED <<history, indicators, serial, done>>

(* `Reducer::finish`.                                                       *)
Finish ==
  /\ status = "running" /\ first = NbRuns
  /\ status' = "estimated"
  /\ UNCHANGED <<history, indicators, serial, first, done, sunk, failed>>

Ended == status # "running" /\ UNCHANGED mvars

Work == \/ \E r \in Replica : Simulate(r)
        \/ EndChunkFailed \/ EndChunk \/ SimulateSerial \/ Finish

MNext == Work \/ Ended

MSpec == MInit /\ [][MNext]_mvars /\ WF_mvars(Work)

-----------------------------------------------------------------------------
(* What a campaign has to keep                                              *)

(* The value a history holds after everything at `t` has happened, the value *)
(* over the unit of time that starts there, and the values it goes through.  *)
ValueAt(h, t) ==
  LET past == SelectSeq(h.jumps, LAMBDA j : j.at <= t)
  IN  IF past = <<>> THEN h.init ELSE Last(past).value

Area(h, t) == MapThenSumSet(LAMBDA u : ValueAt(h, u), 0..(t - 1))

Values(h, t) ==
  <<h.init>> \o [i \in 1..Len(SelectSeq(h.jumps, LAMBDA j : j.at <= t)) |-> h.jumps[i].value]

Ups(h, t, From(_), To(_)) ==
  LET v == Values(h, t) IN Cardinality({i \in 2..Len(v) : From(v[i - 1]) /\ To(v[i])})

Rises(h, t) == Ups(h, t, LAMBDA a : a <= 0, LAMBDA b : b > 0)
                 + (IF h.init > 0 THEN 1 ELSE 0)
Leaves(h, t) == Ups(h, t, LAMBDA a : a = 0, LAMBDA b : b # 0)

(* What is folded is the campaign of the replicas in their order, measure by *)
(* measure, whatever the threads and the chunks: values held after the       *)
(* events of an instant, areas under the history, entries and departures     *)
(* counted on it (`Reducer`, `sojourn_at`, `nb_occurrences_at`,              *)
(* `zero_departures_at`, `flush_samples`).  The start is the one instant     *)
(* sampled before its events.                                                *)
FoldIsTheCampaign ==
  LET reducer == Reducer
      folded == 0..(first - 1)
      over(F(_)) == MapThenSumSet(F, folded)
  IN  \A k \in Instant :
        LET t == Samples[k]
            held(r) == IF t = 0 THEN history[r].init ELSE ValueAt(history[r], t)
        IN  /\ reducer.columns[k] = [i \in 1..first |-> held(i - 1)]
            /\ reducer.sums[k].value    = over(held)
            /\ reducer.sums[k].sojourn  = over(LAMBDA r : Area(history[r], t))
            /\ reducer.sums[k].occurred = over(LAMBDA r : Rises(history[r], t))
            /\ reducer.sums[k].departed = over(LAMBDA r : Leaves(history[r], t))

(* The measures of one instant agree: whoever is above zero has entered, who *)
(* is away from zero started there or departed, and the rates of replicas    *)
(* reached count each at most once (the docs of the readers).                *)
MeasuresAgree ==
  LET reducer == Reducer IN
  \A k \in Instant :
    LET sums == reducer.sums[k]
        starts == Cardinality({r \in 0..(first - 1) : history[r].init # 0})
    IN  /\ Cardinality({i \in 1..first : reducer.columns[k][i] > 0}) <= sums.reached
        /\ Cardinality({i \in 1..first : reducer.columns[k][i] # 0}) <= sums.nonzero
        /\ sums.reached <= sums.occurred /\ sums.reached <= sums.nonzero
        /\ starts <= sums.nonzero /\ sums.nonzero <= starts + sums.departed

(* The sink gets the replicas in their order.                              *)
InTheirOrder == sunk = [k \in 1..first |-> k - 1]

(* A refusal names the replica that would stop a campaign of one thread, and *)
(* every replica before it has run (`simulate_chunk`, `ReplicaFailed`).      *)
LowestFailure ==
  /\ status = "estimated" => Failing(Replica) = {} /\ first = NbRuns
  /\ status = "refused" =>
       /\ \A r \in Failing(Replica) : failed <= r
       /\ 0..(failed - 1) \subseteq (0..(first - 1)) \cup done
       /\ Failing(0..(first - 1)) = {}

(* However the replicas are grouped and whichever finishes first, what is   *)
(* handed over, or refused, is what one thread would hand over or refuse    *)
(* (`stream_replicas`, `simulate_chunk`).                                   *)
CampaignIsSequential == InTheirOrder /\ LowestFailure

(* The counts by target are those of the ends kept one by one               *)
(* (`count_to_targets`, `run_to_targets`).                                   *)
CountsAreEnds ==
  LET reducer == Reducer IN
  /\ \A c \in DOMAIN reducer.reached :
       /\ c # None
       /\ reducer.reached[c] = Cardinality({i \in DOMAIN reducer.ends : reducer.ends[i] = c})
  /\ \A i \in DOMAIN reducer.ends : reducer.ends[i] # None =>
       reducer.ends[i] \in DOMAIN reducer.reached

(* The nearest-rank quantile is the least value that its share of the        *)
(* replicas does not exceed (`finish`).                                      *)
QuantilesAreRanks ==
  LET reducer == Reducer IN
  status = "estimated" =>
    \A k \in Instant, q \in Orders :
      LET column == reducer.columns[k]
          atMost(v) == 5 * Cardinality({i \in DOMAIN column : column[i] <= v})
          value == Quantile(column, q)
      IN  /\ atMost(value) >= q * NbRuns
          /\ \A i \in DOMAIN column : column[i] < value => atMost(column[i]) < q * NbRuns

(* What is folded is the campaign, and the parts of one result agree with   *)
(* one another.                                                             *)
ResultsAgree == FoldIsTheCampaign /\ MeasuresAgree /\ CountsAreEnds /\ QuantilesAreRanks

(* Every campaign ends, estimated or refused.                               *)
CampaignEnds == <>(status # "running")
=============================================================================
