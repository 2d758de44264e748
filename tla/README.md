# TLA+ models of RAICHU

RAICHU simulates hybrid stochastic automata for dependability studies.  These
modules model the control of its engine (`src/crates/raichu-core/src/engine/`),
of the three drivers that run engines (Monte-Carlo campaigns, importance
splitting, exploration of the tree of sequences), of the analyses that read a
model or reduce what was recorded, and of fault trees: their generation and their
quantification.  TLC checks the modules on small instances;
TLAPS proves the main invariants of the engine, and of a campaign that records, for
every value of the constants.

    cd tla
    tlc -workers 2 -config Fixpoint.cfg MCFixpoint.tla     # any run of PROJECT.json
    tlapm FixpointProofs.tla                               # any *Proofs.tla

`PROJECT.json` lists components, runs, hazards, findings, theorems, the lines of
source each definition stands for, and for each property a plausible bug of the
code (a *mutant*, defined beside the definition it replaces) that violates it.

## The system

| component | state it keeps | operations | hard part | correct when |
|---|---|---|---|---|
| discrete fixpoint (`run.rs`, tables of `compile.rs`) | attribute values, worklist, run counts of cycle steps | apply effects, functions and programs until nothing is pending; confluence probe | order of steps, cycles, errors midway | every derived attribute agrees with what it reads; it returns; counts are its own |
| scheduler (`run.rs`, `schedule.rs`, guards of `notes.rs`) | date, arming wave, frozen countdown, hazard per transition; clock; streak; budgets; target | `step`, `run`, `fire`, `refresh_transition` | simultaneous events, interruption, re-dating, Zeno loops | schedule agrees with state; lifetimes are spent exactly; runs return |
| interactive control (`interactive.rs`) | the same, plus snapshots | `step_until`, `advance_to`, `set_input`, `set_date`, `fire_idx`, `fire_now`, `snapshot`, `restore`, `reset` | sequences of legal calls no test writes | the scheduler's invariants survive every sequence of calls |
| indexed watched set (`notes.rs`, margin index of `compile.rs`) | armed positions, cached verdicts, stale marks, change log | marks from every writer, scan | a verdict stale after a rewind, a failure or a restore | the indexed scan selects what a full scan would |
| exposure tally (`schedule.rs`) | exposure and firings per exponential transition | `accrue` | lazy accounting | tally = time armed and running |
| deferred and operator dates (`deferred.rs`, `interactive.rs`) | ages, hazards, programmed dates, held choices | `fire_deferred_at`, `probe_deferred`, operator commands as transactions | pauses, resumptions, re-rating, rollback | a duration counts the time it ran; nothing held is passed; a failed command leaves nothing |
| restart and splitting clocks (`restart.rs`) | the age of each drawn clock | `restart_from_snapshot` on another stream | redraw once, at the age reached, paused clocks later | the law of the future is the one of the past |
| co-simulation (`cosim.rs`, `process_fmu_point`) | position on the grid, held inputs, units due | communication points, reactions, sampling | several units at one instant, additional points | grids never drift; inputs are those of the end of the last point |
| sampling (`sampling.rs`) | cursor over sample instants | flush before and through an instant | a sample at the date of a firing | a sample is the value after the events of its instant |
| Monte-Carlo driver (`raichu-montecarlo/src/lib.rs`) | chunk of replicas, reducer | simulate, fold, finish | threads, failures, rank of a quantile | the result does not depend on threads or chunks |
| importance splitting (`splitting.rs`, `raichu-rng`) | particles of each batch, rank of the next stream | launch, select, replace | ties, extinction, streams of parallel batches | unbiased; no stream serves twice |
| exploration (`raichu-explore`) | frames with snapshots, tallies, shares of the branch cap | examine, expand, fire, pop | snapshots restored lazily, cut-offs, parallel subtrees | the walk is the recursion; the bounds hold the probability |
| static analyses (`dependency.rs`, `cycle_groups.rs`, `loops.rs`, `triggers.rs`) | dependency graph, search marks | decide which cycles may be cancelled, find loops, find sealed modes | what remembers a failure | what they say of a model is what it does |
| sequence reduction (`raichu-analysis/src/sequence.rs`) | merged paths, report | push, cancel, merge, minimal level | ties, order of arrival | the result depends on the trajectories only |
| continuous evolution (`continuous.rs`, `ode.rs`) | continuous attributes, segment | integrate, locate crossings | crossings that move the plan | not modelled |
| flow network (`engine/flow.rs`, `flow.rs`) | active set, damping, budgets | sweep, resolve | stalls, two-cycles | what it announces is in `WatchedIndex`; convergence is not modelled |
| fault tree generation (`fault_tree.rs`) | attributes being unrolled, states being explained, warnings | unroll guards, push negations, chain backward, simplify | rings, votes, followers, what a tree cannot say | no history to the top escapes the tree; what it adds is warned of |
| fault tree quantification (`raichu-fta`) | graph, modules, diagrams, partials of a cut-set search, neglected mass | cut into modules, value each, list, weigh | shared events, modules absorbed or constant, cutoffs | value, bound, importances and cut sets are those of the tree |
| exported unit and its host (`raichu-fmu`, `raichu-fmi`) | phase, engine, pending values, checkpoints | initialise, set, step, save, restore, reset | errors and panics midway, rebuilt engines, who frees what | a checkpoint comes back whole; the host is never refused |
| compilation, validation, catalogue, bindings | immutable tables | compile | sequential | what the engine relies on is assumed by the modules |

How they interact: `run` and the interactive calls select a transition with
`immediate_watched` (indexed watched set) and `next_pending`; `fire` accrues the
tally, moves the automaton, writes the edge effects, runs the fixpoint, resolves
the flows, refreshes the schedule of every transition and marks the units whose
inputs changed.  `set_input` runs the same tail and then `advance_to` the present
time.  An engine is one thread: the interleavings inside it are those of steps
and calls.  Threads appear in the drivers, which give each task an engine of its
own and put the results back in order: `Campaign`, `Splitting` and `Explore`
interleave those tasks.

## Modules

| module | models | proofs |
|---|---|---|
| `Fixpoint` | `fire`'s edge effects, `run_fixpoint`, `converge`, `confluence_probe`, `apply_function`, `apply_program`, `reset` | `FixpointProofs` |
| `Scheduler` | `initialize`, `step`, `run`, `fire`, `refresh_transition`, `next_pending`, `check_targets`, `note_firing`, `note_watched_firing` | `SchedulerProofs` |
| `Race` | abstract specification: a race of lifetimes, which `Scheduler` implements | `SchedulerProofs` |
| `Interactive` | `Scheduler` driven by a caller | `CallerProofs` |
| `WatchedIndex` | `immediate_watched` and every place that writes the state | `WatchedIndexProofs` |
| `Exposure` | `ExposureTally` over `Scheduler`, with inputs | `CallerProofs` |
| `CoSim` | `Scheduler` with imported units: `next_point`, `process_fmu_point`, `step_due`, `mark_input_changes`, `sample_inputs` | `CoSimProofs` |
| `Exported` | an exported unit: `Instance` and its entry points (`raichu-fmu`), called by any importer or by the host (`raichu-fmi/src/instance.rs`, `cosim.rs`) | `CoSimProofs` |
| `Deferred` | the engine when dates are not drawn: ages, programmed dates, held choices, as operators on a record | `OperatorProofs` |
| `Operator` | a caller driving `Deferred`: interactive calls, transactions, `advance_operator_to` | `OperatorProofs` |
| `Explore` | the walk of the tree over `Deferred`, exact and discretised strategies, a task per child of the root | |
| `Fractions` | exact probabilities | |
| `Clocks` | the numbering of random streams, drawn clocks and `restart_from_snapshot`, carried through distributions | `SplittingProofs` |
| `Splitting` | `run_splitting`: batches of particles over `Clocks` | `SplittingProofs` |
| `Campaign` | `stream_replicas`, `simulate_chunk`, the reducer, sample measures, sampling | `RecordingProofs` |
| `Recording` | a campaign that keeps its sequences: the corpus, its writer and its reader, the observations, the conditional reduction, over `Campaign` | `RecordingProofs` |
| `Importance` | `ImportanceReducer`: basic events, realized cuts, absorption, units, the incremental replay of configurations | |
| `Dependency` | compiled expressions; the dependency graph with its two sets of edges | |
| `SwitchingLoops` | `strongly_connected`, one step an action, and `switching_loops` | |
| `CycleGroups` | `cycle_groups`: `Facts`, the search through what remembers; `unfed_triggers`: the fold of guards over unfed ports | |
| `PathReduction` | `SequenceReducer` and `minimal_sequences` | |
| `FaultTree` | `fault_tree_for_targets`: unrolling, normal form, backward chaining, followers, warnings, simplification, `minimal_cut_sets` | |
| `Diagrams` | `dd.rs`: binary and zero-suppressed decision diagrams, as terms | |
| `TreeGraph` | the graph of a formula (`quantify.rs`): simplification, sharing, coalescing, modules | |
| `Cutoffs` | `approx.rs`: the search of cut sets under cutoffs, one partial an action | |
| `Quantify` | `quantify`: modules valued one by one by diagram or by `Cutoffs`, and put together | |
| `Study` | compilation of a model, its walk, the reduction of its trajectories, its fault trees and their quantification: composes the modules above | |

`MC*` modules give the instances.

**Fixpoint.**  `vars` holds attributes and active states, so one trigger table
stands for `var_triggers` and `state_triggers`.  An expression is a function on
stores with a sensitivity set; that the value depends on nothing else is what
the compiler guarantees and an assumption here (`ModelOK`), with the rule of
`check_transition_effects` that no edge effect writes an attribute of a
function.  `Pop` is `pop_first` (`pop_last` in the reverse pass) with its two
counters; `WriteEffect` is one write, `FinishStep` the end of a step;
`LoopDetected`, `WorkExceeded` and `EffectFails` are the three errors, each with
what it leaves: the first two clear the worklist, the third leaves it.  A
program reads the state it was popped on (`base`), a function the state its
previous effect left.  `StartReverse` and `Compare` are the probe.  `clean` is a
history variable: no fixpoint failed since the last initialization.  After a
failure the caller still has the engine, unless it failed in `Engine::new`
(`Built`), so `Fire` and `Reset` go on from there.

**Scheduler.**  The store holds the automata and the attributes that carry
memory; what the fixpoint derives is a function of the store, hence guards are
sets of stores and rates functions of the store.  A slot is the tuple
`pending, armed_wave, frozen, hazards` of one transition.  `Refreshed` has one
case per branch of `refresh_transition`, under the code's names
(`Interrupted` is `drop_disabled`, `Rescheduled` is `reschedule_modifiable`,
`Armed` the two `schedule_*`).  An action of `Next` is one turn of `run`'s loop,
firing included.  A delay is drawn from the set `draws`, a hazard threshold too;
time is a natural number, so a date computed by division is exact when the menu
makes thresholds multiples of rates, and rounded otherwise.

**Race** has no dates.  Each transition holds what is left of a lifetime, which
shrinks at the present rate, at one, or not at all.  `Left`, the refinement mapping
of `Scheduler`, takes a date, a frozen countdown or a banked hazard to what is left.

**Interactive** makes each call one action; `advance_to`, and the reaction that
ends `set_input`, take one action per step, during which the caller waits
(`bound`).  `passedOver` and `overruled` are history variables used by the
property on overdue dates only: a `fire_idx` that went past a date, and a `set_date`
on a state-dependent rate, whose hazard goes on accumulating.  The comment of
`step` (`run.rs:167`) knows of the first cause of overdue dates only.

**WatchedIndex** is finer than the scheduler: an action is one write, one mark or
one scan.  `unheard` is a history variable: the entries whose guard reads a
write the sweep kept within its band.

**Exposure** adds the tally to `Scheduler`, and `lived`, a history variable: the
time each transition spent armed.

**CoSim** splits a communication point into actions (`phase`): the units due step
with what they held, the model reacts, and that again until no unit is due; then
inputs are sampled.  A unit is native code: a state and a function of that state
and of the held inputs.  A firing, a reaction or another unit that changes an
input of a unit which accepts steps of any length makes it due at once, between
two points of its grid.

**Exported** has one instance.  A call is an operator from the instance to the
`Outcomes` it may have and the status it returns: the pending values are read in
the order of a hash map, and code that panics leaves the engine anyhow (`Damaged`).
`Call` is any importer; `HostCall` is the next call of what the host was asked
(`Script`, `StepScript`, `SaveScript`, `RestoreScript`), which a refusal ends.  The
engine inside is what the interface sees of one: exported values, what they become
at once and in a unit of time.  `views` is a history variable: what was seen when
each checkpoint was taken.  A unit of another maker serialises its checkpoints, a
RAICHU one refuses to; both are possible here.

**Deferred** is an engine as a record, so that a command can keep a copy of it,
and a walker a stack of them.  `RefreshedClock` is `refresh_deferred`, with the
age and the hazard of a transition; `RefreshedDate` is `refresh_operator_date`,
with the date an operator programmed, suspended or resumed.  `lived` is the
history the two durations are compared with.  In **Operator** a call is one
action; `Command` wraps it in the transaction of the operator mode: a command
that fails restores the snapshot it began with.  A call refused before any
change is a stutter and left out.

**Explore** has one walker per child of the root; a step of a walker visits one
child or pops one frame.  The engine of a frame is restored from its snapshot
only when a sibling has moved it (`dirty`), as in the code.  Probabilities are
integers out of `Scale`; two laws stand for the exponential polynomials and the
quantiles: each sojourn halves the mass of an exact exploration, and the
competitors of a window carry half of it.  The reference is a plain recursion on
engines that are never shared.

**Clocks** and **Splitting** carry probabilities exactly: a law is a table of
weights on durations, an engine a distribution of engines.  The actions of
`Splitting` are those of the batches, each of which hands out streams by rank;
`Unbiased`, in `MCSplitting`, is computed at the start over every draw.

**Campaign** gives every replica a history, jumps of one indicator and an end;
`Flushed` is the cursor of `sampling.rs` as those jumps happen.  A worker ends
any replica of the chunk, in any order; the fold, the measures and the blame are
read in replica order.

**Recording** is `run_sequences_json` around a campaign: `Create`, `Sink` (one
trajectory written, then reduced), `Flush`, `Move` (the rename) and, from any of
them, `Abandon`, which removes what was written beside the path; when the removal fails
too, whatever the writer left stays there, and nobody is told.  `Kill` leaves
any prefix of the lines, the last one torn.  A reader then opens a copy of what is
there, whole, cut, or with a line lost, doubled, moved or blank.  **Importance**
counts as the code does: `PushTrajectory` is `push` and `tally`, `CutUp` is
`cut_sets` and the units, `Judge` one configuration of `finish`.

**Study** compiles a model: `SwitchingLoops` searches components with the
successors of a node in any order, which the code takes by index;
`CycleGroups` decides, of groups and of unfed triggers.  Then either a recorded corpus is pushed
into `PathReduction`, in any order, or a trajectory is walked: transitions that
take no time come first, in any order; others wait for any time, so that every
interleaving of dates is covered; `Tick` lets what an ODE or a unit moves move.
The walk keeps two worlds.  `world` is the model.  `without` is the same history
where some of the failure/repair cycles that the analysis lets the reduction
cancel do not happen: recorded automata are moved as recorded, memoryless
automata follow what they read, everything else keeps what it has.  A group is
left out from a failure to the repair that closes its cycle.  When the feared
event happens with no such cycle open, it must be possible in `without` too.
Groups declared `always` or `never` follow the declaration and carry no claim.

**FaultTree** is what `Explain` of `Study` calls, with any set of targets of the
model.  A tree is an expression over draws: an event is a transition with the
branch drawn, and a transition that takes no time and has one branch is crossed
without an event.  `Unrolled` replaces attributes by what computes them,
`Normal` pushes negations onto states, `StateExplained` is `expand_state` (a
path that comes back to a state adds nothing), `FollowerOf` finds the automata
that mirror a condition, `Rivals` and `Repairs` are what `note_approximations`
and `repairs` report.  Then the model is walked in `world`, and `drawn`, a history
variable, collects the draws that occurred.  A transition is assumed to have no
two branches to one state.  Laws' numbers, profiles, branches of probability zero,
watched boundaries, labels and budgets are left out.

**Quantify** takes the tree just generated (its events worth 1/2) or a formula
given, with a choice of cutoffs.  `Started` is the graph and its modules;
`ValueModule` values the next by its diagram, `Outgrow` says that it outgrew the
budget (a choice) and starts the search of `Cutoffs`, `Collect` takes what that
search kept.  Probabilities are fractions, where the code has floats.
`Cutoffs` has one action per branch of the loop of `extract`: `Cut`,
`SkipVisited`, `Exhaust`, `Expand`, `Complete`.  The list after a cutoff is a set of
cut sets of the tree, not necessarily minimal ones: a smaller set may have been cut
where the larger is as likely (an event that is certain), and `CutSetsAreTrue`
asks minimality where nothing was cut.

## What the runs show

| run | states | question |
|---|---|---|
| `fixpoint` | 105 k | a clean fixpoint leaves every sole writer settled (`SettledWhenIdle`), a failure leaves neither counts nor half a solution (`FailuresLeaveNothing`), the probe accuses only models with two writers or a cycle, as long as no fixpoint has failed (`ProbeBlamesOrder`), every call returns (`EveryFixpointReturns`) |
| `scheduler` | 75 k | nothing is overtaken, observers see a state reached and left in one instant, targets stop the clock, the race of lifetimes is implemented, `run` returns |
| `interactive` | 357 k | the schedule and overdue dates under every sequence of five calls; `advance_to` and `set_input` return |
| `watched_index` | 2.7 M | with writes, sweeps, probes, failures and rewinds in any order, no unmarked verdict is stale and the indexed scan stops where the full one would (`IndexIsExact`) |
| `exposure` | 18 k | the tally is exact, for transitions no input interrupts |
| `cosim` | 540 k | two units next to two transitions: grids never drift, held inputs are those of the end of the last point and units of variable step see present inputs (`InputsAreHeld`), every point is over (`PointsComplete`); one exported unit under any six calls, or under a host: checkpoints are taken back whole, in whatever order a hash map is read, or refused with nothing changed when one of the orders builds no engine (`TakenBack`), none is lost or freed too soon (`CheckpointsAreHeld`), no call of the host is out of place (`HostIsNeverRefused`) |
| `operator` | 65 k | durations are exact, held choices are not passed, instants are completed one by one, a failed command leaves nothing, under every sequence of three commands |
| `explore` | 2.4 k | walkers with shared snapshots yield what a recursion yields, the bounds hold the probability and the caps hold (`CutOffsAreSound`), nothing hides an instantaneous transition |
| `splitting` | 29 k | the estimate is unbiased over every draw; no stream serves twice |
| `campaign` | 333 k | replicas are handed over in order and a refusal names the lowest failure (`CampaignIsSequential`), the fold is the campaign and the parts of a result agree (`ResultsAgree`), every campaign ends; a corpus at its path is whole or what was there before (`PathIsWhole`), one that reads without an error gives the reduction of the campaign (`ReadIsTheCampaign`); importance measures are their definitions (`MeasuresAreTheirDefinitions`) |
| `study` | 180 k | the loop search finds the cycles of the graph in any order; a cycle that may be cancelled had no part in the feared event; a sealed mode is never left; the minimal level does not depend on the order of trajectories; a tree holds every way to its top and, unless it warns, nothing else (`TreeIsTheModel`); value, bound, importances and listed cut sets are those of the tree as it was given, whatever the cutoffs (`QuantifiedIsTrue`) |

One further run, `interactive_reset`, checks a sentence of a doc comment that the
code does not meet; see *Disagreements*.

Bounds, and why they are enough:

* `Fixpoint`: every ordered triple of different steps of a menu of eight (readers
  before sources, self triggers, converging and diverging cycles, two writers,
  several effects, programs that fail), with and without the probe, under a cap of
  two runs; and triples of four entries under a cap of one, where readers declared before
  what they read exhaust the work budget.  `MaxFirings = 2` bounds firings and
  resets together: two are needed for a failure to be followed by a fixpoint.
* `Scheduler`: every ordered triple of thirteen transitions, one per law, policy
  and role, from four initial states, with and without targets; horizon 5, so
  that a pause, a resumption and a re-dating fit before it; `WatchedLimit = 2`
  stands for 1000 and `MaxFirings = 3` for 500; `Never` is any date beyond the
  horizon.
* `Interactive`: pairs of seven transitions, five calls: a date is made overdue in
  one call, meets a snapshot, a write and a step in three more.  `MaxCalls` counts
  calls; dates go one beyond the horizon.
* `WatchedIndex`: two guards, two automata, one written and one swept attribute,
  the clock; the graph is finite without a bound.
* `Exposure`: horizon 6, four transitions, no firing budget; `WatchedLimit = 2`.
* `CoSim`: two units with steps from 1 to 3, fixed or variable, that read the
  model, each other or both; pairs of six transitions; horizon 6, the least
  common multiple of the steps, so that points coincide, precede and follow one
  another; `MaxFirings = 5`.
* `Exported`: two inputs, a parameter and an output that latches; an engine that writes
  its own inputs, so that the order in which values are handed over decides what is built
  and whether it is, and that fails at once or on its way; two addresses and two places for checkpoints, two seeds,
  horizon 2, six calls: initialise, save, disturb, fail, reset or restore, go on.
* `Operator`: six triples of transitions, the three modes in which dates are not
  drawn, two initial states, three calls, horizon 3; `Budgets` holds a limit of one
  event and one that never bites.
* `Explore`: thirteen settings over five models, so that each cut-off bites in one:
  probability, failures, length, branches, epsilon; three threads; `Depth = 5` is how far the reference looks, and
  what it does not reach is counted as open; `Scale` is divisible by every share.
* `Splitting`: four studies, with parallel units, a paused clock and a chain of
  several levels; two or three particles, two batches (the least that is accepted);
  `StreamBlock = 5` and `PilotStreamBase = 16` stand for powers of two, small
  enough that the ranks of a batch reach the end of its block.
* `Campaign`: four replicas over five histories, which jump at, before and after
  the three sample instants, twice at one instant, or fail; chunks of one replica,
  of three or of all, from the width of the model (8, 1 or 0 indicators) and
  `ChunkBytes`.
* `Recording`: replicas 1 to 3 share a history, so that any of the five meets any
  other; two of three instants asked twice or beyond the horizon; with and without a
  condition, over an empty path and over an older corpus.  A corpus has five lines.
* `Importance`: five corpora of one to four trajectories over a pump of two modes, a
  second pump and a valve with a second way out, where a failure comes back at the
  feared instant, a cut includes another, an empty cut occurs, and a group meets no cut;
  three selections of basic events, three instants.
* `Study`: twenty-two models walked, one per way in which a failure is, or is not,
  remembered, sealed or looped: flags put back by one repair or by each,
  automata that follow, trip or go on, an external mode and its mirror, tanks on a
  band or a threshold, intermediate states of a target, triggers unplugged
  directly, behind an equation or behind two writers.  `MaxFirings = 6` is a failure, a reaction, the
  repair, the reaction to it, the second cause and the feared event; `MaxTicks = 2`
  lets a tank empty or fill.  The corpora hold two paths of equal length and
  weight which a third includes.  Ten more models are for trees only: votes said in
  three ways, flows, demand, locks, a spare, a latch, stages, wear.  Trees are read
  along histories of six firings and quantified, with thirteen formulas over six events
  that share, nest, negate, absorb, reduce to a constant or hold a certain event,
  under no cutoff and one cutoff of each kind (order, probability, count of one or
  two, six expansions).

`CHECK_DEADLOCK FALSE` is set where the system may stop: a run ends, a caller
stops calling, the exploration reaches its bound on firings or calls.

Fairness: an engine is one thread which, once called, goes on until it returns.
`Fixpoint` therefore has weak fairness on `Progress` (any step while the
fixpoint is going on), `Scheduler` on `Next` (one turn of `run`'s loop), `CoSim`
on `CNext` (the same, points included), `Interactive` on `Advancing` (a call that
has begun).  `Campaign` has it on `Work`: some worker of the pool goes on while a
chunk is not over; no worker is assumed fair.  Nothing obliges a caller to fire,
to call or to reset, and no single transition is assumed fair.

## What is proved

All theorems hold for every set of models, every number of steps, transitions,
guards, locations, units and replicas, and every bound, under the named assumptions
of the modules, which TLC evaluates on the instances: types of the constants; `Fail` and `None` are not values; for
`Fixpoint` and `WatchedIndex`, that an expression reads what its sensitivity set
says; for `Exposure`, that inputs are attributes and not automata; for `CoSim`, that
`react` of a unit is a function into values; for `Exported`, that names are finitely
many and in one role each (the manifest refuses a duplicate), initial values are
values, and so is what the engine makes of values unless it fails; for `Deferred`, that
`None` is no number, book, date or error, and that some branch of a transition has a
positive weight, as the vector of probabilities that compilation puts together sums
to one.  Dates and inputs of
the calls range over every horizon, not only the runs'.

**Fixpoint.**  `SettledTheorem`: `SettledWhenIdle`.  The property speaks of the
end of a fixpoint only, so it is not inductive; the invariant says of any
moment that each effect which is the sole writer of its target is *settled, or
its step is pending, or it is still to be applied by the step that is running*
(`NowOrLater`), the same of the state the probe keeps (`SavedNowOrLater`), and
that a program either is pending again or still sees, in everything it reads, the
state it solved on (`ProgramBase`): its later outputs are computed from that state
and not from the one they land in.  A write disturbs an effect only through
its sensitivity set, whose readers the same write makes pending.
`FailuresTheorem`: `FailuresLeaveNothing`, from two small invariants: a program has
published nothing and the state is the one it solved on, or its whole solution
evaluates there (`WholeSolution`); and the counts are those of the runs of the pass
going on (`OwnRunsOnly`).
`ProbeTheorem`: `ProbeBlamesOrder`.  By the first theorem's invariant each of the two
passes ends in a state where every effect is settled; `ProbeInv` adds that neither
changed what no step writes.  Two such states of an acyclic model are equal
(`OneSolution`): a difference in what a step writes comes from a difference in what it
reads, hence from a step it follows, which has strictly more steps ahead of it
(`AheadShrinks`); strict inclusion of finite sets is well founded, so there is no
first difference.  Nothing is said of how many times a step runs, so
no induction over the pass is needed.

**Scheduler.**  `NothingOverdue`, `ScheduleTheorem`, `TargetTheorem`,
`ObservedTheorem`.  The invariant joins the types, `Timely` (no date is before the
clock, what is left of a countdown is not negative, a hazard is below its threshold
and its date is the one it gave when it was last banked), `Sound` (what
fields of a slot may be set together, by law and policy) and `Fits` (the slot
and the state).  `NothingOverdue` needs the hazards: a re-dated rate is never
before the clock only because its hazard was below its threshold, which rests
on the date it had not yet reached.  The target theorem is a second invariant
on top of the first, and so is `ArmedFirst`, for the observers: an observer is armed no later
than what leaves the state it waits for, so at one date the order of waves, then
of observers, puts it first.

**The race.**  `SchedulerProofs!RaceTheorem`: `Spec /\ []DatesAreExact => ImplementsRace`.
The initial states map to initial states; a firing maps to the firing of the race, with
one lemma per branch of `refresh_transition`; the end of `run` to the halt; and
nothing else moves what is left.  `DatesAreExact` says that the date of a hazard is
the exact instant it reaches its threshold.  In the code dates are reals and this is
up to rounding; in the modules dates are whole, and it holds of the instances whose
thresholds are multiples of the rates (it was model-checked as an invariant of
`Scheduler.cfg`), while with a remainder a hazard loses a fraction of
an instant at each banking, as it would with any clock of finite step.

**Calls.**  `InteractiveInvariant`, from which `InteractiveSchedule`
(`ScheduleMatchesState`) and `OverdueTheorem`.  `IInv` drops `Timely` where a caller
has gone past a date or re-dated a running hazard (`OnTime`), keeps `Sound` and `Fits` everywhere,
and says the same of the snapshot, since `restore` brings back a trajectory that may
have been either.  Times stay below `Never`, the date of a hazard that is not
running: `fire_idx` on such a transition is refused by the guard.

**Dates that are not drawn.**  `OInvariant`, from which `DurationsTheorem`
(`DurationsAreExact`), `HeldTheorem` (`HeldAtItsInstant`), `InstantsTheorem`
(`InstantsAreCompleted`) and `AtomicTheorem` (`CommandsAreAtomic`).  `EngineInv` says three
things of an engine that has not failed: its parts have their types; the books of
each clock, each date of the operator and each slot agree with what was lived, a
history that knows nothing of pauses and bankings (`Fits`); and a choice that is held
is due now (`HeldNow`).  The caller's snapshot, which a rollback and a restoration bring
back, satisfies it too (`OInv`, model-checked as an invariant of `Operator.cfg` before
it was proved).

* `refresh` is where `Fits` could be lost: the state has changed and the books have
  not.  One lemma per decision, for each policy and each mode, takes a slot that fits the state
  before to one that fits the state after; what is lived is written from the state alone.
* Moving the clock keeps `Fits` whatever the distance, and keeps `HeldNow` because no
  call moves it past what is due: the one it stops at is first by date, wave and
  rank, which exists as finite sets of dates have a least one, and what is held, due now, is
  among the first.
* `advance_operator_to` fires in turns, each a firing and its reactions, a recursive
  function on the number of turns: the invariant, the single instant and the reason to
  stop are an induction on it (`NaturalsInduction`).
* A refused command of the operator is rolled back to the snapshot taken when it
  began, and a restoration gives back exactly what was taken: there is no field of
  the engine that a snapshot leaves out and a command touches.

**Tally.**  `TallyTheorem`: `TallyIsExact`.  `Tallied` is exact at every moment and
not only after an accrual: what was accrued and the stretch since make the time
lived.  It needs `Fits`: a transition which stays enabled stays armed, so what `accrue` reads is what
held over the whole stretch.

**Co-simulation.**  `CoSimInvariant`, from which `HeldTheorem` (`InputsAreHeld`) and
`CoSimSchedule` (`ScheduleMatchesState`, and `NoOverdue`).  `CInv` adds to the
scheduler's invariant, per unit: it is between two points of its grid and owes
what it owes beside the grid *now* (`OnGrid`); a unit of variable step has the present
inputs or is due now (`CurrentOrDue`); and once a point is over, nothing is due at
its instant any more and the unit holds the inputs of the moment (`JustSampled`).
The last one is why reactions are run until `NothingWithin(time)` before units are
sampled: a transition left for the same instant would change inputs after the sample and, as the
unit's last point is that very instant, mark nothing.

**Checkpoints.**  `CheckpointsTheorem`: `CheckpointsAreHeld`, for every unit, engine,
number of holders and calls.  `HeldInv` says where each address is (`Kept`: what exists
is what is held, no address at two places) and what the host holds from what it
has left to call (`HostHolds`): nothing before a script and after it, one
checkpoint half way through a save or a restoration, whose last call is its release
whether or not the calls in between succeed.  All other calls leave the
checkpoints alone in each of their outcomes (`CalledSpares`); for an array of
values that is an induction on what was set so far (`SetAllSteps`, `SetAllSpares`).
`TakenBackTheorem`: `TakenBack`.  `Kept` also says that each checkpoint is what was seen
when it was taken.  `restore` builds an engine from the pending values, in the order
of a hash map, and then puts back the engine that was saved: what is taken back is the same in any order, even
of a model that writes the attributes it exports as inputs, of which each order may
build another engine.  In an order that builds none the restoration is refused before
anything of the instance has changed; the theorem leaves no other outcome.

**The host of a unit.**  `HostTheorem`: `HostIsNeverRefused`.  `HostInv` says for each
stage of what is left to call (`HostStage`) what the unit is: fresh before the
values, initialised at 0 before `exit`, and then in step mode, its clock at the
host's point (`Ready`), before a step, a reading or a snapshot; after a failure it may
be anything but terminated and only a snapshot can be taken back.  What the host keeps was ready at
the point it is kept with, so that to take it back makes the unit ready at that point, unless
no engine is built for it, which is a failure of the model's and no call out of place.  Each call keeps the stage (`EarlySet`, `EnterCall`,
`StepSet`, `StepCall`, ...); that an engine which does not fail arrives at
the date it goes to is an induction on time (`AdvancedType`).

Neither supposes anything of what the engine computes: a model may export as an input
an attribute that its own transitions write, which the code refuses nowhere.  The instance of
the run is such a model.

**Streams.**  `StreamsTheorem`: `StreamsAreFresh`, for every number of batches and particles
and every size of block and range, in any interleaving of the batches.  `StreamsInv`
says which streams are out at any moment: of each batch, the ranks below the one it has reached,
but for the places of the first wave it has not launched; each once.  Two ranks of two
batches are two streams because blocks do not overlap (`BlocksApart`), and all of them fit
the final range because a campaign of more blocks is refused (`SettingsOK`).
`PilotsApart` says the same of the streams of pilot iterations, above those.

**Campaign and corpus.**  `CampaignTheorem`, `RecordedCampaignTheorem`: the order of
replicas and the failure blamed, for any interleaving of workers
(`CampaignInv`: no folded replica failed, what was handed over is what comes
before the chunk).  `PathTheorem`: `PathIsWhole`, from `CorpusInv`: what is being written is a prefix
of the whole corpus, and the path is touched by the rename alone, after the last line.

`TypeCorrect` in `FixpointProofs`, `SchedulerProofs` and `WatchedIndexProofs`; in the
others the types are in the invariant.  **WatchedIndex**: `VerdictTheorem` and `ScanTheorem`,
together `IndexTheorem`.  The invariant adds
that `active` is exactly `ArmedIn(state)` and that the probe leaves automata
alone, without which a rewind would desynchronize the arming list.

Some leaves name `Zenon`: the SMT encoding of the prover does not tell two CASE
expressions in one obligation apart, so such a leaf is left to the other prover.

Only model-checked: liveness (`EveryFixpointReturns`, `RunReturns`,
`AdvanceReturns`, `PointsComplete`, `CampaignEnds`: fairness and ENABLED are out
of the prover's reach); of a campaign, what folds and sums over data compute
(`ResultsAgree`, `ReadIsTheCampaign`, `MeasuresAreTheirDefinitions`), which would be
inductions over data; `ResetIsFresh`, which the code violates; all of `Explore` and `Study`; `Unbiased`.  Walks, probabilities,
expressions and searches are RECURSIVE operators there, which the prover
does not take; no module with a theorem reaches one.

## Disagreements between the code and what is said of it

A run shows the first, with `expect: violation`; `PROJECT.json` quotes the lines.

1. `interactive_reset`: `reset` in drawn mode keeps the firing budgets spent
   before it, against its doc (`interactive.rs:765`).

The others were met while modelling.  The properties state what the code does, or
except the case, and say so.

2. `FixpointWorkExceeded` says there is no loop; a loop that drags enough readers
   along exhausts the budget first.
3. The instant of a target is not completed when what is still due is a watched
   transition; `TargetStopsClock` speaks of dates.
4. A loop that takes no time, through an `inst` transition, is reported as a limit
   cycle in which time advances.
5. After a `fire_idx` beyond the horizon or past a communication point, `run` and
   `step` set the clock to the horizon (or to the point, `run.rs:184`): it goes back.
6. A write within the band of the sweep is not announced, and the indexed scan
   differs from the full one; `ScanIsExact` excepts the guards that read it.
7. The tally is wrong after an input changes the schedule between two firings;
   `TallyIsExact` speaks of the transitions no input interrupts.
8. Units sample their inputs at the start before the transitions due at instant 0
   fire (`mod.rs:524`), where the guide on co-simulation has inputs sampled after
   the reactions of an instant; `InputsAreHeld` leaves the first interval out.
   Likewise a sample instant at 0 is recorded before the events of that instant
   (`mod.rs:527`), the only one that is.
9. `run` in a mode that holds choices ends at the horizon with a held choice due
   there unfired; `fire_now` without a branch on a held choice draws from the
   generator, where the comment at `interactive.rs:866` says it never does.
10. `cycle_groups.rs:44` takes a memoryless automaton's state for a function of
    its present inputs.  Two of them that read each other are a latch, which the
    analysis does not see: TLC finds a history in which a cancelled cycle had its
    part.  It finds one too when the guard of a feared event reads both a component and
    a memoryless automaton that follows it: between the repair and the follower's
    switch, in one instant, the feared event may fire.  The models of `study` have
    neither.  A sensitive function that reads what it writes is a third, which the
    module's doc names.
11. `triggers.rs:343` takes an attribute for constant unless an equation or a
    function writes it; those written by allocations, effects of transitions,
    programs or units are folded as constants too, so a mode may be reported as
    sealed that is left.  The models of `study` have a function behind a trigger, which
    the code does see.
12. `fault_tree.rs:1979` says of a follower that its condition is "which the tree says
    exactly".  A follower of a condition that needs an initial state which may be left
    is neither refused nor warned of, and the tree then says more than the model: TLC
    finds it on a spare that is there as long as another is.  The rivals of an observer
    are not warned of either.  `TreeIsExact`, half of `TreeIsTheModel`, sets both apart
    (`Unwarned`).
13. `run_importance` refuses a feared event whose state is never recorded by asking
    whether a *monitored* transition enters it (`raichu-montecarlo/src/lib.rs:1880`), not
    whether that transition records it: a state left out of `monitored_states` passes and
    gives an empty ranking.

14. `run.rs:941` says that a divergence found by the probe "means the model's result depends
    on evaluation order".  On an engine handed back after an error, which a caller
    may go on using (`run.rs:955`), it may not: an edge effect that fails after the automaton moved
    leaves readers of its state stale, with nothing pending; at the next firing one order
    happens to run them again and the other does not.  The proof of `ProbeTheorem`
    failed on this, and TLC found it on three steps without cycle or conflict;
    `ProbeBlamesOrder` speaks of engines on which no fixpoint has failed.

## Not modelled, and why

* Continuous evolution: which crossing is located, and when, is the work of an
  integrator over floats and of a root search to a tolerance.  `Scheduler` has no
  located crossing; the race between dates that a crossing would join is `Race`.
* The convergence of the flow resolution: a damped, extrapolated iteration over
  floats.  What a sweep announces, keeps in its band or rolls back is in
  `WatchedIndex`.
* In `Scheduler`, guards and rates always evaluate, and dates are integers, so that a
  rounding of a date below the clock does not appear.  Errors in the middle of
  `refresh_schedule`, and `set_input` beyond the horizon, are left out.
* Journals, messages, names of ports, witness paths and formatting.
* Floating-point analysis (`raichu-numeric`, confidence intervals, cross-entropy,
  ratios of importance measures), the optimisation solver; of units, the loading of libraries,
  the archives and the widths of numbers.
* Of fault trees: the numbers of laws and repairs, profiles, watched boundaries,
  budgets, gate labels, the probabilities of gates other than the top, the measures
  derived from an importance, OpenPSA and the structure document.
* Translations without state (most of `compile.rs`, validation of declarations, exact
  JSON), the catalogue of components and the language bindings.  These are most of
  the repository's lines: they are sequential functions which a unit test reaches.

## Plan

In this order, for whoever goes on:

1. Error paths of `fire` and `refresh_schedule` in `Scheduler` and `Interactive`: an
   engine handed back with a schedule half refreshed.
2. The order of the explicit sweep (`order_steps`, `order_condensation`) as a
   function on graphs, against a topological reference; the probabilities of the gates
   of a tree (`Quantifier::gates`), detached ones included.
3. Theorems: `TargetStopsClock` under callers and under units; of the walk, that a frame's
   engine is the one of its node (`NothingHidesTheInstantaneous`).
