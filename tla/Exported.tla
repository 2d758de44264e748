------------------------------ MODULE Exported ------------------------------
(***************************************************************************)
(* A model exported as a co-simulation unit (crates/raichu-fmu/src), and   *)
(* the engine that imports units (crates/raichu-fmi/src/instance.rs,       *)
(* crates/raichu-core/src/engine/cosim.rs).                                *)
(*                                                                         *)
(* A unit is called through a C interface.  Either any importer calls it,  *)
(* in any order, or the host of another engine does, run after run.  A     *)
(* call has the `Outcomes` of the unit and of the status it returns.       *)
(*                                                                         *)
(* The exported engine is reduced to what the interface sees: the values   *)
(* of the exported attributes, what they become at once (`Reacting`) and   *)
(* in one unit of time (`Passing`).  Value references are names, and an    *)
(* ill-formed call (null pointer, wrong count or type, number not finite,  *)
(* capability not declared) is one that is refused at once.                *)
(***************************************************************************)
EXTENDS Integers, Sequences, FiniteSets, SequencesExt

CONSTANTS
  Void,
  InputNames, ParameterNames, OutputNames,  \* in the manifest
  StartValues,  \* initial values of the model
  Reacting,  \* of values to values, or Void when the engine fails
  Passing,   \* of values and seed to values, or Void
  Seeds,
  Handles,   \* addresses of checkpoints
  Holders,   \* where an importer keeps them
  Batches,   \* arrays of names and values that it sets
  Horizon,
  MaxCalls

Names  == InputNames \cup ParameterNames \cup OutputNames
Values == [Names -> {0, 1}]

ASSUME ExportedAssumption ==
  /\ \A S \in {InputNames, ParameterNames, OutputNames} : IsFiniteSet(S)
  /\ OutputNames \cap (InputNames \cup ParameterNames) = {} /\ InputNames \cap ParameterNames = {}
  /\ StartValues \in Values
  /\ Reacting \in [Values -> Values \cup {Void}]
  /\ Passing \in [Values \X Seeds -> Values \cup {Void}] /\ 0 \in Seeds
  /\ Void \notin Handles \cup {0, 1} /\ Horizon \in Nat \ {0}
  /\ \A pairs \in Batches : pairs \in Seq(Names \X {0, 1})

VARIABLES
  unit,     \* the instance, or Void
  held,     \* the importer's checkpoints
  views,    \* history: what each checkpoint was taken of
  todo,     \* the calls the host has left to make
  host,     \* "free": any importer; else "off", "running" or "failed"
  point,    \* the last point of the host
  inputs,   \* what it would hand over
  bytes,    \* the checkpoint that it keeps and the point of it, or Void
  refused,  \* history: a call of the host was refused, and no engine failed
  calls

xvars == <<unit, held, views, todo, host, point, inputs, bytes, refused, calls>>

-----------------------------------------------------------------------------
(* The exported engine.                                                    *)
Reacted(e) ==
  IF e = Void \/ Reacting[e.values] = Void THEN Void
  ELSE [e EXCEPT !.values = Reacting[@]]

(* `set_input`: nothing happens to what already has this value.             *)
Given(e, n, v) ==
  IF e = Void \/ e.values[n] = v THEN e ELSE Reacted([e EXCEPT !.values[n] = v])

Passed(e) ==
  IF e = Void \/ Passing[<<e.values, e.seed>>] = Void THEN Void
  ELSE [e EXCEPT !.now = @ + 1, !.values = Passing[<<@, e.seed>>]]

AdvancedTo(e, date) ==
  IF e = Void \/ date > e.stop THEN Void
  ELSE LET after[k \in 0..(date - e.now)] == IF k = 0 THEN e ELSE Passed(after[k - 1])
       IN  after[date - e.now]

(* `build_engine`: the pending values are initial values, then inputs, in   *)
(* the order of a hash map; then the engine goes to the start.  A model may *)
(* write what it exports as an input: the order then decides what is built, *)
(* and whether it is.                                                       *)
Initialised(p) == Reacted([now |-> 0, stop |-> p.stop, seed |-> p.seed,
                           values |-> [n \in Names |-> IF n \in DOMAIN p.pending THEN p.pending[n]
                                                       ELSE StartValues[n]]])

Handed(p, order) ==
  LET upTo[k \in 0..Len(order)] ==
        IF k = 0 THEN Initialised(p) ELSE Given(upTo[k - 1], order[k], p.pending[order[k]])
  IN  upTo[Len(order)]

Begun(e, start) == IF start > 0 THEN AdvancedTo(e, start) ELSE e

Builds(p) == {Begun(Handed(p, order), p.start) : order \in SetToSeqs(DOMAIN p.pending)}

-----------------------------------------------------------------------------
(* The instance (`Instance`).                                              *)
Fresh ==
  [engine |-> Void, phase |-> "instantiated", seed |-> 0, start |-> 0, stop |-> Horizon,
   pending |-> [n \in {} |-> 0], states |-> [h \in {} |-> Void]]

Accepts(u) == {[unit |-> u, ok |-> TRUE]}
Refuses(u) == {[unit |-> u, ok |-> FALSE]}
Poisoned(u) == [u EXCEPT !.phase = "error"]

(* `start`.                                                                 *)
Start(u, start, stop) ==
  IF u.phase # "instantiated" \/ stop <= start THEN Refuses(u)
  ELSE UNION {IF e = Void THEN Refuses(u)
              ELSE Accepts([u EXCEPT !.engine = e, !.start = start, !.stop = stop,
                                     !.phase = "initialization"]) :
                e \in Builds([u EXCEPT !.start = start, !.stop = stop])}

(* `rebuild_initialization`.                                                *)
Rebuild(u) ==
  UNION {IF o.ok THEN {o} ELSE Refuses(Poisoned(o.unit)) :
           o \in Start([u EXCEPT !.engine = Void, !.phase = "instantiated"], u.start, u.stop)}

EarlyPhases == {"instantiated", "initialization"}

(* `set_seed_parameter`.                                                    *)
SetSeed(u, seed) ==
  IF u.phase \notin EarlyPhases THEN Refuses(u)
  ELSE IF u.phase = "initialization" THEN Rebuild([u EXCEPT !.seed = seed])
  ELSE Accepts([u EXCEPT !.seed = seed])

Noted(u, n, v) ==
  IF u.phase = "step" THEN u
  ELSE [u EXCEPT !.pending = [m \in DOMAIN @ \cup {n} |-> IF m = n THEN v ELSE @[m]]]

(* `set`.                                                                   *)
Set(u, n, v) ==
  IF \/ u.phase \in {"error", "terminated"} \/ n \in OutputNames
     \/ n \in ParameterNames /\ u.phase \notin EarlyPhases
  THEN Refuses(u)
  ELSE IF n \in ParameterNames /\ u.phase = "initialization" THEN Rebuild(Noted(u, n, v))
  ELSE IF u.engine = Void THEN Accepts(Noted(u, n, v))
  ELSE LET e == Given(u.engine, n, v)
       IN  IF e = Void THEN Refuses(Poisoned(u)) ELSE Accepts(Noted([u EXCEPT !.engine = e], n, v))

(* `array_access`: in order, up to the one that is refused.                 *)
Continued(os, p) == UNION {IF o.ok THEN Set(o.unit, p[1], p[2]) ELSE {o} : o \in os}

SetAll(u, pairs) ==
  LET upTo[k \in 0..Len(pairs)] ==
        IF k = 0 THEN Accepts(u) ELSE Continued(upTo[k - 1], pairs[k])
  IN  upTo[Len(pairs)]

(* `step`.                                                                  *)
DoStep(u, current, size) ==
  IF u.phase # "step" \/ size <= 0 \/ u.engine = Void \/ u.engine.now # current THEN Refuses(u)
  ELSE LET e == AdvancedTo(u.engine, current + size)
       IN  IF e = Void THEN Refuses(Poisoned(u)) ELSE Accepts([u EXCEPT !.engine = e])

(* `snapshot`: a checkpoint is where no other one is.                       *)
Holding(u, h, view) ==
  [u EXCEPT !.states = [x \in DOMAIN @ \cup {h} |-> IF x = h THEN view ELSE @[x]]]

View(u) == [x \in DOMAIN u \ {"states"} |-> u[x]]

Snapshot(u, h) ==
  IF u.phase \notin {"initialization", "step"} \/ u.engine = Void THEN Refuses(u)
  ELSE Accepts(Holding(u, h, View(u)))

(* `free_state`.                                                            *)
Freed(u, h) == [u EXCEPT !.states = [x \in DOMAIN @ \ {h} |-> @[x]]]

GetStateFreeingFirst(u, previous, h) ==
  IF previous # Void /\ previous \notin DOMAIN u.states THEN Refuses(u)
  ELSE Snapshot(Freed(u, previous), h)

(* `fmi3GetFMUState`: takes the place of the checkpoint that was there.     *)
GetState(u, previous, h) ==
  IF previous # Void /\ previous \notin DOMAIN u.states THEN Refuses(u)
  ELSE {IF o.ok /\ previous # Void THEN [o EXCEPT !.unit = Freed(@, previous)] ELSE o :
          o \in Snapshot(u, h)}

RestoredButPending(u, s) ==
  [x \in DOMAIN u |-> IF x \in {"states", "pending"} THEN u[x] ELSE s[x]]

(* `restore`: an engine is built for the checkpoint, then takes its         *)
(* trajectory; one that is not built changes nothing.                       *)
Restored(u, s) == [x \in DOMAIN u |-> IF x = "states" THEN u.states ELSE s[x]]

Restore(u, h) ==
  IF u.phase \notin {"initialization", "step", "error"} \/ h \notin DOMAIN u.states THEN Refuses(u)
  ELSE UNION {IF e = Void THEN Refuses(u) ELSE Accepts(Restored(u, u.states[h])) :
                e \in Builds(u.states[h])}

(* `reset`.                                                                 *)
Reset(u) == [Fresh EXCEPT !.states = u.states]

(* What a caller reads (`get`).                                             *)
Get(u, n) ==
  IF u.phase \in {"error", "terminated"} THEN Void
  ELSE IF u.engine # Void THEN u.engine.values[n]
  ELSE IF n \in DOMAIN u.pending THEN u.pending[n] ELSE StartValues[n]

-----------------------------------------------------------------------------
(* The interface (entry.rs).  A call on an instance that was freed, or with *)
(* a checkpoint that was, is never made.  Units of other makers serialise   *)
(* their checkpoints, or fail to; those of this one refuse to.              *)
Called(u, c) ==
  CASE c.op = "enter"     -> Start(u, c.start, c.stop)
    [] c.op = "exit"      -> IF u.phase = "initialization"
                             THEN Accepts([u EXCEPT !.phase = "step"]) ELSE Refuses(u)
    [] c.op = "set"       -> SetAll(u, c.pairs)
    [] c.op = "get"       -> IF Get(u, c.name) = Void THEN Refuses(u) ELSE Accepts(u)
    [] c.op = "seed"      -> SetSeed(u, c.seed)
    [] c.op = "step"      -> DoStep(u, c.current, c.size)
    [] c.op = "terminate" -> IF u.phase = "step"
                             THEN Accepts([u EXCEPT !.phase = "terminated"]) ELSE Refuses(u)
    [] c.op = "reset"     -> Accepts(Reset(u))
    [] c.op = "save"      -> GetState(u, held[c.holder], c.handle)
    [] c.op = "restore"   -> IF held[c.holder] = Void THEN Refuses(u) ELSE Restore(u, held[c.holder])
    [] c.op = "release"   -> Accepts(IF held[c.holder] = Void THEN u ELSE Freed(u, held[c.holder]))
    [] c.op = "serialize" -> Accepts(u) \cup Refuses(u)
    [] c.op = "deserialize" -> Accepts(Holding(u, c.handle, bytes.view)) \cup Refuses(u)

(* `status`: the code that runs may panic, and leave the engine anyhow.     *)
Damaged(u) ==
  {[Poisoned(u) EXCEPT !.engine = [u.engine EXCEPT !.values = w]] : w \in {StartValues, u.engine.values}}

RunsTheEngine(u, c) == c.op \in {"set", "step"} /\ u.engine # Void

(* What the caller is left with.                                            *)
HeldAfter(c, ok) ==
  CASE ~ok -> held
    [] ok /\ c.op \in {"save", "deserialize"} -> [held EXCEPT ![c.holder] = c.handle]
    [] ok /\ c.op = "release" -> [held EXCEPT ![c.holder] = Void]
    [] OTHER -> held

ViewsAfter(c, ok) ==
  CASE ~ok -> views
    [] ok /\ c.op = "save" -> [views EXCEPT ![c.handle] = View(unit)]
    [] ok /\ c.op = "deserialize" -> [views EXCEPT ![c.handle] = bytes.view]
    [] OTHER -> views

(* An address is not given twice.                                           *)
Possible(c) == c.op \in {"save", "deserialize"} => c.handle \notin DOMAIN unit.states

Answer(c, o) == unit' = o.unit /\ held' = HeldAfter(c, o.ok) /\ views' = ViewsAfter(c, o.ok)

-----------------------------------------------------------------------------
(* Any importer.                                                           *)
Allowed == calls < MaxCalls /\ calls' = calls + 1

FreeCalls ==
  [op : {"enter"}, start : {0, 1}, stop : {1, Horizon}]
    \cup [op : {"exit", "terminate", "reset"}]
    \cup [op : {"set"}, pairs : Batches]
    \cup [op : {"get"}, name : OutputNames]
    \cup [op : {"seed"}, seed : Seeds]
    \cup [op : {"step"}, current : 0..Horizon, size : {0, 1, 2}]
    \cup [op : {"save"}, holder : Holders, handle : Handles]
    \cup [op : {"restore", "release"}, holder : Holders]

Call(c) ==
  /\ host = "free" /\ Allowed /\ Possible(c)
  /\ \E o \in Called(unit, c) : Answer(c, o)
  /\ UNCHANGED <<todo, host, point, inputs, bytes, refused>>

Panic(c) ==
  /\ host = "free" /\ Allowed /\ RunsTheEngine(unit, c)
  /\ unit' \in Damaged(unit)
  /\ UNCHANGED <<held, views, todo, host, point, inputs, bytes, refused>>

-----------------------------------------------------------------------------
(* The host: what it has to call, in order.                                *)
Settings(names, values) ==
  [k \in DOMAIN names |-> [op |-> "set", pairs |-> <<<<names[k], values[names[k]]>>>>]]

Readings == [k \in 1..Cardinality(OutputNames) |-> [op |-> "get", name |-> SetToSeq(OutputNames)[k]]]

(* `initialize`.                                                            *)
Initialize == <<[op |-> "enter", start |-> 0, stop |-> Horizon], [op |-> "exit"]>>

ScriptInitialisedFirst ==
  Initialize \o Settings(SetToSeq(ParameterNames), StartValues) \o Settings(SetToSeq(InputNames), inputs)
    \o Readings

(* `start` and `initial_outputs`, after the reset; parameters are fixed in  *)
(* the model.                                                               *)
Script ==
  Settings(SetToSeq(ParameterNames), StartValues) \o Settings(SetToSeq(InputNames), inputs)
    \o Initialize \o Readings

(* `step_due`.                                                              *)
StepScript(size) ==
  Settings(SetToSeq(InputNames), inputs)
    \o <<[op |-> "step", current |-> point, size |-> size]>> \o Readings

(* `get_state` and `set_state`: the native checkpoint is freed, whether or  *)
(* not the calls in between succeed.                                        *)
SaveScript(holder, h) ==
  <<[op |-> "save", holder |-> holder, handle |-> h], [op |-> "serialize"],
    [op |-> "release", holder |-> holder]>>

RestoreScript(holder, h) ==
  <<[op |-> "deserialize", holder |-> holder, handle |-> h], [op |-> "restore", holder |-> holder],
    [op |-> "release", holder |-> holder]>>

LeftAfterFailure(cs) ==
  IF cs # << >> /\ cs[Len(cs)].op = "release" THEN <<cs[Len(cs)]>> ELSE << >>

Idle == host # "free" /\ todo = << >>

Asks(script) ==
  /\ Idle /\ Allowed
  /\ todo' = script
  /\ UNCHANGED <<held, views, inputs, bytes, refused>>

(* Instantiated for the first run; then reset, whatever its last run left.  *)
HostStart ==
  /\ Asks((IF host = "off" THEN << >> ELSE <<[op |-> "reset"]>>) \o Script)
  /\ host' = "running" /\ point' = 0
  /\ UNCHANGED unit

HostStep(size) ==
  /\ host = "running" /\ point + size <= Horizon
  /\ Asks(StepScript(size))
  /\ UNCHANGED <<unit, host, point>>

HostSave(holder, h) ==
  /\ host = "running"
  /\ Asks(SaveScript(holder, h))
  /\ UNCHANGED <<unit, host, point>>

(* A snapshot may be taken back after an error.                             *)
HostRestore(holder, h) ==
  /\ host \in {"running", "failed"} /\ bytes # Void
  /\ Asks(RestoreScript(holder, h))
  /\ UNCHANGED <<unit, host, point>>

(* The model moves what is bound to an input.                               *)
HostInput(n) ==
  /\ Idle /\ host = "running"
  /\ inputs' = [inputs EXCEPT ![n] = 1 - @]
  /\ UNCHANGED <<unit, held, views, todo, host, point, bytes, refused, calls>>

(* What is refused for a reason that is not the host's: an engine fails, or *)
(* is not built; a snapshot is not taken back by a unit whose               *)
(* initialisation failed.                                                   *)
EngineFails(c, o) ==
  \/ o.unit.phase = "error" \/ c.op \in {"serialize", "deserialize"}
  \/ c.op = "enter" /\ Void \in Builds([unit EXCEPT !.start = c.start, !.stop = c.stop])
  \/ /\ c.op = "restore"
     /\ unit.phase = "instantiated" \/ Void \in Builds(unit.states[held[c.holder]])

(* A refusal ends what was asked, and the run, when it was not a checkpoint *)
(* that was asked for.                                                      *)
HostCall ==
  /\ todo # << >> /\ Possible(Head(todo))
  /\ LET c == Head(todo) IN
     \E o \in Called(unit, c) :
       /\ Answer(c, o)
       /\ todo' = IF o.ok THEN Tail(todo) ELSE LeftAfterFailure(Tail(todo))
       /\ host' = IF ~o.ok /\ c.op # "serialize" THEN "failed"
                  ELSE IF o.ok /\ c.op = "restore" THEN "running" ELSE host
       /\ point' = CASE o.ok /\ c.op = "step" -> c.current + c.size
                      [] o.ok /\ c.op = "restore" -> bytes.point
                      [] OTHER -> point
       /\ bytes' = IF o.ok /\ c.op = "serialize"
                   THEN [view |-> unit.states[held[todo[2].holder]], point |-> point]
                   ELSE bytes
       /\ refused' = (refused \/ (~o.ok /\ ~EngineFails(c, o)))
  /\ UNCHANGED <<inputs, calls>>

HostPanic ==
  /\ todo # << >> /\ RunsTheEngine(unit, Head(todo))
  /\ unit' \in Damaged(unit) /\ todo' = << >> /\ host' = "failed"
  /\ UNCHANGED <<held, views, point, inputs, bytes, refused, calls>>

-----------------------------------------------------------------------------
XInit ==
  /\ unit = Fresh /\ held = [s \in Holders |-> Void] /\ views = [h \in Handles |-> Void]
  /\ host \in {"free", "off"} /\ point = 0
  /\ todo = << >> /\ inputs = [n \in InputNames |-> StartValues[n]] /\ bytes = Void
  /\ refused = FALSE /\ calls = 0

XNext ==
  \/ \E c \in FreeCalls : Call(c) \/ Panic(c)
  \/ HostStart \/ HostCall \/ HostPanic
  \/ \E size \in {1, 2} : HostStep(size)
  \/ \E s \in Holders, h \in Handles : HostSave(s, h) \/ HostRestore(s, h)
  \/ \E n \in InputNames : HostInput(n)

-----------------------------------------------------------------------------
(* A checkpoint that the caller holds is taken back, and whole, whatever it *)
(* did meanwhile: steps, other seeds or parameters, an engine that failed   *)
(* or panicked, a reset and another initialisation (instance.rs:301-343).   *)
(* What is put back includes what a later parameter is rebuilt with.  It is *)
(* the same in whatever order a hash map gives the pending values; only if  *)
(* an engine cannot be built in one of the orders may the restoration be    *)
(* refused, and then nothing of the instance has changed.                   *)
Restoring(h) ==
  \E s \in Holders :
    /\ held[s] = h /\ unit.phase \in {"initialization", "step", "error"}
    /\ \/ Call([op |-> "restore", holder |-> s])
       \/ HostCall /\ Head(todo) = [op |-> "restore", holder |-> s]

TakenBack ==
  [][\A h \in Handles : Restoring(h) =>
       \/ View(unit') = views[h]
       \/ Void \in Builds(views[h]) /\ unit' = unit]_xvars

(* The importer holds the checkpoints that exist, each at one place: none   *)
(* is lost by a call that fails half way, none is freed that it still holds *)
(* (entry.rs:259-307).  Between calls the host holds none.                  *)
CheckpointsAreHeld ==
  /\ DOMAIN unit.states = {held[s] : s \in Holders} \ {Void}
  /\ Idle => \A s \in Holders : held[s] = Void

(* The host of an engine, run after run, after errors, panics and snapshots *)
(* taken back, never makes a call that the unit refuses for being out of    *)
(* place, or at another date than its own (cosim.rs:280-447).               *)
HostIsNeverRefused == ~refused
=============================================================================
