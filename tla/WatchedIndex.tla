---------------------------- MODULE WatchedIndex ----------------------------
(***************************************************************************)
(* The indexed watched set: crates/raichu-core/src/engine/notes.rs.  The   *)
(* engine asks for the first watched transition whose guard holds before   *)
(* every step.  It keeps the armed positions in a list and the last        *)
(* verdict of each guard in a cache, and every place that writes the state *)
(* marks stale the verdicts that depend on what it wrote.                  *)
(*                                                                         *)
(* The state is one function on locations: attributes, automata and the    *)
(* clock.  A step below is one write, one mark or one scan; the scan runs  *)
(* between the writes of two boundaries, never inside a fixpoint or a flow *)
(* resolution.                                                             *)
(***************************************************************************)
EXTENDS Integers

CONSTANTS
  Loc,        \* attributes, automata and the clock
  Aut,        \* the locations that are automata
  Clock,      \* the location that is the simulation time
  Swept,      \* attributes written by the explicit sweep
  Domain,     \* the values of each location, a function on locations
  NWatched,   \* watched transitions, in the compiled order
  ModelOf,    \* the watched tables considered, a function from names to them
  Band,       \* FlowConfig::tolerance
  None,       \* the absent value of an option
  Fail        \* "this guard does not evaluate", not a verdict

Value == UNION {Domain[l] : l \in Loc}
State == {s \in [Loc -> Value] : \A l \in Loc : s[l] \in Domain[l]}
Pos   == 1..NWatched

(* A watched transition of the table.  `reads` is the dependency set its    *)
(* guard is indexed by, `scanned` is off for a located observer, which the  *)
(* schedule arms, and for a transition without a guard.                     *)
Entry == [owner : Aut, source : Value, scanned : BOOLEAN,
          reads : SUBSET Loc, guard : [State -> BOOLEAN \cup {Fail}]]

Models == DOMAIN ModelOf

ReadsCover(e) ==
  \A s, z \in State : (\A l \in e.reads : s[l] = z[l]) => e.guard[s] = e.guard[z]

ASSUME IndexAssumption ==
  /\ \A l \in Loc : Domain[l] \subseteq Int
  /\ NWatched \in Nat /\ Band \in Nat
  /\ Aut \subseteq Loc /\ Clock \in Loc \ Aut /\ Swept \subseteq Loc \ (Aut \cup {Clock})
  /\ Fail \notin BOOLEAN /\ None \notin State

ASSUME TablesAssumption ==
  \A m \in Models : /\ ModelOf[m].table \in [Pos -> Entry]
                    /\ ModelOf[m].init \in State
                    /\ \A p \in Pos : ReadsCover(ModelOf[m].table[p])

VARIABLES
  model,    \* the compiled model, immutable
  state,    \* Engine::{vars, states, time}
  active,   \* Engine::watched_active, ascending, hence a set
  verdict,  \* Engine::watched_guard
  stale,    \* Engine::watched_stale
  moved,    \* Engine::changed: what the sweep in progress has announced
  phase,    \* "idle", "forward" and "reverse" (the probe), "sweep"
  probed,   \* the state the confluence probe started from, None outside it
  saved,    \* the state of a snapshot, None before the first
  unheard   \* history: entries whose guard reads a write within the band

vars == <<model, state, active, verdict, stale, moved, phase, probed, saved, unheard>>

-----------------------------------------------------------------------------
E(p) == ModelOf[model].table[p]

ArmedIn(s) == {p \in Pos : s[E(p).owner] = E(p).source}

Readers(l) == {p \in Pos : l \in E(p).reads}

(* Marks set by `note_var_change`, `note_time_change`, `note_state_change`. *)
Marked(P) == [p \in Pos |-> p \in P \/ stale[p]]

Everything == [p \in Pos |-> TRUE]

(* `rebuild_watched_index` on the state `s`, given wholesale.               *)
RebuildKeeping(s) == active' = ArmedIn(s) /\ UNCHANGED <<stale, unheard>>

Rebuild(s) == active' = ArmedIn(s) /\ stale' = Everything /\ unheard' = {}

(* A function, a program, an edge effect, an input, an imported unit or the *)
(* integrator writes an attribute, if the value differs exactly.            *)
Write(l, v) ==
  /\ phase # "sweep"
  /\ l \notin Aut \cup {Clock} /\ state[l] # v
  /\ state' = [state EXCEPT ![l] = v]
  /\ stale' = Marked(Readers(l))
  /\ UNCHANGED <<model, active, verdict, moved, phase, probed, saved, unheard>>

AdvanceClock(v) ==
  /\ phase = "idle"
  /\ state[Clock] < v
  /\ state' = [state EXCEPT ![Clock] = v]
  /\ stale' = Marked(Readers(Clock))
  /\ UNCHANGED <<model, active, verdict, moved, phase, probed, saved, unheard>>

(* `note_state_change`: the guards that read the automaton, and the arming  *)
(* of the transitions it owns.                                              *)
RearmedReaders(s, a) == (active \ Readers(a)) \cup (ArmedIn(s) \cap Readers(a))

Rearmed(s, a) ==
  (active \ {p \in Pos : E(p).owner = a}) \cup {p \in ArmedIn(s) : E(p).owner = a}

NoteState(s, a) ==
  /\ active' = Rearmed(s, a)
  /\ stale' = Marked(Readers(a))

MoveState(a, v) ==
  /\ phase = "idle"
  /\ state' = [state EXCEPT ![a] = v]
  /\ NoteState(state', a)
  /\ UNCHANGED <<model, verdict, moved, phase, probed, saved, unheard>>

-----------------------------------------------------------------------------
(* The confluence probe                                                    *)

ProbeStart ==
  /\ phase = "idle"
  /\ phase' = "forward" /\ probed' = state
  /\ UNCHANGED <<model, state, active, verdict, stale, moved, saved, unheard>>

(* The attributes go back to where they stood, and every verdict with them. *)
ProbeRewind ==
  /\ phase = "forward"
  /\ phase' = "reverse" /\ state' = probed
  /\ stale' = Everything
  /\ UNCHANGED <<model, active, verdict, moved, probed, saved, unheard>>

(* Either pass may fail, and the caller goes on; two passes that agree      *)
(* leave the attributes as they are.                                        *)
ProbeEnd ==
  /\ phase \in {"forward", "reverse"}
  /\ phase' = "idle" /\ probed' = None
  /\ UNCHANGED <<model, state, active, verdict, stale, moved, saved, unheard>>

-----------------------------------------------------------------------------
(* The explicit sweep and its change log                                   *)

SweepStart ==
  /\ phase = "idle"
  /\ phase' = "sweep"
  /\ UNCHANGED <<model, state, active, verdict, stale, moved, probed, saved, unheard>>

WithinBand(a, b) == a - b <= Band /\ b - a <= Band

(* `ChangeLog::write`.                                                      *)
SweepWrite(l, v) ==
  /\ phase = "sweep"
  /\ state[l] # v
  /\ state' = [state EXCEPT ![l] = v]
  /\ IF WithinBand(state[l], v)
     THEN unheard' = unheard \cup Readers(l) /\ UNCHANGED moved
     ELSE moved' = moved \cup {l} /\ UNCHANGED unheard
  /\ UNCHANGED <<model, active, verdict, stale, phase, probed, saved>>

(* `resolve_flows`: drained however the resolution ends.                    *)
SweepEnd ==
  /\ phase = "sweep"
  /\ phase' = "idle"
  /\ stale' = Marked(UNION {Readers(l) : l \in moved})
  /\ moved' = {}
  /\ UNCHANGED <<model, state, active, verdict, probed, saved, unheard>>

-----------------------------------------------------------------------------
(* `immediate_watched`                                                     *)

Holds(p)   == E(p).guard[state]
Consult(p) == IF stale[p] THEN Holds(p) ELSE verdict[p]

Candidates(armed) == {p \in armed : E(p).scanned}

(* The positions at which a scan in ascending order stops: on a guard that  *)
(* holds, or on one that fails.                                             *)
Stops(armed, Answer(_)) ==
  {p \in Candidates(armed) :
     /\ Answer(p) # FALSE
     /\ \A q \in Candidates(armed) : q < p => Answer(q) = FALSE}

Walked ==
  {p \in Candidates(active) : \A q \in Candidates(active) : q < p => Consult(q) = FALSE}

Evaluated == {p \in Walked : stale[p] /\ Holds(p) # Fail}

(* Only the guards met before the scan stops are evaluated.                 *)
Scan ==
  /\ phase = "idle"
  /\ stale'   = [p \in Pos |-> stale[p] /\ p \notin Evaluated]
  /\ verdict' = [p \in Pos |-> IF p \in Evaluated THEN Holds(p) ELSE verdict[p]]
  /\ unheard' = unheard \ Evaluated
  /\ UNCHANGED <<model, state, active, moved, phase, probed, saved>>

-----------------------------------------------------------------------------
Snapshot ==
  /\ phase = "idle"
  /\ saved' = state
  /\ UNCHANGED <<model, state, active, verdict, stale, moved, phase, probed, unheard>>

(* `restore` from a snapshot, and `reset` to the declared initial state.    *)
Reinstate(s) ==
  /\ phase = "idle"
  /\ state' = s
  /\ Rebuild(s)
  /\ UNCHANGED <<model, verdict, moved, phase, probed, saved>>

Restore == saved # None /\ Reinstate(saved)
Reset   == Reinstate(ModelOf[model].init)

Init ==
  /\ model \in Models
  /\ state = ModelOf[model].init
  /\ active = ArmedIn(state)
  /\ verdict = [p \in Pos |-> FALSE]
  /\ stale = Everything
  /\ moved = {} /\ phase = "idle" /\ probed = None /\ saved = None /\ unheard = {}

Noting ==
  \/ \E l \in Loc : \E v \in Domain[l] : Write(l, v)
  \/ \E v \in Domain[Clock] : AdvanceClock(v)
  \/ \E a \in Aut : \E v \in Domain[a] : MoveState(a, v)

Probing  == ProbeStart \/ ProbeRewind \/ ProbeEnd
Sweeping == SweepStart \/ SweepEnd \/ \E l \in Swept : \E v \in Domain[l] : SweepWrite(l, v)

Next == Noting \/ Probing \/ Sweeping \/ Scan \/ Snapshot \/ Restore \/ Reset

Spec == Init /\ [][Next]_vars

-----------------------------------------------------------------------------
(* Properties                                                              *)

(* Every variable keeps its type, and the change log is empty between two   *)
(* resolutions, whichever way the last one returned.                        *)
TypeOK ==
  /\ model \in Models /\ state \in State
  /\ active \subseteq Pos
  /\ verdict \in [Pos -> BOOLEAN] /\ stale \in [Pos -> BOOLEAN]
  /\ moved \subseteq Loc /\ unheard \subseteq Pos
  /\ phase \in {"idle", "forward", "reverse", "sweep"}
  /\ (phase # "sweep" => moved = {})
  /\ saved \in State \cup {None} /\ probed \in State \cup {None}
  /\ (phase = "forward" => probed # None)

(* A verdict that is not stale is the verdict of the present state, for     *)
(* disarmed transitions too, whatever was written, probed, rewound, failed  *)
(* or restored since it was taken.  What the sweep moved within its band,   *)
(* or has not announced yet, is excepted.                                   *)
VerdictsAreCurrent ==
  \A p \in Pos :
    (~stale[p] /\ p \notin unheard /\ E(p).reads \cap moved = {}) => verdict[p] = Holds(p)

(* "Narrowing a scan changes nothing an observer can see": the indexed scan *)
(* stops where a scan of every watched transition on the present state      *)
(* would, as long as no guard it may consult reads a write within the band. *)
ScanIsExact ==
  phase = "idle" /\ unheard = {} =>
    Stops(active, Consult) = Stops(ArmedIn(state), Holds)

(* Narrowing and caching change nothing: no cached verdict is out of date   *)
(* and no transition is missed (`watched_scan`, notes.rs:187-232).          *)
IndexIsExact == VerdictsAreCurrent /\ ScanIsExact
=============================================================================
