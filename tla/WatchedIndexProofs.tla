------------------------- MODULE WatchedIndexProofs -------------------------
(***************************************************************************)
(* The indexed scan is exact for every watched table, whatever the         *)
(* functions of its guards and whatever the tolerance.  The inductive      *)
(* invariant adds two facts to the properties: the active list is the set  *)
(* of positions armed by the present state of the automata, and the probe  *)
(* rewinds attributes only.                                                *)
(***************************************************************************)
EXTENDS WatchedIndex, TLAPS

ActiveIsArmed == active = ArmedIn(state)

ProbeKeepsStates == phase = "forward" => \A a \in Aut : probed[a] = state[a]

Inv == TypeOK /\ VerdictsAreCurrent /\ ActiveIsArmed /\ ProbeKeepsStates

(* A guard answers the same on two states that agree on what it reads.      *)
LEMMA GuardReads ==
  ASSUME model \in Models, NEW p \in Pos, NEW s \in State, NEW z \in State,
         \A l \in E(p).reads : s[l] = z[l]
  PROVE  E(p).guard[s] = E(p).guard[z]
BY TablesAssumption DEF ReadsCover, E

(* The fields of an entry of the table.                                     *)
LEMMA EntryFields ==
  ASSUME model \in Models, NEW p \in Pos
  PROVE  /\ E(p).owner \in Aut /\ E(p).reads \subseteq Loc
         /\ \A s \in State : E(p).guard[s] \in BOOLEAN \cup {Fail}
BY TablesAssumption DEF E, Entry

(* Writing a value of its domain to a location gives a state again.         *)
LEMMA WrittenState ==
  ASSUME state \in State, NEW l \in Loc, NEW v \in Domain[l],
         state' = [state EXCEPT ![l] = v]
  PROVE  state' \in State /\ \A k \in Loc \ {l} : state'[k] = state[k]
BY DEF State, Value

(* A write to a location leaves the verdict of a guard that does not read   *)
(* it the verdict of the present state.                                     *)
LEMMA UnreadWrite ==
  ASSUME TypeOK, NEW l \in Loc, NEW v \in Domain[l], NEW p \in Pos,
         state' = [state EXCEPT ![l] = v], UNCHANGED model, p \notin Readers(l)
  PROVE  Holds(p)' = Holds(p)
<1>1. state' \in State /\ \A k \in Loc \ {l} : state'[k] = state[k]
  BY WrittenState DEF TypeOK
<1>2. \A k \in E(p).reads : state'[k] = state[k]
  BY <1>1, EntryFields DEF Readers, TypeOK
<1>3. E(p).guard[state'] = E(p).guard[state]
  BY <1>1, <1>2, GuardReads DEF TypeOK
<1> QED  BY <1>3 DEF Holds, E

LEMMA InitInv == Init => Inv
<1> SUFFICES ASSUME Init PROVE Inv
  OBVIOUS
<1>1. state \in State
  BY TablesAssumption DEF Init
<1>2. TypeOK
  BY <1>1 DEF Init, TypeOK, ArmedIn, Everything
<1>3. VerdictsAreCurrent
  BY DEF Init, VerdictsAreCurrent, Everything
<1> QED  BY <1>2, <1>3 DEF Inv, ActiveIsArmed, ProbeKeepsStates, Init

-----------------------------------------------------------------------------
(* Every action preserves the invariant.                                    *)

LEMMA WriteInv ==
  ASSUME Inv, NEW l \in Loc, NEW v \in Domain[l], Write(l, v)
  PROVE  Inv'
<1> USE DEF Inv
<1>1. state' \in State /\ \A k \in Loc \ {l} : state'[k] = state[k]
  BY WrittenState DEF TypeOK, Write
<1>2. TypeOK'
  BY <1>1 DEF TypeOK, Write, Marked
<1>3. VerdictsAreCurrent'
  <2> SUFFICES ASSUME NEW p \in Pos, ~stale'[p], p \notin unheard, E(p).reads \cap moved = {}
               PROVE  verdict[p] = Holds(p)'
    BY DEF VerdictsAreCurrent, Write, E
  <2>1. p \notin Readers(l) /\ ~stale[p]
    BY DEF Write, Marked
  <2>2. Holds(p)' = Holds(p)
    BY <2>1, UnreadWrite DEF Write
  <2> QED  BY <2>1, <2>2 DEF VerdictsAreCurrent
<1>4. ActiveIsArmed'
  BY <1>1, EntryFields DEF ActiveIsArmed, ArmedIn, Write, TypeOK, E
<1>5. ProbeKeepsStates'
  BY <1>1, IndexAssumption DEF ProbeKeepsStates, Write
<1> QED  BY <1>2, <1>3, <1>4, <1>5

LEMMA AdvanceClockInv ==
  ASSUME Inv, NEW v \in Domain[Clock], AdvanceClock(v)
  PROVE  Inv'
<1> USE DEF Inv
<1>0. Clock \in Loc
  BY IndexAssumption
<1>1. state' \in State /\ \A k \in Loc \ {Clock} : state'[k] = state[k]
  BY <1>0, WrittenState DEF TypeOK, AdvanceClock
<1>2. TypeOK'
  BY <1>1 DEF TypeOK, AdvanceClock, Marked
<1>3. VerdictsAreCurrent'
  <2> SUFFICES ASSUME NEW p \in Pos, ~stale'[p], p \notin unheard, E(p).reads \cap moved = {}
               PROVE  verdict[p] = Holds(p)'
    BY DEF VerdictsAreCurrent, AdvanceClock, E
  <2>1. p \notin Readers(Clock) /\ ~stale[p]
    BY DEF AdvanceClock, Marked
  <2>2. Holds(p)' = Holds(p)
    BY <1>0, <2>1, UnreadWrite DEF AdvanceClock
  <2> QED  BY <2>1, <2>2 DEF VerdictsAreCurrent
<1>4. ActiveIsArmed'
  BY <1>1, EntryFields, IndexAssumption DEF ActiveIsArmed, ArmedIn, AdvanceClock, TypeOK, E
<1>5. ProbeKeepsStates'
  BY DEF ProbeKeepsStates, AdvanceClock
<1> QED  BY <1>2, <1>3, <1>4, <1>5

LEMMA MoveStateInv ==
  ASSUME Inv, NEW a \in Aut, NEW v \in Domain[a], MoveState(a, v)
  PROVE  Inv'
<1> USE DEF Inv
<1>0. a \in Loc
  BY IndexAssumption
<1>1. state' \in State /\ \A k \in Loc \ {a} : state'[k] = state[k]
  BY <1>0, WrittenState DEF TypeOK, MoveState
<1>2. TypeOK'
  BY <1>1 DEF TypeOK, MoveState, NoteState, Marked, Rearmed, ArmedIn
<1>3. VerdictsAreCurrent'
  <2> SUFFICES ASSUME NEW p \in Pos, ~stale'[p], p \notin unheard, E(p).reads \cap moved = {}
               PROVE  verdict[p] = Holds(p)'
    BY DEF VerdictsAreCurrent, MoveState, E
  <2>1. p \notin Readers(a) /\ ~stale[p]
    BY DEF MoveState, NoteState, Marked
  <2>2. Holds(p)' = Holds(p)
    BY <1>0, <2>1, UnreadWrite DEF MoveState
  <2> QED  BY <2>1, <2>2 DEF VerdictsAreCurrent
<1>4. \A p \in Pos : E(p).owner # a => state'[E(p).owner] = state[E(p).owner]
  BY <1>1, EntryFields, IndexAssumption DEF TypeOK
<1>5. Rearmed(state', a) = ArmedIn(state')
  BY <1>4 DEF Rearmed, ArmedIn, ActiveIsArmed
<1>6. ActiveIsArmed'
  BY <1>5 DEF ActiveIsArmed, MoveState, NoteState, ArmedIn, E
<1>7. ProbeKeepsStates'
  BY DEF ProbeKeepsStates, MoveState
<1> QED  BY <1>2, <1>3, <1>6, <1>7

(* The steps of the probe write nothing but what they rewind to.            *)
LEMMA ProbingInv ==
  ASSUME Inv, ProbeStart \/ ProbeEnd
  PROVE  Inv'
<1> USE DEF Inv
<1>1. TypeOK'
  BY IndexAssumption DEF TypeOK, ProbeStart, ProbeEnd
<1>2. VerdictsAreCurrent' /\ ActiveIsArmed'
  BY DEF VerdictsAreCurrent, ActiveIsArmed, ArmedIn, Holds, E, ProbeStart, ProbeEnd
<1>3. ProbeKeepsStates'
  BY DEF ProbeKeepsStates, ProbeStart, ProbeEnd
<1> QED  BY <1>1, <1>2, <1>3

LEMMA ProbeRewindInv ==
  ASSUME Inv, ProbeRewind
  PROVE  Inv'
<1> USE DEF Inv
<1>1. TypeOK'
  BY DEF TypeOK, ProbeRewind, Everything
<1>2. VerdictsAreCurrent'
  BY DEF VerdictsAreCurrent, ProbeRewind, Everything
<1>3. \A a \in Aut : probed[a] = state[a]
  BY DEF ProbeKeepsStates, ProbeRewind
<1>4. ActiveIsArmed'
  BY <1>3, EntryFields DEF ActiveIsArmed, ArmedIn, ProbeRewind, E, TypeOK
<1>5. ProbeKeepsStates'
  BY DEF ProbeKeepsStates, ProbeRewind
<1> QED  BY <1>1, <1>2, <1>4, <1>5

LEMMA SweepWriteInv ==
  ASSUME Inv, NEW l \in Swept, NEW v \in Domain[l], SweepWrite(l, v)
  PROVE  Inv'
<1> USE DEF Inv
<1>0. l \in Loc /\ l \notin Aut
  BY IndexAssumption
<1>1. state' \in State /\ \A k \in Loc \ {l} : state'[k] = state[k]
  BY <1>0, WrittenState DEF TypeOK, SweepWrite
<1>2. TypeOK'
  <2>1. unheard' \subseteq Pos /\ moved' \subseteq Loc
    BY <1>0 DEF TypeOK, SweepWrite, Readers
  <2> QED  BY <1>1, <2>1 DEF TypeOK, SweepWrite
<1>3. VerdictsAreCurrent'
  <2> SUFFICES ASSUME NEW p \in Pos, ~stale[p], p \notin unheard', E(p).reads \cap moved' = {}
               PROVE  verdict[p] = Holds(p)'
    BY DEF VerdictsAreCurrent, SweepWrite, E
  <2>1. p \notin unheard /\ E(p).reads \cap moved = {} /\ p \notin Readers(l)
    BY DEF SweepWrite, Readers
  <2>2. Holds(p)' = Holds(p)
    BY <1>0, <2>1, UnreadWrite DEF SweepWrite
  <2> QED  BY <2>1, <2>2 DEF VerdictsAreCurrent
<1>4. ActiveIsArmed'
  BY <1>0, <1>1, EntryFields, IndexAssumption
     DEF ActiveIsArmed, ArmedIn, SweepWrite, TypeOK, E
<1>5. ProbeKeepsStates'
  BY DEF ProbeKeepsStates, SweepWrite
<1> QED  BY <1>2, <1>3, <1>4, <1>5

LEMMA SweepBoundsInv ==
  ASSUME Inv, SweepStart \/ SweepEnd
  PROVE  Inv'
<1> USE DEF Inv
<1>0. ProbeKeepsStates'
  BY DEF ProbeKeepsStates, SweepStart, SweepEnd
<1>1. CASE SweepStart
  <2>1. TypeOK'
    BY <1>1 DEF TypeOK, SweepStart
  <2>2. VerdictsAreCurrent' /\ ActiveIsArmed'
    BY <1>1 DEF VerdictsAreCurrent, ActiveIsArmed, ArmedIn, Holds, E, SweepStart
  <2> QED  BY <2>1, <2>2, <1>0
<1>2. CASE SweepEnd
  <2>1. TypeOK'
    BY <1>2 DEF TypeOK, SweepEnd, Marked
  <2>2. VerdictsAreCurrent'
    <3> SUFFICES ASSUME NEW p \in Pos, ~stale'[p], p \notin unheard
                 PROVE  verdict[p] = Holds(p)
      BY <1>2 DEF VerdictsAreCurrent, SweepEnd, Holds, E
    <3>1. ~stale[p] /\ \A k \in moved : p \notin Readers(k)
      BY <1>2 DEF SweepEnd, Marked
    <3>2. E(p).reads \cap moved = {}
      BY <3>1 DEF Readers
    <3> QED  BY <3>1, <3>2 DEF VerdictsAreCurrent
  <2>3. ActiveIsArmed'
    BY <1>2 DEF ActiveIsArmed, ArmedIn, E, SweepEnd
  <2> QED  BY <2>1, <2>2, <2>3, <1>0
<1> QED  BY <1>1, <1>2

LEMMA ScanInv ==
  ASSUME Inv, Scan
  PROVE  Inv'
<1> USE DEF Inv
<1>1. \A p \in Evaluated : p \in Pos /\ Holds(p) \in BOOLEAN
  BY EntryFields DEF Evaluated, Walked, Candidates, TypeOK, Holds
<1>2. TypeOK'
  BY <1>1 DEF TypeOK, Scan
<1>3. VerdictsAreCurrent'
  <2> SUFFICES ASSUME NEW p \in Pos, ~stale'[p], p \notin unheard', E(p).reads \cap moved = {}
               PROVE  verdict'[p] = Holds(p)
    BY DEF VerdictsAreCurrent, Scan, Holds, E
  <2>1. CASE p \in Evaluated
    BY <2>1 DEF Scan
  <2>2. CASE p \notin Evaluated
    BY <2>2 DEF Scan, VerdictsAreCurrent
  <2> QED  BY <2>1, <2>2
<1>4. ActiveIsArmed'
  BY DEF ActiveIsArmed, ArmedIn, E, Scan
<1>5. ProbeKeepsStates'
  BY DEF ProbeKeepsStates, Scan
<1> QED  BY <1>2, <1>3, <1>4, <1>5

LEMMA SnapshotInv == ASSUME Inv, Snapshot PROVE Inv'
<1>1. TypeOK'
  BY DEF Inv, TypeOK, Snapshot
<1>2. VerdictsAreCurrent' /\ ActiveIsArmed'
  BY DEF Inv, VerdictsAreCurrent, ActiveIsArmed, ArmedIn, Holds, E, Snapshot
<1>3. ProbeKeepsStates'
  BY DEF Inv, ProbeKeepsStates, Snapshot
<1> QED  BY <1>1, <1>2, <1>3 DEF Inv

LEMMA ReinstateInv ==
  ASSUME Inv, NEW s \in State, Reinstate(s)
  PROVE  Inv'
<1>1. TypeOK'
  BY DEF Inv, TypeOK, Reinstate, Rebuild, ArmedIn, Everything
<1>2. VerdictsAreCurrent'
  BY DEF VerdictsAreCurrent, Reinstate, Rebuild, Everything
<1>3. ActiveIsArmed'
  BY DEF ActiveIsArmed, Reinstate, Rebuild, ArmedIn, E
<1>4. ProbeKeepsStates'
  BY DEF ProbeKeepsStates, Reinstate
<1> QED  BY <1>1, <1>2, <1>3, <1>4 DEF Inv

LEMMA NextInv == Inv /\ [Next]_vars => Inv'
<1> SUFFICES ASSUME Inv, [Next]_vars PROVE Inv'
  OBVIOUS
<1>1. CASE Noting
  BY <1>1, WriteInv, AdvanceClockInv, MoveStateInv DEF Noting
<1>2. CASE Probing
  BY <1>2, ProbingInv, ProbeRewindInv DEF Probing
<1>3. CASE Sweeping
  BY <1>3, SweepWriteInv, SweepBoundsInv DEF Sweeping
<1>4. CASE Scan
  BY <1>4, ScanInv
<1>5. CASE Snapshot
  BY <1>5, SnapshotInv
<1>6. CASE Restore
  BY <1>6, ReinstateInv DEF Restore, Inv, TypeOK
<1>7. CASE Reset
  BY <1>7, ReinstateInv, TablesAssumption DEF Reset, Inv, TypeOK
<1>8. CASE UNCHANGED vars
  <2>1. TypeOK'
    BY <1>8 DEF Inv, TypeOK, vars
  <2>2. VerdictsAreCurrent' /\ ActiveIsArmed'
    BY <1>8 DEF Inv, VerdictsAreCurrent, ActiveIsArmed, ArmedIn, Holds, E, vars
  <2>3. ProbeKeepsStates'
    BY <1>8 DEF Inv, ProbeKeepsStates, vars
  <2> QED  BY <2>1, <2>2, <2>3 DEF Inv
<1> QED  BY <1>1, <1>2, <1>3, <1>4, <1>5, <1>6, <1>7, <1>8 DEF Next

(* The inductive invariant holds in every reachable state of the index.     *)
THEOREM Invariant == Spec => []Inv
<1>1. Init => Inv
  BY InitInv
<1>2. Inv /\ [Next]_vars => Inv'
  BY NextInv
<1> QED  BY <1>1, <1>2, PTL DEF Spec

-----------------------------------------------------------------------------
(* Consulted verdicts are the verdicts of the present state, so both scans  *)
(* stop at the same place.                                                  *)
LEMMA ExactScan == Inv => ScanIsExact
<1> SUFFICES ASSUME Inv, phase = "idle", unheard = {}
             PROVE  Stops(active, Consult) = Stops(ArmedIn(state), Holds)
  BY DEF ScanIsExact
<1>1. moved = {} /\ active = ArmedIn(state)
  BY DEF Inv, TypeOK, ActiveIsArmed
<1>2. \A p \in Pos : Consult(p) = Holds(p)
  BY <1>1 DEF Consult, Inv, VerdictsAreCurrent
<1>3. \A p \in Candidates(active) : p \in Pos
  BY DEF Candidates, Inv, TypeOK
<1> QED  BY <1>1, <1>2, <1>3 DEF Stops

(* Every variable of the index keeps its type; in particular the change log *)
(* is drained however a flow resolution returns.                            *)
THEOREM TypeCorrect == Spec => []TypeOK
BY Invariant, PTL DEF Inv

(* No sequence of writes, firings, probes, failures, restores and resets    *)
(* leaves a cached verdict that the present state contradicts.              *)
THEOREM VerdictTheorem == Spec => []VerdictsAreCurrent
BY Invariant, PTL DEF Inv

(* The narrowed scan finds what a scan of the whole population would find.  *)
THEOREM ScanTheorem == Spec => []ScanIsExact
<1>1. Inv => ScanIsExact
  BY ExactScan
<1> QED  BY <1>1, Invariant, PTL

(* The index is exact: what the run of this module checks, for any number   *)
(* of guards and locations.                                                 *)
THEOREM IndexTheorem == Spec => []IndexIsExact
BY VerdictTheorem, ScanTheorem, PTL DEF IndexIsExact
=============================================================================
