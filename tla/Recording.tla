------------------------------ MODULE Recording ------------------------------
(***************************************************************************)
(* A sequence campaign that keeps its raw corpus: `run_sequences_json` of  *)
(* src/bindings/pyraichu/src/lib.rs, the observations of                   *)
(* src/crates/raichu-montecarlo/src/lib.rs, and the writer and the reader  *)
(* of src/crates/raichu-analysis/src/raw_sequences.rs.                     *)
(*                                                                         *)
(* The campaign hands its trajectories, in replica order, to a sink that   *)
(* writes and reduces them.  The corpus is written beside `raw_path` and   *)
(* moved onto it at the end.  The process may be killed, a write may fail, *)
(* and what is read later may have lost, doubled or moved a line.  A line  *)
(* is a record; the text of numbers is left out.                           *)
(***************************************************************************)
EXTENDS Campaign

CONSTANTS
  SequenceOf,   \* of a history: the sequence that a replica records
  Asked,        \* the instants of the observations, in the order asked
  Conditions,   \* on one observation [column, least], or None
  Older,        \* what an earlier campaign may have left at `raw_path`
  NoFile

VARIABLES
  before,     \* history: what `raw_path` held at the start
  rawPath,    \* what it holds
  partial,    \* what `partial_path` holds
  written,    \* lines counted by the writer
  condition,
  reduced,    \* what the reduction was given
  task,       \* "open", "campaign", "flushed", then how it ended
  copy,       \* the lines left to a reader
  reader      \* how far it is

fileVars  == <<before, rawPath, partial>>
readVars  == <<copy, reader>>
rvars     == <<fileVars, written, condition, reduced, task, readVars>>

-----------------------------------------------------------------------------
(* What a replica hands over (`ObservationPlan`): the engine samples the    *)
(* distinct instants in order, and each observation looks for its own.      *)
ReadAt(k) == Earlier(Asked[k], TMax)
Planned   == SetToSortSeq({ReadAt(k) : k \in DOMAIN Asked}, LAMBDA a, b : a < b)

ASSUME PlanOK == Planned = Samples

Row(h) ==
  LET sampled == Recorded[h].samples
  IN  [k \in DOMAIN Asked |-> sampled[CHOOSE i \in DOMAIN Planned : Planned[i] = ReadAt(k)]]

(* Lines.  The array of automata, and that of kinds, is there when an event *)
(* has one.                                                                 *)
Header == [tag |-> "header", version |-> 2, nbRuns |-> NbRuns, width |-> Len(Asked)]
Torn   == [tag |-> "torn"]
EmptyLine == [tag |-> "blank"]

Column(events, field, absent) ==
  IF \E k \in DOMAIN events : events[k][field] # absent
  THEN [k \in DOMAIN events |-> events[k][field]] ELSE << >>

Line(run, s, row) ==
  [tag |-> "run", run |-> run, cause |-> s.cause,
   events |-> [k \in DOMAIN s.events |-> [obj |-> s.events[k].obj, attr |-> s.events[k].attr]],
   automata |-> Column(s.events, "automaton", ""), kinds |-> Column(s.events, "kind", None),
   observed |-> row]

(* A trajectory line read back.                                             *)
SequenceIn(line) ==
  [cause |-> line.cause,
   events |-> [k \in DOMAIN line.events |->
     [obj |-> line.events[k].obj, attr |-> line.events[k].attr,
      automaton |-> IF line.automata = << >> THEN "" ELSE line.automata[k],
      kind |-> IF line.kinds = << >> THEN None ELSE line.kinds[k]]]]

WellFormed(line, read, header) ==
  /\ line.tag = "run" /\ line.run = read
  /\ line.automata # << >> => Len(line.automata) = Len(line.events)
  /\ line.kinds # << >> => Len(line.kinds) = Len(line.events)
  /\ Len(line.observed) = header.width

(* `ConditionalReduction::push`: replicas are numbered as they come.        *)
Holds(row) == condition = None \/ row[condition.column] >= condition.least

Given(sofar, replica, s, row) ==
  IF Holds(row) THEN Append(sofar, [replica |-> replica, sequence |-> s]) ELSE sofar

-----------------------------------------------------------------------------
(* The campaign and its sink.                                              *)
ROpen(sofar) == task = sofar /\ UNCHANGED <<before, condition, readVars>>

CampaignStops ==
  /\ status' = IF status = "running" THEN "stopped" ELSE status
  /\ UNCHANGED <<history, indicators, serial, first, done, sunk, failed>>

(* What a writer that stops short leaves: what was buffered is lost, the    *)
(* last line torn.                                                          *)
OnDisk(lines) ==
  {SubSeq(lines, 1, n) : n \in 0..Len(lines)}
    \cup {SubSeq(lines, 1, n) \o <<Torn>> : n \in 0..Len(lines) - 1}

(* What fails once the corpus was created removes it; the removal may fail  *)
(* in its turn, which nobody is told.                                       *)
Abandon(left) == task' = "failed" /\ partial' \in {NoFile} \cup left /\ CampaignStops

(* `RawCorpusWriter::new`, over what was beside `raw_path`.                 *)
Create ==
  /\ ROpen("open")
  /\ \/ task' = "campaign" /\ partial' = <<Header>> /\ UNCHANGED mvars
     \/ task' = "refused" /\ UNCHANGED partial /\ CampaignStops
     \/ Abandon(OnDisk(<<Header>>))
  /\ UNCHANGED <<rawPath, written, reduced>>

SinkIsDone == written = Len(sunk)

(* `stream_sequences`: a chunk goes to the sink before the next is run.     *)
RunChunk ==
  /\ ROpen("campaign") /\ SinkIsDone /\ Work
  /\ UNCHANGED <<rawPath, partial, written, reduced, task>>

(* The sink: `RawCorpusWriter::push`, then the reduction.                   *)
Sink ==
  /\ ROpen("campaign") /\ ~SinkIsDone
  /\ LET r     == sunk[written + 1]
         row   == Row(history[r])
         s     == SequenceOf[history[r]]
         lines == Append(partial, Line(written, s, row))
     IN  \/ /\ written < NbRuns /\ Len(row) = Len(Asked)
            /\ partial' = lines
            /\ written' = written + 1
            /\ reduced' = Given(reduced, written, s, row)
            /\ UNCHANGED <<task, mvars>>
         \/ Abandon(OnDisk(lines)) /\ UNCHANGED <<written, reduced>>
  /\ UNCHANGED rawPath

RunFailsMoving ==
  /\ ROpen("campaign") /\ SinkIsDone /\ status = "refused"
  /\ task' = "failed" /\ rawPath' = partial /\ partial' = NoFile
  /\ UNCHANGED <<written, reduced, mvars>>

RunFails ==
  /\ ROpen("campaign") /\ SinkIsDone /\ status = "refused"
  /\ Abandon(OnDisk(partial))
  /\ UNCHANGED <<rawPath, written, reduced>>

(* `RawCorpusWriter::finish`.                                               *)
Flush ==
  /\ ROpen("campaign") /\ SinkIsDone /\ status = "estimated"
  /\ \/ written = NbRuns /\ task' = "flushed" /\ UNCHANGED <<partial, mvars>>
     \/ Abandon(OnDisk(partial))
  /\ UNCHANGED <<rawPath, written, reduced>>

(* The rename.                                                             *)
Move ==
  /\ ROpen("flushed")
  /\ \/ task' = "returned" /\ rawPath' = partial /\ partial' = NoFile /\ UNCHANGED mvars
     \/ Abandon({partial}) /\ UNCHANGED rawPath
  /\ UNCHANGED <<written, reduced>>

(* The process is killed.                                                  *)
Kill ==
  /\ task \in {"campaign", "flushed"}
  /\ task' = "killed"
  /\ partial' \in IF task = "flushed" THEN {partial} ELSE OnDisk(partial)
  /\ CampaignStops
  /\ UNCHANGED <<before, rawPath, written, condition, reduced, readVars>>

-----------------------------------------------------------------------------
(* A reader of what is at either place, whole or with one thing wrong.      *)
Copies(lines) ==
  LET K == DOMAIN lines
  IN  {lines} \cup OnDisk(lines)
        \cup {RemoveAt(lines, k) : k \in K}
        \cup {InsertAt(lines, k, lines[k]) : k \in K}
        \cup {InsertAt(lines, k, EmptyLine) : k \in K}
        \cup {[lines EXCEPT ![k] = lines[j], ![j] = lines[k]] : k, j \in K}
        \cup {lines \o Tail(lines) : k \in K \cap {1}}

Unread == [state |-> "idle", nbRuns |-> 0, width |-> 0, read |-> 0, given |-> << >>]

Reads(from) == reader.state = from /\ UNCHANGED <<fileVars, written, condition, reduced, task, mvars>>

Refuse == reader' = [reader EXCEPT !.state = "refused"] /\ UNCHANGED copy

ReadFile ==
  /\ Reads("idle") /\ task \in {"returned", "failed", "killed"}
  /\ \E lines \in {rawPath, partial} \ {NoFile, before} : copy' \in Copies(lines)
  /\ reader' = [reader EXCEPT !.state = "opened"]

(* `RawCorpusReader::new`.                                                  *)
ReadHeader ==
  /\ Reads("opened")
  /\ IF copy = << >> \/ Head(copy).tag # "header" \/ Head(copy).version > 2 THEN Refuse
     ELSE /\ reader' = [reader EXCEPT !.state = "reading", !.nbRuns = Head(copy).nbRuns,
                                      !.width = Head(copy).width]
          /\ copy' = Tail(copy)

(* `next`, and what the reduction is given.                                 *)
ReadLine ==
  /\ Reads("reading") /\ copy # << >>
  /\ LET line == Head(copy) IN
     CASE line.tag = "blank" -> copy' = Tail(copy) /\ UNCHANGED reader
       [] WellFormed(line, reader.read, reader) ->
            /\ copy' = Tail(copy)
            /\ reader' = [reader EXCEPT !.read = @ + 1,
                            !.given = Given(@, reader.read, SequenceIn(line), line.observed)]
       [] OTHER -> Refuse

ReadEndShort ==
  /\ Reads("reading") /\ copy = << >>
  /\ reader' = [reader EXCEPT !.state = IF reader.read > reader.nbRuns THEN "refused" ELSE "done"]
  /\ UNCHANGED copy

ReadEnd ==
  /\ Reads("reading") /\ copy = << >>
  /\ IF reader.read # reader.nbRuns THEN Refuse
     ELSE reader' = [reader EXCEPT !.state = "done"] /\ UNCHANGED copy

-----------------------------------------------------------------------------
RInit ==
  /\ MInit /\ ~serial /\ indicators = 0
  /\ before \in Older \cup {NoFile} /\ rawPath = before
  /\ partial \in {NoFile, <<Torn>>}
  /\ written = 0 /\ condition \in Conditions /\ reduced = << >>
  /\ task = "open" /\ copy = << >> /\ reader = Unread

RNext == \/ Create \/ RunChunk \/ Sink \/ RunFails \/ Flush \/ Move \/ Kill
         \/ ReadFile \/ ReadHeader \/ ReadLine \/ ReadEnd

RSpec == RInit /\ [][RNext]_<<mvars, rvars>>

-----------------------------------------------------------------------------
(* The whole corpus of the campaign, from what its replicas do.             *)
WholeCorpus ==
  <<Header>> \o [k \in 1..NbRuns |-> Line(k - 1, SequenceOf[history[k - 1]], Row(history[k - 1]))]

(* `raw_path` holds what it held or the whole corpus, whatever fails, the   *)
(* removal of what was begun included, and wherever the process is killed;  *)
(* a call that returns leaves nothing beside it                             *)
(* (src/bindings/pyraichu/src/lib.rs:976-978).                              *)
PathIsWhole ==
  /\ rawPath # before => rawPath = WholeCorpus
  /\ task = "returned" => rawPath = WholeCorpus /\ partial = NoFile

(* A corpus that is read to its end without an error gives the reduction    *)
(* what the campaign would have given it itself, each trajectory under its  *)
(* replica and with its own names, though lines were lost, doubled, moved   *)
(* or torn, or the corpus is one that a killed campaign left                *)
(* (raw_sequences.rs:41, 573).                                              *)
Expected ==
  FoldLeft(LAMBDA sofar, r : Given(sofar, r, SequenceOf[history[r]], Row(history[r])),
           << >>, [k \in 1..NbRuns |-> k - 1])

ReadIsTheCampaign ==
  /\ task = "returned" => reduced = Expected
  /\ reader.state = "done" => reader.given = Expected
=============================================================================
