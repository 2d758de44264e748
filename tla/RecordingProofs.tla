--------------------------- MODULE RecordingProofs ---------------------------
(***************************************************************************)
(* Proofs about a campaign (module Campaign) and the corpus it keeps       *)
(* (module Recording), for any number of replicas, any histories, any      *)
(* size of chunk and wherever the process is killed.                       *)
(***************************************************************************)
EXTENDS Recording, SequenceTheorems, WellFoundedInduction, TLAPS

-----------------------------------------------------------------------------
(* Chunks.                                                                 *)

(* A chunk has a replica at least (`clamp(1, MAX_CHUNK)`).                  *)
LEMMA ChunkLenPositive ==
  ASSUME indicators \in Widths
  PROVE  ChunkLen \in Nat \ {0}
<1> USE CampaignOK
<1>0. /\ MaxChunk \in Nat \ {0} /\ SampleBytes \in Nat \ {0} /\ ChunkBytes \in Nat
      /\ indicators \in Nat
  OBVIOUS
<1>1. CASE indicators = 0 \/ Samples = <<>>
  BY <1>0, <1>1 DEF ChunkLen
<1>2. CASE ~(indicators = 0 \/ Samples = <<>>)
  <2> DEFINE bytes == indicators * Len(Samples) * SampleBytes
             fits  == ChunkBytes \div bytes
  <2>1. Len(Samples) \in Nat \ {0}
    BY <1>2
  <2>2. \A a, b \in Nat \ {0} : a * b \in Nat \ {0}
    OBVIOUS
  <2>3. indicators * Len(Samples) \in Nat \ {0}
    BY <1>0, <1>2, <2>1, <2>2
  <2>4. bytes \in Nat \ {0}
    BY <1>0, <2>2, <2>3
  <2>5. fits \in Int
    <3> HIDE DEF bytes
    <3> QED BY <1>0, <2>4
  <2>6. ChunkLen = Earlier(Later(fits, 1), MaxChunk)
    BY <1>2 DEF ChunkLen
  <2> HIDE DEF fits
  <2>7. QED
    BY <1>0, <2>5, <2>6 DEF Earlier, Later
<1>3. QED
  BY <1>1, <1>2

(* Some failure of a set of replicas has the lowest number.                 *)
LEMMA LowestExists ==
  ASSUME NEW S \in SUBSET Nat, S # {}
  PROVE  \E r \in S : \A q \in S : r <= q
<1>1. PICK r \in S : \A q \in S : ~(<<q, r>> \in OpToRel(<, Nat))
  BY NatLessThanWellFounded, WFMin
<1>2. \A q \in S : ~(q < r)
  BY <1>1 DEF OpToRel
<1>3. QED
  BY <1>2

LEMMA BlamedIsLowest ==
  ASSUME NEW S \in SUBSET Nat, Failing(S) # {}
  PROVE  Blamed(S) \in Failing(S) /\ \A q \in Failing(S) : Blamed(S) <= q
<1>1. Failing(S) \in SUBSET Nat
  BY DEF Failing
<1>2. \E r \in Failing(S) : \A q \in Failing(S) : r <= q
  BY <1>1, LowestExists
<1>3. QED
  BY <1>2 DEF Blamed

-----------------------------------------------------------------------------
(* The campaign.  `LowestFailure` alone is not kept: that no folded replica *)
(* failed, and that what was handed over is what comes before the chunk,    *)
(* has to be carried while the campaign runs.                               *)

FoldedPassed == Failing(0..(first - 1)) = {}

CampaignInv ==
  /\ first \in 0..NbRuns /\ indicators \in Widths
  /\ FoldedPassed /\ CampaignIsSequential

LEMMA CampaignInvInit == MInit => CampaignInv
<1> SUFFICES ASSUME MInit PROVE CampaignInv
  OBVIOUS
<1>1. first \in 0..NbRuns /\ indicators \in Widths
  BY CampaignOK DEF MInit
<1>2. FoldedPassed
  BY DEF MInit, FoldedPassed, Failing
<1>3. InTheirOrder
  BY DEF MInit, InTheirOrder
<1>4. LowestFailure
  BY DEF MInit, LowestFailure
<1> QED
  BY <1>1, <1>2, <1>3, <1>4 DEF CampaignInv, CampaignIsSequential

(* The end of the chunk is beyond its first replica, and no further than    *)
(* the campaign.                                                            *)
LEMMA ChunkAdvances ==
  ASSUME CampaignInv
  PROVE  /\ ChunkEnd \in first..NbRuns
         /\ Chunk \in SUBSET Nat
BY ChunkLenPositive, CampaignOK DEF CampaignInv, ChunkEnd, Chunk, Earlier

(* What a chunk hands over continues what was handed over.                  *)
LEMMA InOrderContinues ==
  ASSUME NEW a \in Nat, NEW b \in Nat, a <= b
  PROVE  [k \in 1..a |-> k - 1] \o [k \in 1..(b - a) |-> a + k - 1] = [k \in 1..b |-> k - 1]
<1> DEFINE s == [k \in 1..a |-> k - 1]
           u == [k \in 1..(b - a) |-> a + k - 1]
<1>1. s \in Seq(Nat) /\ Len(s) = a
  OBVIOUS
<1>2. u \in Seq(Nat) /\ Len(u) = b - a
  OBVIOUS
<1> HIDE DEF s, u
<1>3. s \o u \in Seq(Nat) /\ Len(s \o u) = b
  BY <1>1, <1>2
<1>4. \A k \in 1..b : (s \o u)[k] = k - 1
  BY <1>1, <1>2 DEF s, u
<1>5. s \o u = [k \in 1..b |-> k - 1]
  <2> DEFINE v == [k \in 1..b |-> k - 1]
             w == s \o u
  <2>1. v \in Seq(Int) /\ Len(v) = b /\ \A k \in 1..b : v[k] = k - 1
    OBVIOUS
  <2>2. w \in Seq(Int) /\ Len(w) = b /\ \A k \in 1..b : w[k] = k - 1
    BY <1>3, <1>4
  <2> HIDE DEF v, w
  <2>3. w = v
    BY <2>1, <2>2, SeqEqual
  <2> QED
    BY <2>3 DEF v, w
<1> QED
  BY <1>5 DEF s, u

LEMMA EndChunkKeeps ==
  ASSUME CampaignInv, EndChunk
  PROVE  CampaignInv'
<1> USE DEF CampaignInv, CampaignIsSequential
<1>1. ChunkEnd \in first..NbRuns /\ first' = ChunkEnd /\ sunk' = sunk \o InOrder
  BY ChunkAdvances DEF EndChunk
<1>2. history' = history /\ indicators' = indicators /\ status' = "running" /\ Failing(Chunk) = {}
  BY DEF EndChunk
<1>3. first' \in 0..NbRuns
  BY <1>1, CampaignOK
<1>4. FoldedPassed'
  BY <1>1, <1>2, CampaignOK DEF FoldedPassed, Failing, Chunk
<1>5. InTheirOrder'
  BY <1>1, InOrderContinues, CampaignOK DEF InTheirOrder, InOrder
<1>6. LowestFailure'
  BY <1>2 DEF LowestFailure
<1> QED
  BY <1>2, <1>3, <1>4, <1>5, <1>6

LEMMA EndChunkFailedKeeps ==
  ASSUME CampaignInv, EndChunkFailed
  PROVE  CampaignInv'
<1> USE DEF CampaignInv, CampaignIsSequential
<1>1. /\ first' = first /\ sunk' = sunk /\ history' = history /\ done' = done
      /\ indicators' = indicators /\ status' = "refused"
  BY DEF EndChunkFailed
<1>2. /\ failed' \in Failing(Chunk) /\ \A q \in Failing(Chunk) : failed' <= q
      /\ done = Chunk
  BY ChunkAdvances, BlamedIsLowest DEF EndChunkFailed
<1>3. failed' \in Chunk /\ history[failed'].fails
  BY <1>2 DEF Failing
<1>4. ChunkEnd \in first..NbRuns
  BY ChunkAdvances
<1>5. ASSUME NEW r \in Failing(Replica) PROVE failed' <= r
  <2>1. r \in Replica /\ history[r].fails
    BY DEF Failing
  <2>2. ~(r < first)
    BY <2>1, CampaignOK DEF FoldedPassed, Failing, Replica
  <2>3. CASE r \in Chunk
    BY <1>2, <2>1, <2>3 DEF Failing
  <2>4. CASE r >= ChunkEnd
    BY <1>3, <1>4, <2>1, <2>4, CampaignOK DEF Chunk, Replica
  <2> QED
    BY <1>4, <2>1, <2>2, <2>3, <2>4, CampaignOK DEF Chunk, Replica
<1>6. 0..(failed' - 1) \subseteq (0..(first - 1)) \cup done
  <2>1. first \in Nat /\ ChunkEnd \in Int /\ NbRuns \in Nat /\ failed' \in first..(ChunkEnd - 1)
    BY <1>3, <1>4, CampaignOK DEF Chunk
  <2>2. \A n \in first..(ChunkEnd - 1) :
            \A q \in 0..(n - 1) : q \in 0..(first - 1) \/ q \in first..(ChunkEnd - 1)
    BY <2>1
  <2> QED
    BY <1>2, <2>1, <2>2 DEF Chunk
<1>7. FoldedPassed'
  BY <1>1 DEF FoldedPassed, Failing
<1>8. LowestFailure'
  <2>1. Failing(Replica)' = Failing(Replica) /\ Failing(0..(first - 1))' = {}
    BY <1>1 DEF Failing, FoldedPassed, Replica
  <2> QED
    BY <1>1, <1>5, <1>6, <2>1 DEF LowestFailure
<1> QED
  BY <1>1, <1>7, <1>8 DEF InTheirOrder

LEMMA SimulateSerialKeeps ==
  ASSUME CampaignInv, SimulateSerial
  PROVE  CampaignInv'
<1> USE DEF CampaignInv, CampaignIsSequential
<1>0. first \in Nat /\ first < NbRuns /\ history' = history /\ indicators' = indicators /\ done' = done
  BY CampaignOK DEF SimulateSerial
<1>1. CASE history[first].fails
  <2>1. status' = "refused" /\ failed' = first /\ first' = first /\ sunk' = sunk
    BY <1>1 DEF SimulateSerial
  <2>2. \A r \in Failing(Replica) : first <= r
    BY <1>0, CampaignOK DEF FoldedPassed, Failing, Replica
  <2>3. LowestFailure'
    BY <1>0, <2>1, <2>2, CampaignOK DEF LowestFailure, FoldedPassed, Failing, Replica
  <2>4. FoldedPassed'
    BY <1>0, <2>1 DEF FoldedPassed, Failing
  <2> QED
    BY <1>0, <2>1, <2>3, <2>4 DEF InTheirOrder
<1>2. CASE ~history[first].fails
  <2>1. sunk' = Append(sunk, first) /\ first' = first + 1 /\ status' = "running"
    BY <1>2 DEF SimulateSerial
  <2>2. FoldedPassed'
    BY <1>0, <1>2, <2>1 DEF FoldedPassed, Failing
  <2>3. InTheirOrder'
    BY <1>0, <2>1 DEF InTheirOrder
  <2>4. LowestFailure'
    BY <2>1 DEF LowestFailure
  <2> QED
    BY <1>0, <2>1, <2>2, <2>3, <2>4, CampaignOK
<1> QED
  BY <1>1, <1>2

LEMMA CampaignInvStep == CampaignInv /\ [MNext]_mvars => CampaignInv'
<1> SUFFICES ASSUME CampaignInv, [MNext]_mvars PROVE CampaignInv'
  OBVIOUS
<1> USE DEF CampaignInv, CampaignIsSequential
<1>1. ASSUME NEW r \in Replica, Simulate(r) PROVE CampaignInv'
  BY <1>1 DEF Simulate, FoldedPassed, InTheirOrder, LowestFailure, Failing
<1>2. CASE Finish
  <2>1. Failing(Replica) = {}
    BY <1>2, CampaignOK DEF Finish, FoldedPassed, Replica
  <2> QED
    BY <1>2, <2>1 DEF Finish, FoldedPassed, InTheirOrder, LowestFailure, Failing, Replica
<1>3. CASE UNCHANGED mvars
  BY <1>3 DEF mvars, FoldedPassed, InTheirOrder, LowestFailure, Failing, Replica
<1>4. CASE Ended
  BY <1>3, <1>4 DEF Ended
<1> QED
  BY <1>1, <1>2, <1>3, <1>4, EndChunkKeeps, EndChunkFailedKeeps, SimulateSerialKeeps
     DEF MNext, Work

(* What is handed over, or refused, is what one thread would hand over or   *)
(* refuse, for any number of replicas and any size of chunk                 *)
(* (`stream_replicas`, `simulate_chunk`).                                   *)
THEOREM CampaignTheorem == MSpec => []CampaignIsSequential
<1>1. CampaignInv => CampaignIsSequential
  BY DEF CampaignInv
<1>2. QED
  BY <1>1, CampaignInvInit, CampaignInvStep, PTL DEF MSpec

-----------------------------------------------------------------------------
(* Lines.                                                                  *)

Lines(h, g, n) == <<h>> \o [k \in 1..n |-> g[k - 1]]
LineOf(h, g)   == {h} \cup {g[i] : i \in Nat}

LEMMA LinesAre ==
  ASSUME NEW h, NEW g, NEW n \in Nat
  PROVE  /\ Lines(h, g, n) \in Seq(LineOf(h, g)) /\ Len(Lines(h, g, n)) = n + 1
         /\ Lines(h, g, n)[1] = h
         /\ \A k \in 2..(n + 1) : Lines(h, g, n)[k] = g[k - 2]
<1> DEFINE S == LineOf(h, g)
           u == [k \in 1..n |-> g[k - 1]]
<1>1. u \in Seq(S) /\ Len(u) = n /\ \A k \in 1..n : u[k] = g[k - 1]
  BY DEF LineOf
<1>2. <<h>> \in Seq(S) /\ Len(<<h>>) = 1 /\ <<h>>[1] = h
  BY DEF LineOf
<1> HIDE DEF S, u
<1>3. /\ <<h>> \o u \in Seq(S) /\ Len(<<h>> \o u) = n + 1
      /\ (<<h>> \o u)[1] = h
      /\ \A k \in 2..(n + 1) : (<<h>> \o u)[k] = u[k - 1]
  BY <1>1, <1>2, ConcatProperties
<1>4. \A k \in 2..(n + 1) : u[k - 1] = g[k - 2]
  BY <1>1
<1> QED
  BY <1>3, <1>4 DEF S, u, Lines

LEMMA LinesAppend ==
  ASSUME NEW h, NEW g, NEW n \in Nat
  PROVE  Append(Lines(h, g, n), g[n]) = Lines(h, g, n + 1)
<1> DEFINE S == LineOf(h, g)
           s == Lines(h, g, n)
           u == Lines(h, g, n + 1)
<1>1. /\ s \in Seq(S) /\ Len(s) = n + 1 /\ s[1] = h
      /\ \A k \in 2..(n + 1) : s[k] = g[k - 2]
  BY LinesAre
<1>2. /\ u \in Seq(S) /\ Len(u) = n + 2 /\ u[1] = h
      /\ \A k \in 2..(n + 2) : u[k] = g[k - 2]
  <2>1. n + 1 \in Nat /\ n + 1 + 1 = n + 2
    OBVIOUS
  <2> QED
    BY <2>1, LinesAre
<1>3. g[n] \in S
  BY DEF LineOf
<1> HIDE DEF S, s, u
<1>4. /\ Append(s, g[n]) \in Seq(S) /\ Len(Append(s, g[n])) = n + 2
      /\ \A k \in 1..(n + 1) : Append(s, g[n])[k] = s[k]
      /\ Append(s, g[n])[n + 2] = g[n]
  BY <1>1, <1>3, AppendProperties
<1>5. \A k \in 1..(n + 2) : Append(s, g[n])[k] = u[k]
  BY <1>1, <1>2, <1>4
<1>6. Append(s, g[n]) = u
  BY <1>2, <1>4, <1>5, SeqEqual
<1> QED
  BY <1>6 DEF s, u

LEMMA LinesFirst ==
  ASSUME NEW h, NEW g
  PROVE  Lines(h, g, 0) = <<h>>
<1> DEFINE S == LineOf(h, g)
           s == Lines(h, g, 0)
<1>1. s \in Seq(S) /\ Len(s) = 1 /\ s[1] = h
  <2>1. \A n \in Nat : Lines(h, g, n) \in Seq(LineOf(h, g)) /\ Len(Lines(h, g, n)) = n + 1
                         /\ Lines(h, g, n)[1] = h
    BY LinesAre
  <2>2. Lines(h, g, 0) \in Seq(LineOf(h, g)) /\ Len(Lines(h, g, 0)) = 0 + 1 /\ Lines(h, g, 0)[1] = h
    <3>1. 0 \in Nat
      OBVIOUS
    <3> QED
      BY <2>1, <3>1, Zenon
  <2> QED
    BY <2>2
<1>2. <<h>> \in Seq(S) /\ Len(<<h>>) = 1 /\ <<h>>[1] = h
  BY DEF LineOf
<1> HIDE DEF S, s
<1>3. s = <<h>>
  BY <1>1, <1>2, SeqEqual
<1> QED
  BY <1>3 DEF s

-----------------------------------------------------------------------------
(* The corpus.  While it is written, what is beside `raw_path` is the start *)
(* of the whole corpus, up to the lines that were counted, and these do not *)
(* overtake the replicas handed over; `raw_path` is not touched.            *)

CorpusLine == [r \in Replica |-> Line(r, SequenceOf[history[r]], Row(history[r]))]

StartOfCorpus == Lines(Header, CorpusLine, written)

NotBegun     == task = "open" => written = 0
BeingWritten == task \in {"campaign", "flushed"} => written \in 0..Len(sunk) /\ partial = StartOfCorpus
FlushedWhole == task = "flushed" => written = NbRuns
PathKept     == rawPath = before \/ (task = "returned" /\ rawPath = WholeCorpus)
Returned     == task = "returned" => rawPath = WholeCorpus
NothingLeft  == task = "returned" => partial = NoFile

CorpusInv == NotBegun /\ BeingWritten /\ FlushedWhole /\ PathKept /\ Returned /\ NothingLeft

RecordInv == CampaignInv /\ CorpusInv

LEMMA WholeCorpusIsLines == WholeCorpus = Lines(Header, CorpusLine, NbRuns)
<1>1. \A k \in 1..NbRuns : CorpusLine[k - 1] = Line(k - 1, SequenceOf[history[k - 1]], Row(history[k - 1]))
  BY CampaignOK DEF CorpusLine, Replica
<1> QED
  BY <1>1 DEF WholeCorpus, Lines

LEMMA RecordInvInit == RInit => RecordInv
<1> SUFFICES ASSUME RInit PROVE RecordInv
  OBVIOUS
<1>1. CampaignInv
  BY CampaignInvInit DEF RInit
<1>2. CorpusInv
  BY DEF RInit, CorpusInv, NotBegun, BeingWritten, FlushedWhole, PathKept, Returned, NothingLeft
<1> QED
  BY <1>1, <1>2 DEF RecordInv

(* A campaign that its caller gives up keeps what it says.                  *)
LEMMA CampaignStopsKeeps ==
  ASSUME CampaignInv, CampaignStops
  PROVE  CampaignInv' /\ UNCHANGED <<history, sunk>>
BY DEF CampaignStops, CampaignInv, CampaignIsSequential, FoldedPassed, InTheirOrder, LowestFailure,
       Failing, Replica

(* The campaign goes on, stops or waits: the histories of the replicas stay,*)
(* and what is handed over only grows.                                      *)
LEMMA CampaignInRecord ==
  ASSUME CampaignInv, RNext
  PROVE  CampaignInv' /\ history' = history /\ Len(sunk) <= Len(sunk')
<1>1. CASE UNCHANGED mvars
  <2>1. CampaignInv'
    BY <1>1, CampaignInvStep
  <2>2. Len(sunk) \in Nat
    BY CampaignOK DEF CampaignInv, CampaignIsSequential, InTheirOrder
  <2> QED
    BY <1>1, <2>1, <2>2 DEF mvars
<1>2. CASE CampaignStops
  <2>1. Len(sunk) \in Nat
    BY CampaignOK DEF CampaignInv, CampaignIsSequential, InTheirOrder
  <2> QED
    BY <1>2, <2>1, CampaignStopsKeeps
<1>3. CASE Work
  <2>1. CampaignInv'
    BY <1>3, CampaignInvStep DEF MNext
  <2>2. history' = history /\ first' >= first
    BY <1>3, ChunkAdvances, CampaignOK
       DEF Work, Simulate, EndChunkFailed, EndChunk, SimulateSerial, Finish, CampaignInv
  <2>3. Len(sunk) = first /\ Len(sunk') = first'
    BY <2>1, CampaignOK DEF CampaignInv, CampaignIsSequential, InTheirOrder
  <2> QED
    BY <2>1, <2>2, <2>3
<1>4. UNCHANGED mvars \/ CampaignStops \/ Work
  BY DEF RNext, Create, RunChunk, Sink, RunFails, Flush, Move, Kill, Abandon,
         ReadFile, ReadHeader, ReadLine, ReadEnd, Reads
<1> QED
  BY <1>1, <1>2, <1>3, <1>4

(* The whole corpus and its start are those of the histories, which stay.   *)
LEMMA CorpusIsFixed ==
  ASSUME history' = history
  PROVE  WholeCorpus' = WholeCorpus /\ CorpusLine' = CorpusLine
BY DEF WholeCorpus, CorpusLine

-----------------------------------------------------------------------------
(* One lemma per step of the call.                                         *)

LEMMA CreateKeeps ==
  ASSUME RecordInv, Create
  PROVE  CorpusInv'
<1> USE DEF RecordInv, CorpusInv
<1>1. task = "open" /\ before' = before /\ rawPath' = rawPath /\ written' = written /\ written = 0
  BY DEF Create, ROpen, NotBegun
<1>2. \/ task' = "campaign" /\ partial' = <<Header>>
      \/ task' = "refused"
      \/ task' = "failed"
  BY DEF Create, Abandon
<1>3. rawPath' = before'
  BY <1>1 DEF PathKept
<1>4. Len(sunk') \in Nat
  BY CampaignInRecord, CampaignOK DEF RNext, CampaignInv, CampaignIsSequential, InTheirOrder
<1>5. Lines(Header, CorpusLine', 0) = <<Header>>
  BY LinesFirst
<1> QED
  BY <1>1, <1>2, <1>3, <1>4, <1>5
     DEF NotBegun, BeingWritten, FlushedWhole, PathKept, Returned, NothingLeft, StartOfCorpus, Header

LEMMA SinkKeeps ==
  ASSUME RecordInv, Sink
  PROVE  CorpusInv'
<1> USE DEF RecordInv, CorpusInv
<1>1. task = "campaign" /\ before' = before /\ rawPath' = rawPath /\ rawPath = before
  BY DEF Sink, ROpen, PathKept
<1>2. /\ written \in 0..first /\ written # first /\ partial = StartOfCorpus
      /\ sunk = [k \in 1..first |-> k - 1] /\ Len(sunk) = first /\ first \in 0..NbRuns
  BY <1>1, CampaignOK DEF Sink, ROpen, SinkIsDone, BeingWritten, CampaignInv, CampaignIsSequential, InTheirOrder
<1>3. sunk[written + 1] = written /\ written \in Replica
  BY <1>2, CampaignOK DEF Replica
<1>4. CASE /\ partial' = Append(partial, Line(written, SequenceOf[history[written]], Row(history[written])))
           /\ written' = written + 1 /\ UNCHANGED <<task, mvars>>
  <2>1. CorpusLine[written] = Line(written, SequenceOf[history[written]], Row(history[written]))
    BY <1>3 DEF CorpusLine
  <2>2. Append(Lines(Header, CorpusLine, written), CorpusLine[written]) = Lines(Header, CorpusLine, written + 1)
    <3>1. written \in Nat
      BY <1>3, CampaignOK DEF Replica
    <3> QED
      BY <3>1, LinesAppend
  <2>3. CorpusLine' = CorpusLine /\ sunk' = sunk /\ Header' = Header
    BY <1>4, CorpusIsFixed DEF mvars, Header
  <2>4. partial' = StartOfCorpus'
    BY <1>2, <1>4, <2>1, <2>2, <2>3 DEF StartOfCorpus
  <2>5. written' \in 0..Len(sunk')
    BY <1>2, <1>4, <2>3
  <2> QED
    BY <1>1, <1>4, <2>4, <2>5 DEF NotBegun, BeingWritten, FlushedWhole, PathKept, Returned, NothingLeft
<1>5. CASE task' = "failed"
  BY <1>1, <1>5 DEF NotBegun, BeingWritten, FlushedWhole, PathKept, Returned, NothingLeft
<1> QED
  BY <1>1, <1>2, <1>3, <1>4, <1>5 DEF Sink, Abandon

LEMMA FlushKeeps ==
  ASSUME RecordInv, Flush
  PROVE  CorpusInv'
<1> USE DEF RecordInv, CorpusInv
<1>1. task = "campaign" /\ before' = before /\ rawPath' = rawPath /\ rawPath = before /\ written' = written
  BY DEF Flush, ROpen, PathKept
<1>2. CASE written = NbRuns /\ task' = "flushed" /\ UNCHANGED <<partial, mvars>>
  <2>1. CorpusLine' = CorpusLine /\ sunk' = sunk /\ Header' = Header
    BY <1>2, CorpusIsFixed DEF mvars, Header
  <2>2. written' \in 0..Len(sunk') /\ partial' = StartOfCorpus'
    BY <1>1, <1>2, <2>1 DEF BeingWritten, StartOfCorpus
  <2> QED
    BY <1>1, <1>2, <2>2 DEF NotBegun, BeingWritten, FlushedWhole, PathKept, Returned, NothingLeft
<1>3. CASE Abandon(OnDisk(partial))
  BY <1>1, <1>3 DEF Abandon, NotBegun, BeingWritten, FlushedWhole, PathKept, Returned, NothingLeft
<1> QED
  BY <1>2, <1>3 DEF Flush

LEMMA MoveKeeps ==
  ASSUME RecordInv, Move
  PROVE  CorpusInv'
<1> USE DEF RecordInv, CorpusInv
<1>1. task = "flushed" /\ before' = before /\ rawPath = before /\ written = NbRuns /\ partial = StartOfCorpus
  BY DEF Move, ROpen, PathKept, FlushedWhole, BeingWritten
<1>2. CASE task' = "returned" /\ rawPath' = partial /\ partial' = NoFile /\ UNCHANGED mvars
  <2>1. partial = WholeCorpus
    BY <1>1, WholeCorpusIsLines DEF StartOfCorpus
  <2>2. rawPath' = WholeCorpus'
    BY <1>2, <2>1, CorpusIsFixed DEF mvars
  <2> QED
    BY <1>2, <2>2 DEF NotBegun, BeingWritten, FlushedWhole, PathKept, Returned, NothingLeft
<1>3. CASE Abandon({partial}) /\ UNCHANGED rawPath
  BY <1>1, <1>3 DEF Abandon, NotBegun, BeingWritten, FlushedWhole, PathKept, Returned, NothingLeft
<1> QED
  BY <1>2, <1>3 DEF Move

(* A step that leaves the files, and the count of the lines, alone.         *)
LEMMA FilesUntouched ==
  ASSUME RecordInv, UNCHANGED <<before, rawPath, partial, written, task>>,
         history' = history, CampaignInv', Len(sunk) <= Len(sunk')
  PROVE  CorpusInv'
<1> USE DEF RecordInv, CorpusInv
<1>1. CorpusLine' = CorpusLine /\ WholeCorpus' = WholeCorpus /\ Header' = Header
  BY CorpusIsFixed DEF Header
<1>2. BeingWritten'
  <2>1. Len(sunk) \in Nat /\ Len(sunk') \in Nat
    BY CampaignOK DEF CampaignInv, CampaignIsSequential, InTheirOrder
  <2> QED
    BY <1>1, <2>1 DEF BeingWritten, StartOfCorpus
<1> QED
  BY <1>1, <1>2 DEF NotBegun, FlushedWhole, PathKept, Returned, NothingLeft

LEMMA RecordInvStep == RecordInv /\ [RNext]_<<mvars, rvars>> => RecordInv'
<1> SUFFICES ASSUME RecordInv, [RNext]_<<mvars, rvars>> PROVE RecordInv'
  OBVIOUS
<1>1. CASE RNext
  <2>1. CampaignInv' /\ history' = history /\ Len(sunk) <= Len(sunk')
    BY <1>1, CampaignInRecord DEF RecordInv
  <2>2. ASSUME RunChunk PROVE CorpusInv'
    BY <2>1, <2>2, FilesUntouched DEF RunChunk, ROpen, RecordInv
  <2>3. ASSUME RunFails PROVE CorpusInv'
    BY <2>3 DEF RunFails, ROpen, Abandon, RecordInv, CorpusInv,
                NotBegun, BeingWritten, FlushedWhole, PathKept, Returned, NothingLeft
  <2>4. ASSUME Kill PROVE CorpusInv'
    BY <2>4 DEF Kill, RecordInv, CorpusInv,
                NotBegun, BeingWritten, FlushedWhole, PathKept, Returned, NothingLeft
  <2>5. ASSUME ReadFile \/ ReadHeader \/ ReadLine \/ ReadEnd PROVE CorpusInv'
    BY <2>1, <2>5, FilesUntouched
       DEF ReadFile, ReadHeader, ReadLine, ReadEnd, Reads, fileVars, RecordInv
  <2>6. CorpusInv'
    BY <1>1, <2>2, <2>3, <2>4, <2>5, CreateKeeps, SinkKeeps, FlushKeeps, MoveKeeps DEF RNext, RecordInv
  <2> QED
    BY <2>1, <2>6 DEF RecordInv
<1>2. CASE UNCHANGED <<mvars, rvars>>
  <2>1. CampaignInv'
    BY <1>2, CampaignInvStep DEF RecordInv
  <2>2. Len(sunk) <= Len(sunk') /\ history' = history
    <3>1. Len(sunk) \in Nat
      BY CampaignOK DEF RecordInv, CampaignInv, CampaignIsSequential, InTheirOrder
    <3> QED
      BY <1>2, <3>1 DEF mvars
  <2> QED
    BY <1>2, <2>1, <2>2, FilesUntouched DEF rvars, fileVars, RecordInv
<1> QED
  BY <1>1, <1>2

(* `raw_path` holds what it held before or the corpus of every replica, in  *)
(* order, whatever write fails and wherever the process is killed, and a    *)
(* call that returns leaves nothing beside it.                              *)
THEOREM PathTheorem == RSpec => []PathIsWhole
<1>1. RecordInv => PathIsWhole
  BY DEF RecordInv, CorpusInv, PathKept, Returned, NothingLeft, PathIsWhole
<1> QED
  BY <1>1, RecordInvInit, RecordInvStep, PTL DEF RSpec

(* A campaign that keeps its corpus hands over and refuses what one thread  *)
(* would, though the writer may stop it at any line.                        *)
THEOREM RecordedCampaignTheorem == RSpec => []CampaignIsSequential
<1>1. RecordInv => CampaignIsSequential
  BY DEF RecordInv, CampaignInv
<1> QED
  BY <1>1, RecordInvInit, RecordInvStep, PTL DEF RSpec
=============================================================================
