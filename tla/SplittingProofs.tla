--------------------------- MODULE SplittingProofs ---------------------------
(***************************************************************************)
(* Proofs about Splitting and the numbering of random streams, for every   *)
(* size of the partition, of a block, of a batch and of a campaign: no two *)
(* trajectories draw from one stream.                                      *)
(***************************************************************************)
EXTENDS Splitting, FiniteSetTheorems, TLAPS

-----------------------------------------------------------------------------
(* Blocks                                                                  *)

(* Blocks of one size do not overlap.                                      *)
LEMMA BlocksApart ==
  ASSUME NEW size \in Nat, NEW a \in Nat, NEW b \in Nat, NEW i \in 0..(size - 1),
         NEW j \in 0..(size - 1), a * size + i = b * size + j
  PROVE  a = b /\ i = j
<1>1. ASSUME NEW m \in Nat, NEW n \in Nat, m < n
      PROVE  m * size + size <= n * size
  <2>1. PICK d \in Nat : n = m + 1 + d
    <3>1. n - m - 1 \in Nat /\ n = m + 1 + (n - m - 1)
      BY <1>1
    <3> QED
      BY <3>1
  <2>2. n * size = m * size + size + d * size
    BY <2>1
  <2>3. d * size \in Nat /\ m * size \in Nat
    OBVIOUS
  <2> QED
    BY <2>2, <2>3
<1>2. a * size \in Nat /\ b * size \in Nat
  OBVIOUS
<1>3. ~(a < b)
  <2> SUFFICES ASSUME a < b PROVE FALSE
    OBVIOUS
  <2>1. a * size + size <= b * size
    BY <1>1
  <2> QED
    BY <1>2, <2>1
<1>4. ~(b < a)
  <2> SUFFICES ASSUME b < a PROVE FALSE
    OBVIOUS
  <2>1. b * size + size <= a * size
    BY <1>1
  <2> QED
    BY <1>2, <2>1
<1>5. a = b
  BY <1>3, <1>4
<1> QED
  BY <1>2, <1>5

(* A block fits the range when all the blocks do.                          *)
LEMMA BlockFits ==
  ASSUME NEW size \in Nat, NEW count \in Nat, NEW a \in 0..(count - 1), NEW i \in 0..(size - 1)
  PROVE  a * size + i \in Nat /\ a * size + i < count * size
<1>1. PICK d \in Nat : count = a + 1 + d
  <2>1. count - a - 1 \in Nat /\ count = a + 1 + (count - a - 1)
    OBVIOUS
  <2> QED
    BY <2>1
<1>2. count * size = a * size + size + d * size
  BY <1>1
<1>3. a * size \in Nat /\ d * size \in Nat
  BY <1>1
<1> QED
  BY <1>2, <1>3

(* What the assumptions say of a study.                                    *)
LEMMA StudyFacts ==
  ASSUME study \in Studies
  PROVE  /\ Particles \in Nat /\ Particles > 1 /\ Particles < StreamBlock
         /\ Batches \in Nat /\ Batches * StreamBlock <= PilotStreamBase
         /\ StreamBlock \in Nat /\ PilotStreamBase \in Nat /\ Refused \notin Nat
BY SettingsOK, PartitionOK DEF Particles, Batches

(* A rank within the block has a stream of the final range, any other none. *)
LEMMA StreamIs ==
  ASSUME study \in Studies, NEW b \in B, NEW rank \in Nat
  PROVE  /\ rank < StreamBlock => /\ Stream(b, rank) = b * StreamBlock + rank
                                  /\ Stream(b, rank) \in 0..(PilotStreamBase - 1)
         /\ Stream(b, rank) # Refused => rank < StreamBlock
<1>1. ASSUME rank < StreamBlock
      PROVE  /\ Stream(b, rank) = b * StreamBlock + rank
             /\ Stream(b, rank) \in 0..(PilotStreamBase - 1)
  <2>1. b * StreamBlock + rank \in Nat /\ b * StreamBlock + rank < Batches * StreamBlock
    BY <1>1, StudyFacts, BlockFits DEF B
  <2>2. Batches * StreamBlock \in Nat
    BY StudyFacts
  <2>3. b * StreamBlock + rank < PilotStreamBase
    BY <2>1, <2>2, StudyFacts
  <2>4. Stream(b, rank) = b * StreamBlock + rank
    BY <1>1, <2>1, <2>3, StudyFacts DEF Stream, FinalStream
  <2> QED
    BY <2>1, <2>3, <2>4, StudyFacts
<1>2. rank >= StreamBlock => Stream(b, rank) = Refused
  BY DEF Stream
<1> QED
  BY <1>1, <1>2, StudyFacts

(* Two ranks of the batches never share a stream.                          *)
LEMMA StreamsDiffer ==
  ASSUME study \in Studies, NEW b \in B, NEW c \in B, NEW i \in 0..(StreamBlock - 1),
         NEW j \in 0..(StreamBlock - 1), Stream(b, i) = Stream(c, j)
  PROVE  b = c /\ i = j
<1>1. b * StreamBlock + i = c * StreamBlock + j
  BY StreamIs, StudyFacts
<1> QED
  BY <1>1, StudyFacts, BlocksApart DEF B

-----------------------------------------------------------------------------
(* The inductive invariant: the streams handed out are the ranks a batch    *)
(* has passed, but for the places of the first wave it has not launched.    *)

Taken(b) == (0..(batch[b].rank - 1)) \ batch[b].waiting

BatchInv(b) ==
  /\ {"phase", "waiting", "rank"} \subseteq DOMAIN batch[b]
  /\ batch[b].waiting \subseteq Places
  /\ batch[b].rank \in (Particles + 1)..StreamBlock
  /\ batch[b].phase = "launch" <=> batch[b].waiting # {}

StreamsInv ==
  /\ study \in Studies
  /\ batch = [b \in B |-> batch[b]] /\ \A b \in B : BatchInv(b)
  /\ used \in [0..(PilotStreamBase - 1) -> Nat]
  /\ \A s \in 0..(PilotStreamBase - 1) :
       used[s] = IF \E b \in B : \E rank \in Taken(b) : s = Stream(b, rank) THEN 1 ELSE 0

(* What setting some fields of one batch does.                             *)
LEMMA SetFacts ==
  ASSUME batch = [c \in B |-> batch[c]], NEW b \in B, NEW fields, Set(b, fields)
  PROVE  /\ batch' = [c \in B |-> batch'[c]]
         /\ \A c \in B \ {b} : batch'[c] = batch[c]
         /\ DOMAIN batch'[b] = DOMAIN batch[b]
         /\ \A x \in DOMAIN batch[b] :
              batch'[b][x] = IF x \in DOMAIN fields THEN fields[x] ELSE batch[b][x]
<1>1. batch' = [batch EXCEPT ![b] = [x \in DOMAIN batch[b] |->
                                        IF x \in DOMAIN fields THEN fields[x] ELSE batch[b][x]]]
  BY DEF Set
<1> QED
  BY <1>1

(* A step that takes no stream.                                            *)
LEMMA IdleKeeps ==
  ASSUME StreamsInv, NEW b \in B, batch[b].phase # "launch", NEW fields, Set(b, fields),
         "phase" \in DOMAIN fields, fields.phase # "launch",
         "waiting" \notin DOMAIN fields, "rank" \notin DOMAIN fields, UNCHANGED <<study, used>>
  PROVE  StreamsInv'
<1>1. /\ batch' = [c \in B |-> batch'[c]]
      /\ \A c \in B \ {b} : batch'[c] = batch[c]
      /\ DOMAIN batch'[b] = DOMAIN batch[b]
      /\ \A x \in DOMAIN batch[b] :
           batch'[b][x] = IF x \in DOMAIN fields THEN fields[x] ELSE batch[b][x]
  BY SetFacts DEF StreamsInv
<1>2. {"phase", "waiting", "rank"} \subseteq DOMAIN batch[b]
  BY DEF StreamsInv, BatchInv
<1>3. /\ batch'[b].waiting = batch[b].waiting /\ batch'[b].rank = batch[b].rank
      /\ batch'[b].phase = fields.phase
      /\ {"phase", "waiting", "rank"} \subseteq DOMAIN batch'[b]
  BY <1>1, <1>2
<1>4. B' = B /\ Places' = Places /\ Particles' = Particles /\ study' = study
  BY DEF B, Batches, Places, Particles
<1>5. \A c \in B : batch'[c].waiting = batch[c].waiting /\ batch'[c].rank = batch[c].rank
  BY <1>1, <1>3
<1>6. ASSUME NEW c \in B
      PROVE  BatchInv(c)'
  <2>1. BatchInv(c) /\ BatchInv(b)
    BY DEF StreamsInv
  <2>2. CASE c = b
    BY <1>3, <1>4, <2>1, <2>2 DEF BatchInv
  <2>3. CASE c # b
    <3>1. batch'[c] = batch[c]
      BY <1>1, <2>3
    <3> QED
      BY <1>4, <2>1, <3>1 DEF BatchInv
  <2> QED
    BY <2>2, <2>3
<1>7. \A c \in B : Taken(c)' = Taken(c)
  BY <1>5 DEF Taken
<1> QED
  BY <1>1, <1>4, <1>6, <1>7 DEF StreamsInv

(* A step that takes the stream of one more rank.                          *)
LEMMA TakingKeeps ==
  ASSUME StreamsInv, NEW b \in B, NEW rank \in Nat \ Taken(b), rank < StreamBlock, Take(b, rank),
         NEW fields, Set(b, fields), BatchInv(b)', Taken(b)' = Taken(b) \cup {rank}, study' = study
  PROVE  StreamsInv'
<1>1. /\ batch' = [c \in B |-> batch'[c]]
      /\ \A c \in B \ {b} : batch'[c] = batch[c]
  BY SetFacts DEF StreamsInv
<1>2. B' = B /\ Places' = Places /\ Particles' = Particles /\ study' = study
  BY DEF B, Batches, Places, Particles
<1>3. \A c \in B \ {b} : Taken(c)' = Taken(c)
  BY <1>1 DEF Taken
<1>4. ASSUME NEW c \in B
      PROVE  BatchInv(c)'
  <2>1. BatchInv(c)
    BY DEF StreamsInv
  <2>2. CASE c # b
    <3>1. batch'[c] = batch[c]
      BY <1>1, <2>2
    <3> QED
      BY <1>2, <2>1, <3>1 DEF BatchInv
  <2> QED
    BY <2>2
<1>5. study \in Studies /\ Stream(b, rank) \in 0..(PilotStreamBase - 1)
  BY StreamIs DEF StreamsInv
<1>6. \A c \in B : \A q \in Taken(c) : q \in 0..(StreamBlock - 1)
  <2> SUFFICES ASSUME NEW c \in B, NEW q \in Taken(c) PROVE q \in 0..(StreamBlock - 1)
    OBVIOUS
  <2>1. batch[c].rank \in (Particles + 1)..StreamBlock /\ q \in 0..(batch[c].rank - 1)
    BY DEF StreamsInv, BatchInv, Taken
  <2> QED
    BY <1>5, <2>1, StudyFacts
<1>7. ~ \E c \in B : \E q \in Taken(c) : Stream(b, rank) = Stream(c, q)
  <2> SUFFICES ASSUME NEW c \in B, NEW q \in Taken(c), Stream(b, rank) = Stream(c, q) PROVE FALSE
    OBVIOUS
  <2>1. rank \in 0..(StreamBlock - 1) /\ q \in 0..(StreamBlock - 1)
    BY <1>5, <1>6, StudyFacts
  <2>2. b = c /\ rank = q
    BY <1>5, <2>1, StreamsDiffer
  <2> QED
    BY <2>2
<1>8. used' = [used EXCEPT ![Stream(b, rank)] = used[Stream(b, rank)] + 1]
  BY DEF Take
<1>9. used \in [0..(PilotStreamBase - 1) -> Nat]
  BY DEF StreamsInv
<1>10. used' \in [0..(PilotStreamBase - 1) -> Nat]
  BY <1>5, <1>8, <1>9
<1>11. used[Stream(b, rank)] = 0
  BY <1>5, <1>7 DEF StreamsInv
<1>12. ASSUME NEW s \in 0..(PilotStreamBase - 1)
       PROVE  used'[s] = IF \E c \in B : \E q \in Taken(c)' : s = Stream(c, q) THEN 1 ELSE 0
  <2>1. used[s] = IF \E c \in B : \E q \in Taken(c) : s = Stream(c, q) THEN 1 ELSE 0
    BY DEF StreamsInv
  <2>2. (\E c \in B : \E q \in Taken(c)' : s = Stream(c, q))
          <=> s = Stream(b, rank) \/ \E c \in B : \E q \in Taken(c) : s = Stream(c, q)
    BY <1>3
  <2>3. CASE s = Stream(b, rank)
    <3>1. used'[s] = 1
      BY <1>5, <1>8, <1>9, <1>11, <2>3
    <3> QED
      BY <2>2, <2>3, <3>1
  <2>4. CASE s # Stream(b, rank)
    <3>1. used'[s] = used[s]
      BY <1>8, <1>9, <2>4
    <3> QED
      BY <2>1, <2>2, <2>4, <3>1
  <2> QED
    BY <2>3, <2>4
<1>13. \A c \in B : \A q : Stream(c, q)' = Stream(c, q)
  BY DEF Stream, FinalStream
<1> QED
  BY <1>1, <1>2, <1>4, <1>5, <1>10, <1>12 DEF StreamsInv, Stream, FinalStream

-----------------------------------------------------------------------------
(* The steps                                                               *)

(* One more place of the first wave.                                       *)
LEMMA LaunchKeeps ==
  ASSUME StreamsInv, NEW b \in B, Launch(b)
  PROVE  StreamsInv'
<1> DEFINE w == batch[b]
<1>1. PICK i \in Places, k \in DOMAIN Launched :
        /\ i \in w.waiting
        /\ Set(b, [waiting |-> w.waiting \ {i},
                   particles |-> [w.particles EXCEPT ![i] = Launched[k].is],
                   phase |-> IF w.waiting = {i} THEN "select" ELSE "launch"])
        /\ Take(b, i)
  BY DEF Launch
<1> DEFINE fields == [waiting |-> w.waiting \ {i},
                      particles |-> [w.particles EXCEPT ![i] = Launched[k].is],
                      phase |-> IF w.waiting = {i} THEN "select" ELSE "launch"]
<1>2. /\ DOMAIN fields = {"waiting", "particles", "phase"}
      /\ fields.waiting = w.waiting \ {i}
      /\ fields.phase = IF w.waiting = {i} THEN "select" ELSE "launch"
  OBVIOUS
<1>3. Set(b, fields) /\ study' = study
  BY <1>1 DEF Launch
<1> HIDE DEF fields
<1>4. BatchInv(b) /\ study \in Studies
  BY DEF StreamsInv
<1>5. /\ DOMAIN batch'[b] = DOMAIN w
      /\ \A x \in DOMAIN w : batch'[b][x] = IF x \in DOMAIN fields THEN fields[x] ELSE w[x]
  BY <1>3, SetFacts DEF StreamsInv
<1>6. /\ batch'[b].waiting = w.waiting \ {i} /\ batch'[b].rank = w.rank
      /\ batch'[b].phase = IF w.waiting = {i} THEN "select" ELSE "launch"
      /\ {"phase", "waiting", "rank"} \subseteq DOMAIN batch'[b]
  BY <1>2, <1>4, <1>5 DEF BatchInv
<1>7. Places' = Places /\ Particles' = Particles
  BY <1>3 DEF Places, Particles
<1>8. BatchInv(b)'
  BY <1>1, <1>4, <1>6, <1>7 DEF BatchInv
<1>9. i \in Nat /\ i < StreamBlock /\ i \in 0..(w.rank - 1)
  BY <1>4, StudyFacts DEF BatchInv, Places
<1>10. i \notin Taken(b) /\ Taken(b)' = Taken(b) \cup {i}
  BY <1>1, <1>6, <1>9 DEF Taken
<1> QED
  BY <1>1, <1>3, <1>8, <1>9, <1>10, TakingKeeps

(* A killed particle is replaced by a restart, on the next rank.           *)
LEMMA ReplaceKeeps ==
  ASSUME StreamsInv, NEW b \in B, Replace(b)
  PROVE  StreamsInv'
<1> DEFINE w == batch[b]
<1>1. PICK next :
        Set(b, [particles |-> [w.particles EXCEPT ![Head(w.killed)] = next],
                killed |-> Tail(w.killed), rank |-> w.rank + 1,
                phase |-> IF Len(w.killed) = 1 THEN "select" ELSE "replace"])
  BY DEF Replace
<1> DEFINE fields ==
             [particles |-> [w.particles EXCEPT ![Head(w.killed)] = next],
              killed |-> Tail(w.killed), rank |-> w.rank + 1,
              phase |-> IF Len(w.killed) = 1 THEN "select" ELSE "replace"]
<1>2. /\ DOMAIN fields = {"particles", "killed", "rank", "phase"}
      /\ fields.rank = w.rank + 1 /\ fields.phase \in {"select", "replace"}
  OBVIOUS
<1>3. Set(b, fields) /\ study' = study /\ w.phase = "replace" /\ Take(b, w.rank)
      /\ Stream(b, w.rank) # Refused
  BY <1>1 DEF Replace
<1> HIDE DEF fields
<1>4. BatchInv(b) /\ study \in Studies
  BY DEF StreamsInv
<1>5. w.rank \in Nat /\ w.rank < StreamBlock /\ w.waiting = {}
  <2>1. w.rank \in Nat
    BY <1>4, StudyFacts DEF BatchInv
  <2> QED
    BY <1>3, <1>4, <2>1, StreamIs DEF BatchInv
<1>6. /\ DOMAIN batch'[b] = DOMAIN w
      /\ \A x \in DOMAIN w : batch'[b][x] = IF x \in DOMAIN fields THEN fields[x] ELSE w[x]
  BY <1>3, SetFacts DEF StreamsInv
<1>7. /\ batch'[b].waiting = w.waiting /\ batch'[b].rank = w.rank + 1
      /\ batch'[b].phase \in {"select", "replace"}
      /\ {"phase", "waiting", "rank"} \subseteq DOMAIN batch'[b]
  BY <1>2, <1>4, <1>6 DEF BatchInv
<1>8. Places' = Places /\ Particles' = Particles
  BY <1>3 DEF Places, Particles
<1>9. BatchInv(b)'
  BY <1>4, <1>5, <1>7, <1>8, StudyFacts DEF BatchInv
<1>10. w.rank \notin Taken(b) /\ Taken(b)' = Taken(b) \cup {w.rank}
  BY <1>5, <1>7 DEF Taken
<1> QED
  BY <1>3, <1>5, <1>9, <1>10, TakingKeeps

(* The steps that decide, end or give up a batch take no stream.           *)
LEMMA DecidingKeeps ==
  ASSUME StreamsInv, NEW b \in B,
         \/ AllReached(b) \/ Extinct(b) \/ IterationLimit(b) \/ Select(b) \/ StreamsExhausted(b)
  PROVE  StreamsInv'
<1>1. CASE AllReached(b)
  <2> DEFINE fields == [phase |-> "done", estimate |-> batch[b].weight]
  <2>1. DOMAIN fields = {"phase", "estimate"} /\ fields.phase = "done"
    OBVIOUS
  <2>2. Set(b, fields) /\ batch[b].phase # "launch" /\ UNCHANGED <<study, used>>
    BY <1>1 DEF AllReached
  <2> HIDE DEF fields
  <2> QED
    BY <2>1, <2>2, IdleKeeps
<1>2. CASE Extinct(b)
  <2> DEFINE fields == [phase |-> "done", extinct |-> TRUE]
  <2>1. DOMAIN fields = {"phase", "extinct"} /\ fields.phase = "done"
    OBVIOUS
  <2>2. Set(b, fields) /\ batch[b].phase # "launch" /\ UNCHANGED <<study, used>>
    BY <1>2 DEF Extinct
  <2> HIDE DEF fields
  <2> QED
    BY <2>1, <2>2, IdleKeeps
<1>3. CASE IterationLimit(b)
  <2> DEFINE fields == [phase |-> "limit"]
  <2>1. DOMAIN fields = {"phase"} /\ fields.phase = "limit"
    OBVIOUS
  <2>2. Set(b, fields) /\ batch[b].phase # "launch" /\ UNCHANGED <<study, used>>
    BY <1>3 DEF IterationLimit
  <2> HIDE DEF fields
  <2> QED
    BY <2>1, <2>2, IdleKeeps
<1>4. CASE Select(b)
  <2> DEFINE ps == batch[b].particles
             fields == [phase |-> "replace", killed |-> InOrder(Killed(ps)),
                        parents |-> Survivors(ps),
                        weight |-> Times(batch[b].weight,
                                         Frac(Particles - Cardinality(Killed(ps)), Particles)),
                        levels |-> Append(batch[b].levels, Lowest(ps))]
  <2>1. /\ DOMAIN fields = {"phase", "killed", "parents", "weight", "levels"}
        /\ fields.phase = "replace"
    OBVIOUS
  <2>2. Set(b, fields) /\ batch[b].phase # "launch" /\ UNCHANGED <<study, used>>
    BY <1>4 DEF Select
  <2> HIDE DEF fields
  <2> QED
    BY <2>1, <2>2, IdleKeeps
<1>5. CASE StreamsExhausted(b)
  <2> DEFINE fields == [phase |-> "exhausted"]
  <2>1. DOMAIN fields = {"phase"} /\ fields.phase = "exhausted"
    OBVIOUS
  <2>2. Set(b, fields) /\ batch[b].phase # "launch" /\ UNCHANGED <<study, used>>
    BY <1>5 DEF StreamsExhausted
  <2> HIDE DEF fields
  <2> QED
    BY <2>1, <2>2, IdleKeeps
<1> QED
  BY <1>1, <1>2, <1>3, <1>4, <1>5

(* Only the draws of parents have a stream at first.                       *)
LEMMA StreamsInit == SInit => StreamsInv
<1> SUFFICES ASSUME SInit PROVE StreamsInv
  OBVIOUS
<1>1. study \in Studies /\ batch = [b \in B |-> New]
  BY DEF SInit
<1>2. /\ New.phase = "launch" /\ New.waiting = Places /\ New.rank = Particles + 1
      /\ {"phase", "waiting", "rank"} \subseteq DOMAIN New
  BY DEF New
<1>3. Places # {} /\ Particles \in Nat /\ Particles + 1 \in (Particles + 1)..StreamBlock
      /\ StreamBlock \in Nat
  BY <1>1, StudyFacts DEF Places
<1>4. ASSUME NEW b \in B
      PROVE  BatchInv(b) /\ Taken(b) = {0}
  <2>1. batch[b] = New
    BY <1>1
  <2>2. Taken(b) = (0..Particles) \ (1..Particles)
    <3>1. (Particles + 1) - 1 = Particles
      BY <1>3
    <3> QED
      BY <1>2, <2>1, <3>1 DEF Taken, Places
  <2>3. (0..Particles) \ (1..Particles) = {0}
    BY <1>3
  <2> QED
    BY <1>2, <1>3, <2>1, <2>2, <2>3 DEF BatchInv
<1>5. ASSUME NEW s \in 0..(PilotStreamBase - 1)
      PROVE  /\ used[s] \in Nat
             /\ used[s] = IF \E b \in B : s = Stream(b, 0) THEN 1 ELSE 0
  <2>1. used[s] = Cardinality({b \in B : s = Stream(b, 0)})
    BY DEF SInit
  <2>2. CASE \E b \in B : s = Stream(b, 0)
    <3>1. PICK b \in B : s = Stream(b, 0)
      BY <2>2
    <3>2. \A c \in B : s = Stream(c, 0) => c = b
      BY <1>1, <3>1, StudyFacts, StreamsDiffer
    <3>3. {c \in B : s = Stream(c, 0)} = {b}
      BY <3>1, <3>2
    <3>4. used[s] = 1
      BY <2>1, <3>3, FS_Singleton
    <3> QED
      BY <2>2, <3>4
  <2>3. CASE ~ \E b \in B : s = Stream(b, 0)
    <3>1. {b \in B : s = Stream(b, 0)} = {}
      BY <2>3
    <3>2. used[s] = 0
      BY <2>1, <3>1, FS_EmptySet
    <3> QED
      BY <2>3, <3>2
  <2> QED
    BY <2>2, <2>3
<1>6. used \in [0..(PilotStreamBase - 1) -> Nat]
  BY <1>5 DEF SInit
<1>7. \A s : (\E b \in B : \E rank \in Taken(b) : s = Stream(b, rank))
               <=> \E b \in B : s = Stream(b, 0)
  BY <1>4
<1>8. \A s \in 0..(PilotStreamBase - 1) :
        used[s] = IF \E b \in B : \E rank \in Taken(b) : s = Stream(b, rank) THEN 1 ELSE 0
  BY <1>5, <1>7
<1>9. batch = [b \in B |-> batch[b]]
  BY <1>1
<1> QED
  BY <1>1, <1>4, <1>6, <1>8, <1>9 DEF StreamsInv

(* Nothing moves.                                                          *)
LEMMA StillKeeps ==
  ASSUME StreamsInv, UNCHANGED svars
  PROVE  StreamsInv'
<1>1. study' = study /\ batch' = batch /\ used' = used
  BY DEF svars
<1>2. B' = B /\ Places' = Places /\ Particles' = Particles
  BY <1>1 DEF B, Batches, Places, Particles
<1>3. \A b \in B : BatchInv(b)' /\ Taken(b)' = Taken(b)
  BY <1>1, <1>2 DEF StreamsInv, BatchInv, Taken
<1> QED
  BY <1>1, <1>2, <1>3 DEF StreamsInv, Stream, FinalStream

(* What the invariant says of the streams handed out.                      *)
LEMMA InvImpliesFresh == StreamsInv => StreamsAreFresh
<1> SUFFICES ASSUME StreamsInv PROVE StreamsAreFresh
  OBVIOUS
<1> DEFINE S == 0..(PilotStreamBase - 1)
<1>1. /\ study \in Studies /\ DOMAIN used = S
      /\ \A s \in S : used[s] = IF \E b \in B : \E rank \in Taken(b) : s = Stream(b, rank)
                                THEN 1 ELSE 0
  BY DEF StreamsInv
<1>2. \A s \in S : used[s] <= 1
  BY <1>1
<1>3. ASSUME \A b \in B : batch[b].phase # "launch"
      PROVE  {s \in S : used[s] = 1}
               = UNION {{Stream(b, rank) : rank \in 0..(batch[b].rank - 1)} : b \in B}
  <2>1. \A b \in B : Taken(b) = 0..(batch[b].rank - 1)
    BY <1>3 DEF StreamsInv, BatchInv, Taken
  <2>2. ASSUME NEW b \in B, NEW rank \in 0..(batch[b].rank - 1)
        PROVE  Stream(b, rank) \in S
    <3>1. batch[b].rank \in (Particles + 1)..StreamBlock
      BY DEF StreamsInv, BatchInv
    <3>2. rank \in Nat /\ rank < StreamBlock
      BY <1>1, <3>1, StudyFacts
    <3> QED
      BY <1>1, <3>2, StreamIs
  <2>3. \A s \in S : used[s] = 1 <=> \E b \in B : \E rank \in Taken(b) : s = Stream(b, rank)
    BY <1>1
  <2> DEFINE ranked == {{Stream(b, rank) : rank \in 0..(batch[b].rank - 1)} : b \in B}
  <2>4. \A s : s \in UNION ranked <=> \E b \in B : \E rank \in 0..(batch[b].rank - 1) : s = Stream(b, rank)
    OBVIOUS
  <2> HIDE DEF S, ranked
  <2>5. \A s : s \in UNION ranked <=> s \in S /\ used[s] = 1
    <3>1. ASSUME NEW s, s \in UNION ranked
          PROVE  s \in S /\ used[s] = 1
      <4>1. PICK b \in B : \E rank \in 0..(batch[b].rank - 1) : s = Stream(b, rank)
        BY <2>4, <3>1
      <4>3. PICK rank \in 0..(batch[b].rank - 1) : s = Stream(b, rank)
        BY <4>1
      <4>2. s \in S /\ rank \in Taken(b)
        BY <2>1, <2>2, <4>3
      <4> QED
        BY <2>3, <4>2, <4>3
    <3>2. ASSUME NEW s \in S, used[s] = 1
          PROVE  s \in UNION ranked
      <4>1. PICK b \in B : \E rank \in Taken(b) : s = Stream(b, rank)
        BY <2>3, <3>2
      <4>2. \E rank \in 0..(batch[b].rank - 1) : s = Stream(b, rank)
        BY <2>1, <4>1
      <4> QED
        BY <2>4, <4>2
    <3> QED
      BY <3>1, <3>2
  <2>6. {s \in S : used[s] = 1} = UNION ranked
    BY <2>5
  <2> QED
    BY <2>6 DEF ranked
<1> QED
  BY <1>1, <1>2, <1>3 DEF StreamsAreFresh

-----------------------------------------------------------------------------
(* The theorems                                                            *)

(* At any moment the streams handed out, by batches in any interleaving,    *)
(* are the ranks each batch has passed but for the places of its first wave *)
(* that are not launched, each once (`run_splitting`, `stream`).            *)
THEOREM StreamsInvariant == SSpec => []StreamsInv
<1>1. StreamsInv /\ [SNext]_svars => StreamsInv'
  BY LaunchKeeps, ReplaceKeeps, DecidingKeeps, StillKeeps DEF SNext, BatchStep, Finished
<1> QED
  BY <1>1, StreamsInit, PTL DEF SSpec

(* No stream serves two trajectories of a campaign, or a trajectory and a   *)
(* draw of parents, whatever the number and size of the batches, the block  *)
(* and the range; and a batch that goes beyond its block is refused rather  *)
(* than handed a stream of the next one.                                    *)
THEOREM StreamsTheorem == SSpec => []StreamsAreFresh
  BY StreamsInvariant, InvImpliesFresh, PTL

(* The streams of pilot iterations are above those of final campaigns, fit  *)
(* the width and are each that of one replica of one iteration              *)
(* (`PilotStream`, raichu-rng).                                             *)
THEOREM PilotsApart ==
  ASSUME NEW i \in Nat, NEW j \in Nat, NEW r \in Nat, NEW q \in Nat, NEW m \in Nat, NEW n \in Nat,
         PilotStream(i, r, m) # Refused
  PROVE  /\ PilotStream(i, r, m) \in PilotStreamBase..(2 * PilotStreamBase - 1)
         /\ PilotStream(i, r, m) = PilotStream(j, q, n) => i = j /\ r = q
<1>1. ASSUME NEW a \in Nat, NEW b \in Nat, NEW c \in Nat, PilotStream(a, b, c) # Refused
      PROVE  /\ PilotStream(a, b, c) = PilotStreamBase + a * PilotBlock + b
             /\ b < MaxPilotSize /\ a < MaxPilotIterations
  <2>1. ~(c > MaxPilotSize \/ b >= c \/ a >= MaxPilotIterations)
    BY <1>1 DEF PilotStream
  <2>2. PilotStream(a, b, c) = PilotStreamBase + a * PilotBlock + b
    BY <2>1 DEF PilotStream
  <2> QED
    BY <2>1, <2>2, PartitionOK
<1>2. i * PilotBlock \in Nat /\ j * PilotBlock \in Nat /\ (MaxPilotIterations - 1) * PilotBlock \in Nat
  BY PartitionOK
<1>3. i * PilotBlock <= (MaxPilotIterations - 1) * PilotBlock
  <2>1. PICK d \in Nat : MaxPilotIterations - 1 = i + d
    <3>1. MaxPilotIterations - 1 - i \in Nat /\ MaxPilotIterations - 1 = i + (MaxPilotIterations - 1 - i)
      BY <1>1, PartitionOK
    <3> QED
      BY <3>1
  <2>2. (MaxPilotIterations - 1) * PilotBlock = i * PilotBlock + d * PilotBlock
    BY <2>1, PartitionOK
  <2>3. d * PilotBlock \in Nat
    BY PartitionOK
  <2> QED
    BY <1>2, <2>2, <2>3
<1>4. PilotStream(i, r, m) \in PilotStreamBase..(2 * PilotStreamBase - 1)
  <2>1. PilotStream(i, r, m) = PilotStreamBase + i * PilotBlock + r /\ r < MaxPilotSize
    BY <1>1
  <2> DEFINE x == i * PilotBlock
             y == (MaxPilotIterations - 1) * PilotBlock
  <2>2. x \in Nat /\ y \in Nat /\ x <= y
    BY <1>2, <1>3
  <2>3. PilotStreamBase + y + MaxPilotSize - 1 < 2 * PilotStreamBase /\ PilotStreamBase \in Nat /\ MaxPilotSize \in Nat
    BY PartitionOK
  <2>4. PilotStream(i, r, m) = PilotStreamBase + x + r
    BY <2>1
  <2> HIDE DEF x, y
  <2> QED
    BY <2>1, <2>2, <2>3, <2>4
<1>5. ASSUME PilotStream(i, r, m) = PilotStream(j, q, n)
      PROVE  i = j /\ r = q
  <2>1. PilotStream(j, q, n) # Refused
    BY <1>5
  <2>2. i * PilotBlock + r = j * PilotBlock + q
    BY <1>1, <1>2, <1>5, <2>1, PartitionOK
  <2>3. r \in 0..(PilotBlock - 1) /\ q \in 0..(PilotBlock - 1) /\ PilotBlock \in Nat
    BY <1>1, <2>1, PartitionOK
  <2> QED
    BY <2>2, <2>3, BlocksApart
<1> QED
  BY <1>4, <1>5
=============================================================================
